----------------------------- MODULE ServerProofs -----------------------------
(***************************************************************************)
(* The server's process and its routes.                                    *)
(*                                                                         *)
(* However many commands start and stop servers: those that do not overlap *)
(* lose no server, and what a command says at its end of the process it    *)
(* stopped, or of the child it gave up, is true. A server that died stays  *)
(* dead, because a command spawns once, before anything names its server;  *)
(* and where commands take turns, the one under way knows what the file    *)
(* names by where it is.                                                   *)
(*                                                                         *)
(* However many clients make however many requests: a client sends what    *)
(* its route takes, except where it leaves an option to the server; an     *)
(* edit writes what its user named; and a refusal that says why it refused *)
(* has changed nothing that is still there. The first two are facts about  *)
(* each command and each form, and hold of all that can be typed into it.  *)
(***************************************************************************)
EXTENDS ServerLifecycle, Api, FiniteSetTheorems, SequenceTheorems, TLAPS

(*----------------------- the commands and the servers --------------------*)

Sayings == {"", "not running", "already running", "refused", "healthy", "unhealthy", "started",
            "stopped", "not stopped", "failed", "interrupted"}

LifeTypeOK ==
    /\ file \in Commands \cup {Nobody}
    /\ proc \in [Commands -> {"none", "booting", "up", "closing", "dead"}]
    /\ kind \in [Commands -> {"", "start", "stop", "restart", "status"}]
    /\ phase \in [Commands -> {"idle", "read", "check", "probe", "clean", "spawn", "write",
                               "wait", "kill", "drop", "grace", "delete", "done"}]
    /\ seen \in [Commands -> Commands \cup {Nobody}]
    /\ said \in [Commands -> Sayings]
    /\ overlapped \in BOOLEAN /\ unwritten \in BOOLEAN

(* A command spawns once, and nothing names its server before. *)
BeforeSpawn == {"idle", "read", "check", "probe", "clean", "spawn", "grace", "delete"}
SpawnsOnce ==
    /\ \A c \in Commands : phase[c] \in BeforeSpawn => proc[c] = "none"
    /\ \A c \in Commands : phase[c] = "write" => proc[c] # "none"
    /\ file # Nobody => proc[file] # "none"
    /\ \A c \in Commands : seen[c] # Nobody => proc[seen[c]] # "none"

(* What is found out of a process before the command says so. *)
KnownDead ==
    \A c \in Commands :
        /\ phase[c] = "delete" => ~ Alive(seen[c])
        /\ phase[c] = "drop" => ~ Alive(c)
        /\ said[c] # "" => phase[c] = "done"

(* Where commands take turns, what the file names by where the one is that *)
(* is under way.                                                           *)
TakeTurns == ~ overlapped => \A c, d \in Commands : UnderWay(c) /\ UnderWay(d) => c = d
FileIsKnown ==
    ~ overlapped /\ ~ unwritten =>
        \A c \in Commands :
            /\ phase[c] = "clean" => ~ Alive(file)
            /\ phase[c] \in {"spawn", "write"} => file = Nobody
            /\ phase[c] \in {"wait", "kill", "drop"} => file = c
            /\ phase[c] \in {"grace", "delete"} => file = seen[c]

LifeInv == LifeTypeOK /\ SpawnsOnce /\ KnownDead /\ TakeTurns /\ FileIsKnown /\ Findable /\ Finished

-----------------------------------------------------------------------------
LEMMA LifeInitially == LifeInit => LifeInv
<1> SUFFICES ASSUME LifeInit PROVE LifeInv
    OBVIOUS
<1> USE LifecycleAssumption DEF LifeInit
<1>1. LifeTypeOK
    BY DEF LifeTypeOK, Sayings
<1>2. SpawnsOnce /\ KnownDead /\ TakeTurns
    BY DEF SpawnsOnce, KnownDead, TakeTurns, UnderWay
<1>3. FileIsKnown /\ Findable /\ Finished
    BY DEF FileIsKnown, Findable, Finished, Alive
<1>4. QED
    BY <1>1, <1>2, <1>3 DEF LifeInv

(* A process that is not alive, and was, stays so, whatever the servers do *)
(* and whichever process a signal is for.                                  *)
Weakens(p, q) ==
    /\ q \in [Commands -> {"none", "booting", "up", "closing", "dead"}]
    /\ \A c \in Commands : p[c] = "none" <=> q[c] = "none"
    /\ \A c \in Commands : q[c] \in {"booting", "up", "closing"} => p[c] \in {"booting", "up", "closing"}

LEMMA SigtermWeakens ==
    ASSUME LifeTypeOK, NEW p \in Commands
    PROVE  Weakens(proc, AfterSigterm(p))
BY DEF LifeTypeOK, Weakens, AfterSigterm

LEMMA SigkillWeakens ==
    ASSUME LifeTypeOK, NEW p \in Commands
    PROVE  Weakens(proc, AfterSigkill(p)) /\ AfterSigkill(p)[p] \notin {"booting", "up", "closing"}
<1>1. AfterSigkill(p) = [proc EXCEPT ![p] = IF p # Nobody /\ proc[p] \in {"booting", "up", "closing"}
                                            THEN "dead" ELSE proc[p]]
    BY DEF AfterSigkill, Alive
<1>2. QED
    BY <1>1, LifecycleAssumption DEF LifeTypeOK, Weakens

LEMMA ServersWeaken ==
    ASSUME LifeTypeOK, NEW p \in Commands, Server(p)
    PROVE  /\ Weakens(proc, proc')
           /\ UNCHANGED <<file, kind, phase, seen, said, overlapped, unwritten>>
BY DEF LifeTypeOK, Weakens, Server, Listens, BootFails, Crashes, Exits, ServerStep, log

LEMMA WeakerIsFine ==
    ASSUME LifeInv, Weakens(proc, proc'), UNCHANGED <<file, kind, phase, seen, said, overlapped, unwritten>>
    PROVE  LifeInv'
<1>1. LifeTypeOK'
    BY DEF LifeInv, LifeTypeOK, Weakens
<1>2. \A p \in Commands : Alive(p)' => Alive(p)
    BY DEF Alive, Weakens
<1>3. \A p \in Commands \cup {Nobody} : Alive(p)' => Alive(p)
    BY <1>2 DEF Alive
<1>4. SpawnsOnce'
    BY DEF LifeInv, LifeTypeOK, SpawnsOnce, Weakens
<1>5. KnownDead' /\ TakeTurns' /\ Finished'
    BY <1>3 DEF LifeInv, LifeTypeOK, KnownDead, TakeTurns, UnderWay, Finished
<1>6. FileIsKnown' /\ Findable'
    BY <1>3 DEF LifeInv, LifeTypeOK, FileIsKnown, Findable
<1>7. QED
    BY <1>1, <1>4, <1>5, <1>6 DEF LifeInv

(* One command takes a step: what it does to each part of the invariant.   *)
LEMMA TypeStep ==
    ASSUME LifeInv, NEW c \in Commands, Acts(c)
    PROVE  LifeTypeOK'
<1> USE LifecycleAssumption DEF LifeInv, LifeTypeOK, Sayings, Goto, Finishes, EndStop, log
<1>1. CASE Begin(c)
    <2>1. overlapped' \in BOOLEAN
        BY <1>1, Zenon DEF Begin
    <2>2. kind' \in [Commands -> {"", "start", "stop", "restart", "status"}]
        BY <1>1 DEF Begin
    <2>3. QED
        BY <1>1, <2>1, <2>2 DEF Begin
<1>2. CASE ReadNothing(c)
    BY <1>2 DEF ReadNothing
<1>3. CASE ReadStale(c)
    BY <1>3 DEF ReadStale
<1>4. CASE ReadAlive(c)
    <2>1. file \in Commands
        BY <1>4 DEF ReadAlive, Alive
    <2>2. proc' \in [Commands -> {"none", "booting", "up", "closing", "dead"}]
        BY <1>4, <2>1, SigtermWeakens DEF ReadAlive, Weakens
    <2>3. QED
        BY <1>4, <2>2 DEF ReadAlive
<1>5. CASE Clean(c)
    BY <1>5 DEF Clean
<1>6. CASE Check(c)
    BY <1>6 DEF Check
<1>7. CASE Probe(c)
    BY <1>7 DEF Probe
<1>8. CASE Spawn(c)
    BY <1>8 DEF Spawn
<1>9. CASE SpawnFails(c)
    BY <1>9 DEF SpawnFails
<1>10. CASE Write(c)
    BY <1>10 DEF Write
<1>11. CASE Started(c)
    BY <1>11 DEF Started
<1>12. CASE GivesUp(c)
    BY <1>12, SigtermWeakens DEF GivesUp, Weakens
<1>13. CASE KillChild(c)
    BY <1>13, SigkillWeakens DEF KillChild, Weakens
<1>14. CASE Drop(c)
    BY <1>14 DEF Drop
<1>15. CASE Gone(c)
    BY <1>15 DEF Gone
<1>16. CASE Escalate(c)
    <2>1. seen[c] \in Commands
        BY <1>16 DEF Escalate, Alive
    <2>2. QED
        BY <1>16, <2>1, SigkillWeakens DEF Escalate, Weakens
<1>17. CASE Delete(c)
    BY <1>17 DEF Delete
<1>18. CASE Interrupted(c)
    BY <1>18 DEF Interrupted
<1>19. CASE SignalRefused(c)
    BY <1>19 DEF SignalRefused, Alive
<1>20. QED
    BY <1>1, <1>2, <1>3, <1>4, <1>5, <1>6, <1>7, <1>8, <1>9, <1>10, <1>11, <1>12, <1>13, <1>14, <1>15, <1>16, <1>17, <1>18, <1>19 DEF Acts

(* Only a spawn brings a process to life. *)
LEMMA CommandsWeaken ==
    ASSUME LifeInv, NEW c \in Commands, Acts(c), ~ Spawn(c)
    PROVE  Weakens(proc, proc')
<1>1. CASE ReadAlive(c)
    <2>1. file \in Commands
        BY <1>1 DEF ReadAlive, Alive, LifeInv, LifeTypeOK
    <2>2. proc' = AfterSigterm(file) \/ proc' = proc
        BY <1>1 DEF ReadAlive
    <2>3. Weakens(proc, proc)
        BY DEF LifeInv, LifeTypeOK, Weakens
    <2>4. QED
        BY <2>1, <2>2, <2>3, SigtermWeakens DEF LifeInv
<1>2. CASE GivesUp(c)
    BY <1>2, SigtermWeakens DEF GivesUp, LifeInv
<1>3. CASE KillChild(c)
    BY <1>3, SigkillWeakens DEF KillChild, LifeInv
<1>4. CASE Escalate(c)
    <2>1. seen[c] \in Commands
        BY <1>4 DEF Escalate, Alive, LifeInv, LifeTypeOK
    <2>2. QED
        BY <1>4, <2>1, SigkillWeakens DEF Escalate, LifeInv
<1>5. CASE UNCHANGED proc
    BY <1>5 DEF LifeInv, LifeTypeOK, Weakens
<1>6. QED
    BY <1>1, <1>2, <1>3, <1>4, <1>5 DEF Acts, Begin, ReadNothing, ReadStale, SignalRefused, Clean, Check, Probe,
       SpawnFails, Write, Started, Drop, Gone, Delete, Interrupted

(* A process that is known, whose name is not Nobody's, is dead for good    *)
(* once it is not alive.                                                   *)
LEMMA DeadStaysDead ==
    ASSUME LifeInv, NEW c \in Commands, Acts(c),
           NEW p \in Commands \cup {Nobody}, ~ Alive(p), ~ (Spawn(c) /\ p = c)
    PROVE  ~ Alive(p)'
<1>1. CASE Spawn(c)
    BY <1>1 DEF Spawn, Alive, LifeInv, LifeTypeOK
<1>2. CASE ~ Spawn(c)
    BY <1>2, CommandsWeaken DEF Alive, Weakens
<1>3. QED
    BY <1>1, <1>2

(* The other commands stay where they are. *)
LEMMA OthersRest ==
    ASSUME LifeInv, NEW c \in Commands, Acts(c), NEW d \in Commands, d # c
    PROVE  phase'[d] = phase[d] /\ said'[d] = said[d] /\ seen'[d] = seen[d]
BY ZenonT(30) DEF Goto, Finishes, EndStop, log, Acts, Begin, ReadNothing, ReadStale, ReadAlive, SignalRefused, Clean, Check, Probe, Spawn,
   SpawnFails, Write, Started, GivesUp, KillChild, Drop, Gone, Escalate, Delete,
   Interrupted,
   LifeInv, LifeTypeOK

(* A command spawns once, and what it names has been spawned. *)
LEMMA SpawnsOnceStep ==
    ASSUME LifeInv, NEW c \in Commands, Acts(c)
    PROVE  SpawnsOnce'
<1> USE LifecycleAssumption DEF Goto, Finishes, EndStop, log
<1>1. \A d \in Commands : proc[d] # "none" => proc'[d] # "none"
    <2>1. CASE Spawn(c)
        BY <2>1 DEF Spawn, LifeInv, LifeTypeOK
    <2>2. CASE ~ Spawn(c)
        BY <2>2, CommandsWeaken DEF Weakens
    <2>3. QED
        BY <2>1, <2>2
<1>2. \A d \in Commands : d # c => phase'[d] = phase[d] /\ (proc[d] = "none" => proc'[d] = "none")
    <2>1. CASE Spawn(c)
        BY <2>1 DEF Spawn, LifeInv, LifeTypeOK
    <2>2. CASE ~ Spawn(c)
        BY <2>2, OthersRest, CommandsWeaken DEF Weakens
    <2>3. QED
        BY <2>1, <2>2
<1>3. phase'[c] \in BeforeSpawn => phase[c] \in BeforeSpawn /\ ~ Spawn(c)
    BY ZenonT(30) DEF Acts, Begin, ReadNothing, ReadStale, ReadAlive, SignalRefused, Clean, Check, Probe, Spawn,
       SpawnFails, Write, Started, GivesUp, KillChild, Drop, Gone, Escalate, Delete,
       Interrupted, LifeInv, LifeTypeOK, BeforeSpawn
<1>4. \A d \in Commands : phase'[d] \in BeforeSpawn => proc'[d] = "none"
    BY <1>2, <1>3, CommandsWeaken DEF Weakens, LifeInv, SpawnsOnce
<1>5. file' # Nobody => proc'[file'] # "none"
    <2>1. CASE Write(c)
        BY <2>1 DEF Write, LifeInv, SpawnsOnce
    <2>2. CASE ~ Write(c)
        <3>1. file' \in {file, Nobody}
            BY <2>2 DEF Acts, Begin, ReadNothing, ReadStale, ReadAlive, SignalRefused, Clean, Check, Probe,
               Spawn, SpawnFails, Started, GivesUp, KillChild, Drop, Gone, Escalate, Delete,
               Interrupted
        <3>2. QED
            BY <3>1, <1>1 DEF LifeInv, LifeTypeOK, SpawnsOnce
    <2>3. QED
        BY <2>1, <2>2
<1>6. \A d \in Commands : seen'[d] # Nobody => proc'[seen'[d]] # "none"
    <2>1. seen' = seen \/ (file # Nobody /\ seen' = [seen EXCEPT ![c] = file])
        BY DEF Acts, Begin, ReadNothing, ReadStale, ReadAlive, SignalRefused, Clean, Check, Probe, Spawn,
           SpawnFails, Write, Started, GivesUp, KillChild, Drop, Gone, Escalate, Delete,
           Interrupted, Alive
    <2>2. \A d \in Commands : seen'[d] = seen[d] \/ (file # Nobody /\ seen'[d] = file)
        BY <2>1 DEF LifeInv, LifeTypeOK
    <2>3. \A d \in Commands : seen'[d] # Nobody => seen'[d] \in Commands /\ proc[seen'[d]] # "none"
        BY ZenonT(30), <2>2 DEF LifeInv, LifeTypeOK, SpawnsOnce
    <2>4. QED
        BY <2>3, <1>1
<1>7. \A d \in Commands : phase'[d] = "write" => proc'[d] # "none"
    <2>1. \A d \in Commands : d # c => phase'[d] = phase[d]
        BY OthersRest
    <2>2. phase'[c] = "write" => Spawn(c)
        BY DEF Acts, Begin, ReadNothing, ReadStale, ReadAlive, SignalRefused, Clean, Check, Probe,
           SpawnFails, Write, Started, GivesUp, KillChild, Drop, Gone, Escalate, Delete,
           Interrupted, LifeInv, LifeTypeOK
    <2>3. Spawn(c) => proc'[c] = "booting"
        BY DEF Spawn, LifeInv, LifeTypeOK
    <2>4. QED
        BY <2>1, <2>2, <2>3, <1>1 DEF LifeInv, SpawnsOnce
<1>8. QED
    BY <1>4, <1>5, <1>6, <1>7 DEF SpawnsOnce

(* What a command finds out of a process, and says of it. *)
LEMMA KnownDeadStep ==
    ASSUME LifeInv, NEW c \in Commands, Acts(c)
    PROVE  KnownDead' /\ Finished'
<1> USE LifecycleAssumption DEF Goto, Finishes, EndStop, log
<1>1. \A d \in Commands :
          d # c => phase'[d] = phase[d] /\ said'[d] = said[d] /\ seen'[d] = seen[d]
    BY OthersRest
<1>2. \A p \in Commands \cup {Nobody} : ~ Alive(p) /\ p # c => ~ Alive(p)'
    BY DeadStaysDead
<1>3. ASSUME NEW d \in Commands, ~ Alive(seen[d]), seen'[d] = seen[d]
      PROVE  ~ Alive(seen[d])'
    <2>1. seen[d] = c => ~ Spawn(c)
        BY DEF Spawn, LifeInv, SpawnsOnce, BeforeSpawn
    <2>2. PICK p \in Commands \cup {Nobody} : p = seen[d]
        BY DEF LifeInv, LifeTypeOK
    <2>3. ~ Alive(p)'
        BY <1>3, <2>1, <2>2, DeadStaysDead
    <2>4. QED
        BY <1>3, <2>2, <2>3 DEF Alive
<1>4. \A d \in Commands : d # c =>
          /\ phase'[d] = "delete" => ~ Alive(seen[d])'
          /\ phase'[d] = "drop" => ~ Alive(d)'
          /\ said'[d] # "" => phase'[d] = "done"
          /\ said'[d] = "stopped" => ~ Alive(seen[d])'
          /\ said'[d] = "failed" => ~ Alive(d)'
    BY <1>1, <1>2, <1>3 DEF LifeInv, KnownDead, Finished
<1>5. phase'[c] = "delete" => ~ Alive(seen[c])'
    <2>1. CASE Escalate(c)
        BY <2>1, SigkillWeakens DEF Escalate, Alive, LifeInv, LifeTypeOK
    <2>2. CASE Gone(c)
        BY <2>2 DEF Gone, Alive
    <2>3. phase'[c] = "delete" => Escalate(c) \/ Gone(c)
        BY DEF Acts, Begin, ReadNothing, ReadStale, ReadAlive, SignalRefused, Clean, Check, Probe, Spawn,
           SpawnFails, Write, Started, GivesUp, KillChild, Drop, Delete,
           Interrupted, LifeInv, LifeTypeOK
    <2>4. QED
        BY <2>1, <2>2, <2>3
<1>6. phase'[c] = "drop" => ~ Alive(c)'
    <2>1. CASE KillChild(c)
        BY <2>1, SigkillWeakens DEF KillChild, Alive, LifeInv, LifeTypeOK
    <2>2. phase'[c] = "drop" => KillChild(c)
        BY DEF Acts, Begin, ReadNothing, ReadStale, ReadAlive, SignalRefused, Clean, Check, Probe, Spawn,
           SpawnFails, Write, Started, GivesUp, Drop, Gone, Escalate, Delete,
           Interrupted, LifeInv, LifeTypeOK
    <2>3. QED
        BY <2>1, <2>2
<1>7. said'[c] # "" => phase'[c] = "done"
    BY DEF Acts, Begin, ReadNothing, ReadStale, ReadAlive, SignalRefused, Clean, Check, Probe, Spawn,
       SpawnFails, Write, Started, GivesUp, KillChild, Drop, Gone, Escalate, Delete,
       Interrupted, LifeInv, LifeTypeOK,
       KnownDead
<1>8. said'[c] = "stopped" => ~ Alive(seen[c])'
    <2>1. said[c] = ""
        BY DEF Acts, Begin, ReadNothing, ReadStale, ReadAlive, SignalRefused, Clean, Check, Probe, Spawn,
           SpawnFails, Write, Started, GivesUp, KillChild, Drop, Gone, Escalate, Delete,
           Interrupted,
           UnderWay, LifeInv, KnownDead
    <2>2. said'[c] = "stopped" => Delete(c)
        BY <2>1 DEF Acts, Begin, ReadNothing, ReadStale, ReadAlive, SignalRefused, Clean, Check, Probe, Spawn,
           SpawnFails, Write, Started, GivesUp, KillChild, Drop, Gone, Escalate,
           Interrupted, LifeInv, LifeTypeOK
    <2>3. Delete(c) => ~ Alive(seen[c]) /\ UNCHANGED seen
        BY DEF Delete, LifeInv, KnownDead
    <2>4. QED
        BY <2>2, <2>3, <1>3
<1>9. said'[c] = "failed" => ~ Alive(c)'
    <2>1. said[c] = ""
        BY DEF Acts, Begin, ReadNothing, ReadStale, ReadAlive, SignalRefused, Clean, Check, Probe, Spawn,
           SpawnFails, Write, Started, GivesUp, KillChild, Drop, Gone, Escalate, Delete,
           Interrupted,
           UnderWay, LifeInv, KnownDead
    <2>2. said'[c] = "failed" => Drop(c) \/ SpawnFails(c)
        BY <2>1 DEF Acts, Begin, ReadNothing, ReadStale, ReadAlive, SignalRefused, Clean, Check, Probe, Spawn,
           Write, Started, GivesUp, KillChild, Gone, Escalate, Delete,
           Interrupted, LifeInv, LifeTypeOK
    <2>3. Drop(c) => ~ Alive(c) /\ UNCHANGED proc
        BY DEF Drop, LifeInv, KnownDead
    <2>4. SpawnFails(c) => ~ Alive(c) /\ UNCHANGED proc
        BY DEF SpawnFails, LifeInv, SpawnsOnce, BeforeSpawn, Alive
    <2>5. QED
        BY <2>2, <2>3, <2>4 DEF Alive
<1>10. QED
    BY <1>4, <1>5, <1>6, <1>7, <1>8, <1>9 DEF KnownDead, Finished

(* Where none has overlapped, the others are not under way. *)
LEMMA Alone ==
    ASSUME LifeInv, NEW c \in Commands, Acts(c), ~ overlapped'
    PROVE  ~ overlapped /\ \A d \in Commands : d # c => ~ UnderWay(d)
<1>1. ~ overlapped /\ (Begin(c) => \A d \in Commands : ~ UnderWay(d))
    BY DEF log, Acts, Begin, ReadNothing, ReadStale, ReadAlive, SignalRefused, Clean, Check, Probe, Spawn,
       SpawnFails, Write, Started, GivesUp, KillChild, Drop, Gone, Escalate, Delete,
       Interrupted,
       LifeInv, LifeTypeOK
<1>2. CASE Begin(c)
    BY <1>1, <1>2
<1>3. CASE ~ Begin(c)
    <2>1. UnderWay(c)
        BY <1>3 DEF Acts, ReadNothing, ReadStale, ReadAlive, SignalRefused, Clean, Check, Probe, Spawn,
           SpawnFails, Write, Started, GivesUp, KillChild, Drop, Gone, Escalate, Delete,
           Interrupted,
           UnderWay
    <2>2. QED
        BY <1>1, <2>1 DEF LifeInv, TakeTurns
<1>4. QED
    BY <1>2, <1>3

(* One command at a time, unless two overlapped. *)
LEMMA TakeTurnsStep ==
    ASSUME LifeInv, NEW c \in Commands, Acts(c)
    PROVE  TakeTurns'
<1>1. ~ overlapped' => \A d \in Commands : d # c => ~ UnderWay(d)'
    BY Alone, OthersRest DEF UnderWay
<1>2. QED
    BY <1>1 DEF TakeTurns

(* What the file names, and that a server that lives is named by it. *)
LEMMA FileStep ==
    ASSUME LifeInv, NEW c \in Commands, Acts(c)
    PROVE  FileIsKnown' /\ Findable'
<1> SUFFICES ASSUME ~ overlapped', ~ unwritten'
             PROVE  FileIsKnown' /\ Findable'
    BY DEF FileIsKnown, Findable
<1> USE LifecycleAssumption DEF Goto, Finishes, EndStop, log
<1>1. ~ unwritten
    BY DEF Acts, Begin, ReadNothing, ReadStale, ReadAlive, SignalRefused, Clean, Check, Probe, Spawn,
       SpawnFails, Write, Started, GivesUp, KillChild, Drop, Gone, Escalate, Delete,
       Interrupted
<1>2. \A d \in Commands : d # c => phase[d] \in {"idle", "done"} /\ phase'[d] = phase[d]
    BY Alone, OthersRest DEF UnderWay
<1>3. \A p \in Commands : Alive(p) => file = p \/ phase[p] = "write"
    BY <1>1, Alone DEF LifeInv, Findable
<1>4. /\ phase[c] = "clean" => ~ Alive(file)
      /\ phase[c] \in {"spawn", "write"} => file = Nobody
      /\ phase[c] \in {"wait", "kill", "drop"} => file = c
      /\ phase[c] \in {"grace", "delete"} => file = seen[c]
    BY <1>1, Alone DEF LifeInv, FileIsKnown
<1>5. CASE Spawn(c)
    <2>1. \A p \in Commands : ~ Alive(p)
        BY <1>2, <1>3, <1>4, <1>5 DEF Spawn
    <2>2. QED
        BY <1>2, <1>5, <2>1 DEF Spawn, FileIsKnown, Findable, Alive, LifeInv, LifeTypeOK
<1>6. CASE ~ Spawn(c)
    <2>1. \A p \in Commands \cup {Nobody} : ~ Alive(p) => ~ Alive(p)'
        BY <1>6, DeadStaysDead
    <2>2. FileIsKnown'
        <3>1. /\ phase'[c] = "clean" => ~ Alive(file)'
              /\ phase'[c] \in {"spawn", "write"} => file' = Nobody
              /\ phase'[c] \in {"wait", "kill", "drop"} => file' = c
              /\ phase'[c] \in {"grace", "delete"} => file' = seen'[c]
            <4>1. DOMAIN phase = Commands /\ DOMAIN seen = Commands
                BY DEF LifeInv, LifeTypeOK
            <4>2. CASE Begin(c) \/ ReadNothing(c) \/ ReadStale(c) \/ ReadAlive(c)
                BY <2>1, <4>1, <4>2 DEF Begin, ReadNothing, ReadStale, ReadAlive, Alive
            <4>3. CASE Clean(c) \/ Check(c) \/ Probe(c) \/ SpawnFails(c) \/ Interrupted(c) \/ SignalRefused(c)
                BY <4>1, <4>3 DEF Clean, Check, Probe, SpawnFails, Interrupted, SignalRefused
            <4>4. CASE Write(c) \/ Started(c) \/ GivesUp(c) \/ KillChild(c)
                BY <1>4, <4>1, <4>4 DEF Write, Started, GivesUp, KillChild
            <4>5. CASE Drop(c) \/ Gone(c) \/ Escalate(c) \/ Delete(c)
                BY <1>4, <4>1, <4>5 DEF Drop, Gone, Escalate, Delete
            <4>6. QED
                BY <1>6, <4>2, <4>3, <4>4, <4>5 DEF Acts
        <3>2. QED
            BY <1>2, <3>1 DEF FileIsKnown
    <2>3. \A p \in Commands : Alive(p)' => file' = p \/ phase'[p] = "write"
        <3>1. SUFFICES ASSUME NEW p \in Commands, Alive(p)'
                       PROVE  file' = p \/ phase'[p] = "write"
            OBVIOUS
        <3>2. Alive(p) /\ (file = p \/ phase[p] = "write")
            BY <3>1, <2>1, <1>3
        <3>3. CASE phase[p] = "write"
            <4>1. p = c
                BY <1>2, <3>3
            <4>2. Write(c) \/ Interrupted(c)
                BY <3>3, <4>1 DEF Acts, Begin, ReadNothing, ReadStale, ReadAlive, SignalRefused, Clean, Check, Probe, Spawn,
                   SpawnFails, Started, GivesUp, KillChild, Drop, Gone, Escalate, Delete
            <4>3. QED
                BY <3>3, <4>1, <4>2 DEF Write, Interrupted
        <3>4. CASE file = p
            <4>1. /\ phase[c] \in {"clean", "delete", "drop"} => FALSE
                  /\ ~ Write(c)
                BY <3>2, <3>4, <1>4 DEF Write, LifeInv, KnownDead
            <4>2. file' = file
                BY <4>1 DEF Acts, Begin, ReadNothing, ReadStale, ReadAlive, SignalRefused, Clean, Check, Probe, Spawn,
                   SpawnFails, Started, GivesUp, KillChild, Drop, Gone, Escalate, Delete,
                   Interrupted
            <4>3. QED
                BY <3>4, <4>2
        <3>5. QED
            BY <3>2, <3>3, <3>4
    <2>4. QED
        BY <2>2, <2>3 DEF Findable
<1>7. QED
    BY <1>5, <1>6

(* Every step keeps the invariant. *)
LEMMA LifeInductive == LifeInv /\ [LifeNext]_lifeVars => LifeInv'
<1> SUFFICES ASSUME LifeInv, [LifeNext]_lifeVars PROVE LifeInv'
    OBVIOUS
<1>1. ASSUME NEW c \in Commands, Server(c) PROVE LifeInv'
    BY <1>1, ServersWeaken, WeakerIsFine DEF LifeInv
<1>2. ASSUME NEW c \in Commands, Acts(c) PROVE LifeInv'
    BY <1>2, TypeStep, SpawnsOnceStep, KnownDeadStep, TakeTurnsStep, FileStep DEF LifeInv
<1>3. CASE UNCHANGED lifeVars
    <2>1. Weakens(proc, proc)
        BY DEF LifeInv, LifeTypeOK, Weakens
    <2>2. QED
        BY <1>3, <2>1, WeakerIsFine DEF lifeVars
<1>4. QED
    BY <1>1, <1>2, <1>3 DEF LifeNext

(* The types of the state, for any number of commands. *)
THEOREM LifeTypesAreCorrect == LifeSpec => []LifeTypeOK
<1>1. LifeInv => LifeTypeOK
    BY DEF LifeInv
<1>2. QED
    BY LifeInitially, LifeInductive, <1>1, PTL DEF LifeSpec

(* The commands of emploke, given one at a time, never lose sight of a     *)
(* server that lives, and, even where they overlap, a stop that says       *)
(* "stopped" and a start that says it gave up leave no process behind.     *)
THEOREM ServersStayFindable == LifeSpec => []NoServerIsLost
<1>1. LifeInv => NoServerIsLost
    BY DEF LifeInv, NoServerIsLost
<1>2. QED
    BY LifeInitially, LifeInductive, <1>1, PTL DEF LifeSpec

-----------------------------------------------------------------------------
(*------------------------------- bodies ----------------------------------*)

(* A field of a body and its value. *)
Holds(b, k, v) == k \in DOMAIN b /\ b[k] = v

(* Keys of different lengths, or with different parts, are different.      *)
LEMMA Keys ==
    /\ \A x : Len(<<x>>) = 1 /\ <<x>>[1] = x
    /\ \A x, y : Len(<<x, y>>) = 2 /\ <<x, y>>[1] = x /\ <<x, y>>[2] = y
    /\ \A x, y, z : Len(<<x, y, z>>) = 3 /\ <<x, y, z>>[1] = x /\ <<x, y, z>>[2] = y
                    /\ <<x, y, z>>[3] = z
OBVIOUS

LEMMA OverIs ==
    ASSUME NEW f, NEW g
    PROVE  Over(f, g) =
             [x \in DOMAIN f \cup DOMAIN g |-> IF x \in DOMAIN f THEN f[x] ELSE g[x]]
BY DEF Over

(* What `@@` holds one of its sides holds, and it has the fields of both.  *)
LEMMA HoldsOver ==
    ASSUME NEW f, NEW g
    PROVE  /\ \A k, v : Holds(f @@ g, k, v) => Holds(f, k, v) \/ Holds(g, k, v)
           /\ \A k : k \in DOMAIN (f @@ g) <=> k \in DOMAIN f \/ k \in DOMAIN g
BY OverIs DEF Holds, @@

LEMMA HoldsField ==
    ASSUME NEW p, NEW x
    PROVE  /\ \A k, v : Holds(Field(p, x), k, v) <=> k = p /\ v = x
           /\ \A k : k \in DOMAIN Field(p, x) <=> k = p
BY DEF Holds, Field, :>

LEMMA HoldsCopy ==
    ASSUME NEW o, NEW n, NEW p
    PROVE  /\ \A k, v : Holds(Copy(o, n, p), k, v) <=> n \in DOMAIN o /\ k = p /\ v = o[n]
           /\ \A k : k \in DOMAIN Copy(o, n, p) <=> n \in DOMAIN o /\ k = p
BY DEF Holds, Copy, :>, NoBody

LEMMA HoldsFullOnly ==
    ASSUME NEW o, NEW n, NEW p
    PROVE  /\ \A k, v : Holds(FullOnly(o, n, p), k, v)
                          <=> n \in DOMAIN o /\ o[n] \in Full /\ k = p /\ v = o[n]
           /\ \A k : k \in DOMAIN FullOnly(o, n, p) <=> n \in DOMAIN o /\ o[n] \in Full /\ k = p
BY DEF Holds, FullOnly, :>, NoBody, Is

LEMMA HoldsNoBody == (\A k, v : ~ Holds(NoBody, k, v)) /\ DOMAIN NoBody = {}
BY DEF Holds, NoBody

LEMMA HoldsUsage == \A k, v : Holds(Usage, k, v) <=> k = <<"usage">> /\ v = "odd"
BY DEF Holds, Usage, :>

(* A body is not Usage when it has another field, or none.                 *)
LEMMA NotUsage ==
    /\ NoBody # Usage
    /\ \A b, k : k \in DOMAIN b /\ k # <<"usage">> => b # Usage
BY DEF NoBody, Usage, :>

(* A query made of the options as they are. *)
LEMMA HoldsOptions ==
    ASSUME NEW o, NEW k, NEW v,
           \/ Holds(scheduleListTasks(o), k, v) \/ Holds(taskList(o), k, v)
           \/ Holds(sessionList(o), k, v) \/ Holds(workflowList(o), k, v)
    PROVE  \E n \in DOMAIN o : k = <<n>> /\ v = o[n]
BY Keys DEF Holds, scheduleListTasks, taskList, sessionList, workflowList

(* What is read of a body, in terms of what it holds.                      *)
LEMMA IsHolds ==
    ASSUME NEW b, NEW k, NEW forms
    PROVE  /\ MayBe(b, k, forms) <=> \A v : Holds(b, k, v) => v \in forms
           /\ Is(b, k, forms) <=> k \in DOMAIN b /\ MayBe(b, k, forms)
BY DEF Holds, Is, MayBe

LEMMA OnlyHolds ==
    ASSUME NEW b, NEW keys
    PROVE  /\ Only(b, keys) <=> \A k, v : Holds(b, k, v) /\ Len(k) = 1 => k[1] \in keys
           /\ \A p : Within(b, p, keys)
                       <=> \A k, v : Holds(b, k, v) /\ Len(k) = 2 /\ k[1] = p => k[2] \in keys
BY DEF Holds, Only, Within

(*------------------------------- options ---------------------------------*)

(* What is left of a choice f of the forms, typed or picked.               *)
IsTyped(o, f) ==
    /\ DOMAIN o = {n \in DOMAIN f : f[n] # "absent"}
    /\ \A n \in DOMAIN o : o[n] = f[n]
IsPicked(p, o, f) ==
    /\ DOMAIN p = {n \in DOMAIN f : f[n] \notin {"absent", "empty"}}
    /\ \A n \in DOMAIN p : n \in DOMAIN o /\ p[n] = f[n] /\ o[n] = f[n]

LEMMA TypedIs ==
    ASSUME NEW options, NEW o \in Typed(options)
    PROVE  \E f \in options : IsTyped(o, f)
BY DEF Typed, IsTyped

LEMMA PickedIs ==
    ASSUME NEW o
    PROVE  /\ DOMAIN Picked(o) = {n \in DOMAIN o : o[n] # "empty"}
           /\ \A n \in DOMAIN Picked(o) : Picked(o)[n] = o[n]
BY DEF Picked

LEMMA Picks ==
    ASSUME NEW options, NEW o \in Typed(options)
    PROVE  \E f \in options : IsPicked(Picked(o), o, f)
<1>1. PICK f \in options : IsTyped(o, f)
  BY TypedIs
<1>2. \A n : n \in DOMAIN Picked(o) <=> n \in DOMAIN f /\ f[n] \notin {"absent", "empty"}
  BY ZenonT(30), <1>1, PickedIs DEF IsTyped
<1>3. IsPicked(Picked(o), o, f)
  BY <1>1, <1>2, PickedIs DEF IsTyped, IsPicked
<1> QED BY <1>3

(*------------------------------- requests --------------------------------*)

(* What an edit writes, its user named, or a field it goes with.           *)
Justified(edits, names, whole) ==
    \A f \in edits :
        f \in names \/ whole \/ (f \in {"expr", "tz"} /\ names \cap {"expr", "tz"} # {})

Fields == {"op", "sent", "taken", "form", "whole", "reads", "names", "edits", "odd"}
Shaped(r) ==
    /\ DOMAIN r = Fields
    /\ {r.sent, r.taken, r.form, r.whole, r.reads} \subseteq BOOLEAN
    /\ r.taken => r.sent
Agrees(t, r)   == r.sent /\ ~ r.taken => ~ r.form /\ r.odd \cap LeftToServer[t] # {}
Made(t, r)     == Shaped(r) /\ Justified(r.edits, r.names, r.whole) /\ Agrees(t, r)

(* ... and what it writes that its user did not name, it reads first.      *)
WellMade(t, r) == Made(t, r) /\ (r.edits \subseteq r.names \/ r.reads)

(* An option with a form that is left to the server. *)
Odd(t, o) == \E n \in DOMAIN o : o[n] \notin Usual /\ n \in LeftToServer[t]
NamesOf(o) == {FieldOf(n) : n \in DOMAIN o}

LEMMA RequestIs ==
    ASSUME NEW op, NEW o, NEW b, NEW taken
    PROVE  /\ Request(op, o, b, taken).sent = (b # Usage)
           /\ Request(op, o, b, taken).taken = taken
BY DEF Request

LEMMA ARequest ==
    ASSUME NEW t, NEW op, NEW o, NEW b, NEW taken \in BOOLEAN,
           taken => b # Usage,
           taken /\ op \in Updates => Justified(FieldsIn(b), NamesOf(o), FALSE),
           b # Usage /\ ~ taken => Odd(t, o)
    PROVE  LET r == Request(op, o, b, taken)
           IN  /\ Made(t, r)
               /\ (taken /\ op \in Updates => FieldsIn(b) \subseteq NamesOf(o)) => WellMade(t, r)
<1> DEFINE r == Request(op, o, b, taken)
<1>1. r = [op |-> op, sent |-> b # Usage, taken |-> taken, form |-> FALSE, whole |-> FALSE,
           reads |-> FALSE,
           names |-> IF taken /\ op \in Updates THEN NamesOf(o) ELSE {},
           edits |-> IF taken /\ op \in Updates THEN FieldsIn(b) ELSE {},
           odd   |-> IF b # Usage /\ ~ taken THEN {n \in DOMAIN o : o[n] \notin Usual} ELSE {}]
  BY DEF Request, NamesOf
<1> HIDE DEF r
<1>2. Shaped(r)
  BY <1>1 DEF Shaped, Fields
<1>3. Justified(r.edits, r.names, r.whole)
  BY <1>1 DEF Justified
<1>4. Agrees(t, r)
  BY <1>1 DEF Agrees, Odd
<1>5. (taken /\ op \in Updates => FieldsIn(b) \subseteq NamesOf(o)) => r.edits \subseteq r.names
  BY <1>1
<1> QED BY <1>2, <1>3, <1>4, <1>5 DEF Made, WellMade, r

LEMMA AForm ==
    ASSUME NEW t, NEW r, Made(t, r), r.sent => r.taken
    PROVE  Made(t, ByForm(r)) /\ (WellMade(t, r) => WellMade(t, ByForm(r)))
<1>1. /\ DOMAIN ByForm(r) = DOMAIN r
      /\ ByForm(r).sent = r.sent /\ ByForm(r).taken = r.taken /\ ByForm(r).form = TRUE
      /\ ByForm(r).whole = r.whole /\ ByForm(r).reads = r.reads
      /\ ByForm(r).names = r.names /\ ByForm(r).edits = r.edits
  BY DEF ByForm, Made, Shaped, Fields
<1> QED BY <1>1 DEF Made, WellMade, Shaped, Agrees

(* A command that changes nothing its route looks at, and a form that is   *)
(* right whenever it is sent.                                              *)
LEMMA ACommand ==
    ASSUME NEW t, NEW op, NEW o, NEW b, NEW taken \in BOOLEAN, op \notin Updates,
           taken => b # Usage, b # Usage /\ ~ Odd(t, o) => taken
    PROVE  WellMade(t, Request(op, o, b, taken))
BY ARequest

LEMMA AFilledForm ==
    ASSUME NEW t, NEW op, NEW o, NEW b, NEW taken \in BOOLEAN, op \notin Updates,
           taken <=> b # Usage
    PROVE  WellMade(t, ByForm(Request(op, o, b, taken)))
<1> DEFINE r == Request(op, o, b, taken)
<1>1. Made(t, r) /\ WellMade(t, r)
  BY ARequest
<1>2. r.sent => r.taken
  BY RequestIs
<1> QED BY <1>1, <1>2, AForm

(* A command and a form that write what was named, and nothing else.       *)
LEMMA SubsetJustified ==
    ASSUME NEW edits, NEW names, edits \subseteq names
    PROVE  Justified(edits, names, FALSE)
BY DEF Justified

LEMMA AnEdit ==
    ASSUME NEW t, NEW op, NEW o, NEW b, NEW taken \in BOOLEAN,
           taken => b # Usage, b # Usage /\ ~ Odd(t, o) => taken,
           b # Usage => FieldsIn(b) \subseteq NamesOf(o)
    PROVE  WellMade(t, Request(op, o, b, taken))
BY ARequest, SubsetJustified

LEMMA AnEditForm ==
    ASSUME NEW t, NEW op, NEW o, NEW b, NEW taken \in BOOLEAN,
           taken <=> b # Usage,
           b # Usage => FieldsIn(b) \subseteq NamesOf(o)
    PROVE  WellMade(t, ByForm(Request(op, o, b, taken)))
<1> DEFINE r == Request(op, o, b, taken)
<1>1. Made(t, r) /\ WellMade(t, r)
  BY ARequest, SubsetJustified
<1>2. r.sent => r.taken
  BY RequestIs
<1> QED BY <1>1, <1>2, AForm

(* Those that write half of a trigger as well, and read the other half.    *)
LEMMA AHalfEdit ==
    ASSUME NEW t, NEW op, NEW o, NEW b, NEW taken \in BOOLEAN,
           taken => b # Usage, b # Usage /\ ~ Odd(t, o) => taken,
           b # Usage => Justified(FieldsIn(b), NamesOf(o), FALSE)
    PROVE  Made(t, Request(op, o, b, taken))
BY ARequest

LEMMA AHalfEditForm ==
    ASSUME NEW t, NEW op, NEW o, NEW b, NEW taken \in BOOLEAN,
           taken <=> b # Usage,
           b # Usage => Justified(FieldsIn(b), NamesOf(o), FALSE)
    PROVE  Made(t, ByForm(Request(op, o, b, taken)))
<1> DEFINE r == Request(op, o, b, taken)
<1>1. Made(t, r)
  BY ARequest
<1>2. r.sent => r.taken
  BY RequestIs
<1> QED BY <1>1, <1>2, AForm

LEMMA Reread ==
    ASSUME NEW t, NEW r, Made(t, r), NEW reads \in BOOLEAN, r.edits \subseteq r.names \/ reads
    PROVE  WellMade(t, [r EXCEPT !.reads = reads])
<1> DEFINE q == [r EXCEPT !.reads = reads]
<1>1. /\ DOMAIN q = DOMAIN r /\ q.reads = reads
      /\ q.sent = r.sent /\ q.taken = r.taken /\ q.form = r.form /\ q.odd = r.odd
      /\ q.whole = r.whole /\ q.names = r.names /\ q.edits = r.edits
  BY DEF Made, Shaped, Fields
<1> HIDE DEF q
<1>2. WellMade(t, q)
  BY <1>1 DEF WellMade, Made, Shaped, Agrees
<1> QED BY <1>2 DEF q

(*------------------------------ schedules --------------------------------*)

LEMMA ScheduleList ==
    \A r \in Command("list", ScheduleOptions.list, scheduleList, ListSchedulesQuery) :
        WellMade("schedule", r)
<1> SUFFICES ASSUME NEW p, NEW b, b = scheduleList(p), b # Usage
             PROVE  ListSchedulesQuery(b)
  BY ACommand DEF Command, Asked, Updates
<1>1. MayBe(p, "enabled", Flag)
  BY DEF scheduleList
<1>2. b = Copy(p, "agent", <<"agent">>) @@ Copy(p, "enabled", <<"enabled">>)
  BY DEF scheduleList
<1> QED BY <1>1, <1>2, HoldsOver, HoldsCopy, IsHolds, Keys DEF ListSchedulesQuery, MayBe

(* What the trigger of a body holds, and a target. *)
Triggers(k, v) ==
    \/ k = <<"trigger">> /\ v = "object"
    \/ k = <<"trigger", "kind">> /\ v = "text"
    \/ k \in {<<"trigger", "expr">>, <<"trigger", "tz">>} /\ v \in Full
Targets(k, v) ==
    \/ k = <<"target">> /\ v = "object"
    \/ k \in {<<"target", "agent">>, <<"target", "runtime">>} /\ v \in Full
    \/ k = <<"target", "brief">> /\ v \in Brief
    \/ k = <<"target", "details">> /\ v \in Strings
Clears(k, v) == k \in {<<"target", "details">>, <<"target", "runtime">>} /\ v = "null"
Rest(k, v) ==
    \/ k = <<"name">> /\ v \in Full
    \/ k = <<"enabled">> /\ v \in Flag
TriggerKeys == {<<"trigger">>, <<"trigger", "kind">>, <<"trigger", "expr">>, <<"trigger", "tz">>}

LEMMA CreateTaken ==
    ASSUME NEW b,
           \A k, v : Holds(b, k, v) => Rest(k, v) \/ Triggers(k, v) \/ Targets(k, v),
           TriggerKeys \subseteq DOMAIN b,
           {<<"name">>, <<"target">>, <<"target", "agent">>, <<"target", "brief">>} \subseteq DOMAIN b
    PROVE  CreateScheduleBody(b)
<1> USE Keys DEF Rest, Triggers, Targets, TriggerKeys
<1>1. Only(b, {"name", "target", "trigger", "enabled"})
  BY OnlyHolds
<1>2. Is(b, <<"name">>, Full) /\ MayBe(b, <<"enabled">>, Flag)
  BY IsHolds
<1>3. Within(b, "target", TaskTarget)
  <2>1. ASSUME NEW k, NEW v, Holds(b, k, v), Len(k) = 2, k[1] = "target" PROVE k[2] \in TaskTarget
    BY <2>1 DEF TaskTarget
  <2> QED BY <2>1, OnlyHolds
<1>4. /\ Is(b, <<"target">>, {"object"}) /\ Is(b, <<"target", "agent">>, Full)
      /\ Is(b, <<"target", "brief">>, Brief)
      /\ MayBe(b, <<"target", "details">>, Strings) /\ MayBe(b, <<"target", "runtime">>, Full)
  BY IsHolds
<1>5. Trigger(b)
  BY IsHolds DEF Trigger, Full
<1> QED BY <1>1, <1>2, <1>3, <1>4, <1>5 DEF CreateScheduleBody, TargetData

LEMMA PatchTaken ==
    ASSUME NEW b,
           \A k, v : Holds(b, k, v) =>
               Rest(k, v) \/ Triggers(k, v) \/ Targets(k, v) \/ Clears(k, v),
           <<"trigger">> \in DOMAIN b => TriggerKeys \subseteq DOMAIN b
    PROVE  PatchScheduleBody(b)
<1> USE Keys DEF Rest, Triggers, Targets, Clears, TriggerKeys
<1>1. Only(b, {"name", "target", "trigger", "enabled"})
  BY OnlyHolds
<1>2. MayBe(b, <<"name">>, Full) /\ MayBe(b, <<"enabled">>, Flag)
  BY IsHolds
<1>3. Within(b, "target", TaskTarget)
  <2>1. ASSUME NEW k, NEW v, Holds(b, k, v), Len(k) = 2, k[1] = "target" PROVE k[2] \in TaskTarget
    BY <2>1 DEF TaskTarget
  <2> QED BY <2>1, OnlyHolds
<1>4. /\ MayBe(b, <<"target">>, {"object"}) /\ MayBe(b, <<"target", "agent">>, Full)
      /\ MayBe(b, <<"target", "brief">>, Brief)
      /\ MayBe(b, <<"target", "details">>, Strings \cup {"null"})
      /\ MayBe(b, <<"target", "runtime">>, Full \cup {"null"})
  BY IsHolds
<1>5. <<"trigger">> \in DOMAIN b => Trigger(b)
  BY IsHolds DEF Trigger, Full
<1>6. <<"target">> \in DOMAIN b => TargetPatch(b)
  BY <1>3, <1>4, IsHolds DEF TargetPatch
<1> QED BY <1>1, <1>2, <1>5, <1>6 DEF PatchScheduleBody

LEMMA ScheduleCreate ==
    \A r \in Command("create", ScheduleOptions.create, scheduleCreate, CreateScheduleBody) :
        WellMade("schedule", r)
<1> SUFFICES ASSUME NEW o \in Typed(ScheduleOptions.create), NEW p, p = Picked(o),
                    NEW b, b = scheduleCreate(p), b # Usage, ~ Odd("schedule", o)
             PROVE  CreateScheduleBody(b)
  BY ACommand DEF Command, Asked, Updates
<1>1. PICK f \in ScheduleOptions.create : IsPicked(p, o, f)
  BY Picks
<1>2. f.runtime \in {"absent", "text", "blank"} /\ f.details \in {"absent", "lines", "empty"}
  BY DEF ScheduleOptions
<1>3. /\ \A n \in {"name", "agent", "cron", "tz"} : n \in DOMAIN p /\ p[n] \in Full
      /\ "brief" \in DOMAIN p /\ p["brief"] \in Brief
  BY DEF scheduleCreate, Is
<1>4. "runtime" \in DOMAIN p => p["runtime"] \in Full
  BY <1>1, <1>2 DEF Odd, LeftToServer, Usual, Full, Flag, Outcome, IsPicked
<1>5. "details" \in DOMAIN p => p["details"] \in Strings
  BY <1>1, <1>2 DEF Strings, Full, IsPicked
<1>6. "text" \in Full /\ {"true", "false"} \subseteq Flag
  BY DEF Full, Flag
<1>7. b = Copy(p, "name", <<"name">>) @@ Field(<<"target">>, "object")
          @@ Copy(p, "agent", <<"target", "agent">>) @@ Copy(p, "brief", <<"target", "brief">>)
          @@ Copy(p, "details", <<"target", "details">>)
          @@ Copy(p, "runtime", <<"target", "runtime">>)
          @@ Field(<<"trigger">>, "object") @@ Field(<<"trigger", "kind">>, "text")
          @@ Copy(p, "cron", <<"trigger", "expr">>) @@ Copy(p, "tz", <<"trigger", "tz">>)
          @@ Field(<<"enabled">>, IF "disabled" \in DOMAIN p THEN "false" ELSE "true")
  BY DEF scheduleCreate
<1>8. ASSUME NEW k, NEW v, Holds(b, k, v) PROVE Rest(k, v) \/ Triggers(k, v) \/ Targets(k, v)
  <2>1. \/ k = <<"name">> /\ v = p["name"] 
        \/ k = <<"target">> /\ v = "object"
        \/ k = <<"target", "agent">> /\ v = p["agent"]
        \/ k = <<"target", "brief">> /\ v = p["brief"]
        \/ k = <<"target", "details">> /\ v = p["details"] /\ "details" \in DOMAIN p
        \/ k = <<"target", "runtime">> /\ v = p["runtime"] /\ "runtime" \in DOMAIN p
        \/ k = <<"trigger">> /\ v = "object"
        \/ k = <<"trigger", "kind">> /\ v = "text"
        \/ k = <<"trigger", "expr">> /\ v = p["cron"]
        \/ k = <<"trigger", "tz">> /\ v = p["tz"]
        \/ k = <<"enabled">> /\ v \in {"true", "false"}
    BY <1>7, <1>8, HoldsOver, HoldsField, HoldsCopy
  <2>2. p["name"] \in Full /\ p["agent"] \in Full /\ p["cron"] \in Full /\ p["tz"] \in Full /\ p["brief"] \in Brief
    BY <1>3
  <2> QED BY <2>1, <2>2, <1>4, <1>5, <1>6 DEF Rest, Triggers, Targets
<1>9. /\ TriggerKeys \subseteq DOMAIN b
      /\ {<<"name">>, <<"target">>, <<"target", "agent">>, <<"target", "brief">>} \subseteq DOMAIN b
  <2>1. "name" \in DOMAIN p /\ "agent" \in DOMAIN p /\ "brief" \in DOMAIN p /\ "cron" \in DOMAIN p /\ "tz" \in DOMAIN p
    BY <1>3
  <2>2. <<"name">> \in DOMAIN b
    BY SMTT(60), <2>1, <1>7, HoldsOver, HoldsField, HoldsCopy
  <2>3. <<"target">> \in DOMAIN b
    BY SMTT(60), <2>1, <1>7, HoldsOver, HoldsField, HoldsCopy
  <2>4. \A k \in TriggerKeys : k \in DOMAIN b
    BY SMTT(60), <2>1, <1>7, HoldsOver, HoldsField, HoldsCopy DEF TriggerKeys
  <2>5. <<"target", "agent">> \in DOMAIN b
    BY <2>1, <1>7, HoldsOver, HoldsField, HoldsCopy
  <2>6. <<"target", "brief">> \in DOMAIN b
    BY <2>1, <1>7, HoldsOver, HoldsField, HoldsCopy
  <2> QED BY <2>2, <2>3, <2>4, <2>5, <2>6
<1> QED BY <1>8, <1>9, CreateTaken

LEMMA ScheduleCreateForm ==
    \A r \in Filled("create", ScheduleFormFields, CreateScheduleModal, CreateScheduleBody) :
        WellMade("schedule", r)
<1> SUFFICES ASSUME NEW f \in Typed(ScheduleFormFields),
                    NEW b, b = CreateScheduleModal(f)
             PROVE  WellMade("schedule", ByForm(Request("create", f, b, b # Usage /\ CreateScheduleBody(b))))
  BY DEF Filled, Asked
<1> SUFFICES ASSUME b # Usage
             PROVE  CreateScheduleBody(b)
  BY AFilledForm DEF Updates
<1>1. PICK g \in ScheduleFormFields : IsTyped(f, g)
  BY TypedIs
<1>2. g.agent \in {"text", "empty"} /\ g.expr \in {"text", "empty"} /\ g.tz \in {"text"}
      /\ DOMAIN g = {"name", "agent", "runtime", "brief", "details", "tz", "expr"}
  BY DEF ScheduleFormFields
<1>3. /\ "name" \in DOMAIN f /\ f["name"] \in Full
      /\ "brief" \in DOMAIN f /\ f["brief"] \in Brief
      /\ f["agent"] # "empty" /\ f["expr"] # "empty"
  BY DEF CreateScheduleModal, Is, validatePreset
<1>4. /\ "agent" \in DOMAIN f /\ f["agent"] \in Full
      /\ "expr" \in DOMAIN f /\ f["expr"] \in Full
      /\ "tz" \in DOMAIN f /\ f["tz"] \in Full
  BY <1>1, <1>2, <1>3 DEF Full, IsTyped
<1>6. "true" \in Flag /\ Full \subseteq Strings
  BY DEF Strings, Flag
<1>7. b = Copy(f, "name", <<"name">>) @@ Field(<<"target">>, "object")
         @@ Copy(f, "agent", <<"target", "agent">>) @@ Copy(f, "brief", <<"target", "brief">>)
         @@ FullOnly(f, "details", <<"target", "details">>)
         @@ FullOnly(f, "runtime", <<"target", "runtime">>)
         @@ Field(<<"trigger">>, "object") @@ Field(<<"trigger", "kind">>, "text")
         @@ Copy(f, "expr", <<"trigger", "expr">>) @@ Copy(f, "tz", <<"trigger", "tz">>)
         @@ Field(<<"enabled">>, "true")
  BY DEF CreateScheduleModal
<1> USE HoldsOver, HoldsField, HoldsCopy, HoldsFullOnly
<1>8. ASSUME NEW k, NEW v, Holds(b, k, v) PROVE Rest(k, v) \/ Triggers(k, v) \/ Targets(k, v)
  <2>1. \/ k = <<"name">> /\ v = f["name"]
        \/ k = <<"target">> /\ v = "object"
        \/ k = <<"target", "agent">> /\ v = f["agent"]
        \/ k = <<"target", "brief">> /\ v = f["brief"]
        \/ k = <<"target", "details">> /\ v \in Full
        \/ k = <<"target", "runtime">> /\ v \in Full
        \/ k = <<"trigger">> /\ v = "object"
        \/ k = <<"trigger", "kind">> /\ v = "text"
        \/ k = <<"trigger", "expr">> /\ v = f["expr"]
        \/ k = <<"trigger", "tz">> /\ v = f["tz"]
        \/ k = <<"enabled">> /\ v = "true"
    BY <1>7, <1>8
  <2> QED BY <2>1, <1>3, <1>4, <1>6 DEF Rest, Triggers, Targets
<1>9. \A k \in TriggerKeys : k \in DOMAIN b
  BY SMTT(60), <1>4, <1>7 DEF TriggerKeys
<1>10. <<"name">> \in DOMAIN b
  BY SMTT(60), <1>3, <1>7
<1>11. <<"target">> \in DOMAIN b
  BY SMTT(60), <1>7
<1>12. <<"target", "agent">> \in DOMAIN b
  BY SMTT(60), <1>4, <1>7
<1>13. <<"target", "brief">> \in DOMAIN b
  BY SMTT(60), <1>3, <1>7
<1> QED BY <1>8, <1>9, <1>10, <1>11, <1>12, <1>13, CreateTaken

LEMMA SchedulePreview ==
    \A r \in Command("preview", ScheduleOptions.preview, schedulePreview, PreviewQuery) :
        WellMade("schedule", r)
<1> SUFFICES ASSUME NEW p, NEW b, b = schedulePreview(p), b # Usage
             PROVE  PreviewQuery(b)
  BY ACommand DEF Command, Asked, Updates
<1>1. MayBe(p, "n", {"number"}) /\ b = Copy(p, "n", <<"n">>)
  BY DEF schedulePreview
<1>2. \A k, v : Holds(b, k, v) => v = "number"
  BY <1>1, HoldsCopy DEF MayBe
<1> QED BY <1>2, IsHolds DEF PreviewQuery

LEMMA SchedulePreviewCron ==
    \A r \in Filled("previewCron", [expr : {"text", "empty"}, tz : {"text", "empty"}],
                    useSchedulePreview, PreviewCronQuery) : WellMade("schedule", r)
<1> SUFFICES ASSUME NEW f \in Typed([expr : {"text", "empty"}, tz : {"text", "empty"}]),
                    NEW b, b = useSchedulePreview(f), b # Usage
             PROVE  PreviewCronQuery(b)
  BY AFilledForm DEF Filled, Asked, Updates
<1>1. PICK g \in [expr : {"text", "empty"}, tz : {"text", "empty"}] : IsTyped(f, g)
  BY TypedIs
<1>2. f["expr"] # "empty" /\ f["tz"] # "empty"
  BY DEF useSchedulePreview
<1>3. /\ "expr" \in DOMAIN f /\ f["expr"] \in Full
      /\ "tz" \in DOMAIN f /\ f["tz"] \in Full
  BY <1>1, <1>2 DEF Full, IsTyped
<1>4. b = Copy(f, "expr", <<"expr">>) @@ Copy(f, "tz", <<"tz">>) @@ Field(<<"n">>, "number")
  BY DEF useSchedulePreview
<1>5. ASSUME NEW k, NEW v, Holds(b, k, v)
      PROVE  \/ k = <<"expr">> /\ v = f["expr"]
             \/ k = <<"tz">> /\ v = f["tz"]
             \/ k = <<"n">> /\ v = "number"
  BY <1>4, <1>5, HoldsOver, HoldsField, HoldsCopy
<1>6. <<"expr">> \in DOMAIN b
  BY <1>3, <1>4, HoldsOver, HoldsField, HoldsCopy
<1>7. <<"tz">> \in DOMAIN b
  BY <1>3, <1>4, HoldsOver, HoldsField, HoldsCopy
<1> QED BY <1>3, <1>5, <1>6, <1>7, IsHolds, Keys DEF PreviewCronQuery, PreviewQuery

LEMMA ScheduleTasks ==
    \A r \in Command("tasks", ScheduleListTasksOptions, scheduleListTasks, ScheduledTasksQuery) :
        WellMade("schedule", r)
<1> SUFFICES ASSUME NEW o \in Typed(ScheduleListTasksOptions), NEW p, p = Picked(o),
                    NEW b, b = scheduleListTasks(p), ~ Odd("schedule", o)
             PROVE  ScheduledTasksQuery(b)
  BY ACommand DEF Command, Asked, Updates
<1>1. PICK f \in ScheduleListTasksOptions : IsPicked(p, o, f)
  BY Picks
<1>2. f.createdSince \in {"absent", "text", "odd"} /\ f.status \in {"absent", "text", "odd"}
  BY DEF ScheduleListTasksOptions
<1>3. \A n \in {"createdSince", "status"} \cap DOMAIN p : p[n] = "text"
  BY <1>1, <1>2 DEF Odd, LeftToServer, Usual, Full, Flag, Outcome, IsPicked
<1>4. \A k, v : Holds(b, k, v) => \E n \in DOMAIN p : k = <<n>> /\ v = p[n]
  BY HoldsOptions
<1> QED BY <1>3, <1>4, IsHolds, Keys DEF ScheduledTasksQuery

LEMMA ScheduleRecent ==
    \A r \in Fixed("tasks", ScheduleRecentFires, ScheduledTasksQuery) : WellMade("schedule", r)
<1> SUFFICES ASSUME NEW b, b = ScheduleRecentFires
             PROVE  ScheduledTasksQuery(b)
  BY AFilledForm DEF Fixed, Filled, Asked, Updates
<1> QED BY IsHolds, HoldsField, Keys DEF ScheduledTasksQuery, ScheduleRecentFires

LEMMA SchedulesPageList ==
    \A r \in Filled("list", SchedulesPageFilters, SchedulesPage, ListSchedulesQuery) :
        WellMade("schedule", r)
<1> SUFFICES ASSUME NEW f, NEW b, b = SchedulesPage(f)
             PROVE  ListSchedulesQuery(b)
  BY AFilledForm DEF Filled, Asked, Updates
<1>1. ASSUME NEW k, NEW v, Holds(b, k, v)
      PROVE  \/ k = <<"agent">>
             \/ k = <<"enabled">> /\ v \in Flag
  BY <1>1, HoldsOver, HoldsCopy, HoldsNoBody DEF SchedulesPage, Filter, coerceEnabledFilter
<1> QED BY <1>1, IsHolds, Keys DEF ListSchedulesQuery

(* The fields of a body whose keys are among those of a schedule. *)
LEMMA FieldsJustified ==
    ASSUME NEW b, NEW names,
           \A k \in DOMAIN b :
               \/ k[Len(k)] \in Frame \cup names
               \/ k[Len(k)] \in {"expr", "tz"} /\ names \cap {"expr", "tz"} # {}
    PROVE  Justified(FieldsIn(b), names, FALSE)
BY DEF Justified, FieldsIn

LEMMA FieldsNamed ==
    ASSUME NEW b, NEW names, \A k \in DOMAIN b : k[Len(k)] \in Frame \cup names
    PROVE  FieldsIn(b) \subseteq names
BY DEF FieldsIn

LEMMA SchedulePatch ==
    \A r \in Command("patch", SchedulePatchOptions, schedulePatch, PatchScheduleBody) :
        Made("schedule", r)
<1> SUFFICES ASSUME NEW o \in Typed(SchedulePatchOptions), NEW p, p = Picked(o),
                    NEW b, b = schedulePatch(p), b # Usage
             PROVE  /\ ~ Odd("schedule", o) => PatchScheduleBody(b)
                    /\ Justified(FieldsIn(b), NamesOf(o), FALSE)
  BY AHalfEdit DEF Command, Asked
<1>1. ASSUME NEW k, NEW v, Holds(b, k, v)
      PROVE  \/ k = <<"name">> /\ "name" \in DOMAIN p /\ v = p["name"]
             \/ k = <<"enabled">> /\ "enabled" \in DOMAIN p /\ v = p["enabled"]
             \/ /\ OneOf(p, {"cron", "tz"})
                /\ \/ k = <<"trigger">> /\ v = "object"
                   \/ k = <<"trigger", "kind">> /\ v = "text"
                   \/ /\ k = <<"trigger", "expr">>
                      /\ v = "text" \/ ("cron" \in DOMAIN p /\ v = p["cron"])
                   \/ /\ k = <<"trigger", "tz">>
                      /\ v = "text" \/ ("tz" \in DOMAIN p /\ v = p["tz"])
             \/ k = <<"target">> /\ v = "object"
             \/ k = <<"target", "agent">> /\ "agent" \in DOMAIN p /\ v = p["agent"]
             \/ k = <<"target", "brief">> /\ "brief" \in DOMAIN p /\ v = p["brief"]
             \/ k = <<"target", "details">> /\ "details" \in DOMAIN p /\ v = p["details"]
             \/ k = <<"target", "details">> /\ "clearDetails" \in DOMAIN p /\ v = "null"
             \/ k = <<"target", "runtime">> /\ "runtime" \in DOMAIN p /\ v = p["runtime"]
             \/ k = <<"target", "runtime">> /\ "clearRuntime" \in DOMAIN p /\ v = "null"
  BY <1>1, HoldsOver, HoldsField, HoldsCopy, HoldsNoBody DEF schedulePatch, TriggerOf, Cleared
<1>2. ASSUME ~ Odd("schedule", o) PROVE PatchScheduleBody(b)
  <2>1. PICK f \in SchedulePatchOptions : IsPicked(p, o, f)
    BY Picks
  <2>2. /\ f.name \in {"absent", "text", "blank"} /\ f.agent \in {"absent", "text"}
        /\ f.cron \in {"absent", "text", "blank"} /\ f.tz \in {"absent", "text"}
        /\ f.runtime \in {"absent", "text", "blank"} /\ f.details \in {"absent", "lines"}
        /\ f.enabled \in {"absent", "true", "false"}
    BY DEF SchedulePatchOptions
  <2>3. \A n \in {"name", "cron", "runtime"} \cap DOMAIN p : p[n] # "blank"
    BY <1>2, <2>1 DEF Odd, LeftToServer, Usual, Full, Flag, Outcome, IsPicked
  <2>4. /\ \A n \in {"name", "agent", "cron", "tz", "runtime"} \cap DOMAIN p : p[n] \in Full
        /\ "details" \in DOMAIN p => p["details"] \in Strings
        /\ "enabled" \in DOMAIN p => p["enabled"] \in Flag
    BY <2>1, <2>2, <2>3 DEF Strings, Full, Flag, IsPicked
  <2>5. "brief" \in DOMAIN p => p["brief"] \in Brief
    BY DEF schedulePatch, MayBe
  <2>6. "text" \in Full
    BY DEF Full
  <2>7. ASSUME NEW k, NEW v, Holds(b, k, v)
        PROVE  Rest(k, v) \/ Triggers(k, v) \/ Targets(k, v) \/ Clears(k, v)
    BY <1>1, <2>4, <2>5, <2>6, <2>7 DEF Rest, Triggers, Targets, Clears
  <2>8. <<"trigger">> \in DOMAIN b => OneOf(p, {"cron", "tz"})
    BY <1>1, Keys DEF Holds
  <2>9. OneOf(p, {"cron", "tz"}) => TriggerKeys \subseteq DOMAIN TriggerOf(p)
    BY HoldsOver, HoldsField DEF TriggerOf, TriggerKeys
  <2>10. DOMAIN TriggerOf(p) \subseteq DOMAIN b
    BY HoldsOver DEF schedulePatch
  <2> QED BY <2>7, <2>8, <2>9, <2>10, PatchTaken
<1>3. Justified(FieldsIn(b), NamesOf(o), FALSE)
  <2> DEFINE names == NamesOf(o)
  <2>1. DOMAIN p \subseteq DOMAIN o
    BY PickedIs
  <2>2. /\ "cron" \in DOMAIN p => "expr" \in names
        /\ \A n \in {"tz", "name", "enabled", "agent", "brief", "details", "runtime"} \cap DOMAIN p :
              n \in names
        /\ "clearDetails" \in DOMAIN p => "details" \in names
        /\ "clearRuntime" \in DOMAIN p => "runtime" \in names
    BY <2>1 DEF NamesOf, FieldOf, Alias
  <2> HIDE DEF names
  <2>3. ASSUME NEW k \in DOMAIN b
        PROVE  \/ k[Len(k)] \in Frame \cup names
               \/ k[Len(k)] \in {"expr", "tz"} /\ names \cap {"expr", "tz"} # {}
    <3>1. Holds(b, k, b[k])
      BY DEF Holds
    <3> QED BY SMTT(30), <1>1, <2>2, <3>1, Keys DEF Frame, OneOf
  <2> QED BY <2>3, FieldsJustified DEF names
<1> QED BY <1>2, <1>3

LEMMA ScheduleToggle ==
    /\ \A r \in Command("patch", ScheduleToggleOptions, Toggle, PatchScheduleBody) :
          WellMade("schedule", r)
    /\ \A r \in Filled("patch", [enabled : Flag], handleToggleEnabled, PatchScheduleBody) :
          WellMade("schedule", r)
<1>1. ASSUME NEW o, NEW b, DOMAIN b = {<<"enabled">>}, b[<<"enabled">>] \in Flag, "enabled" \in DOMAIN o
      PROVE  PatchScheduleBody(b) /\ FieldsIn(b) \subseteq NamesOf(o)
  <2>1. PatchScheduleBody(b)
    BY <1>1, PatchTaken, Keys DEF Holds, Rest
  <2>2. "enabled" \in NamesOf(o)
    BY <1>1 DEF NamesOf, FieldOf, Alias
  <2> QED BY <1>1, <2>1, <2>2, FieldsNamed, Keys
<1>2. ASSUME NEW o \in Typed(ScheduleToggleOptions), NEW b, b = Toggle(Picked(o)), b # Usage
      PROVE  PatchScheduleBody(b) /\ FieldsIn(b) \subseteq NamesOf(o)
  <2>1. PICK f \in ScheduleToggleOptions : IsPicked(Picked(o), o, f)
    BY Picks
  <2>2. "enabled" \in DOMAIN o /\ Picked(o)["enabled"] \in Flag
    BY <2>1 DEF ScheduleToggleOptions, Flag, IsPicked
  <2>3. b = Field(<<"enabled">>, Picked(o)["enabled"])
    BY <1>2 DEF Toggle, patchEnabled
  <2> QED BY <1>1, <2>2, <2>3 DEF Field, :>
<1>3. ASSUME NEW o \in Typed([enabled : Flag]), NEW b, b = handleToggleEnabled(o)
      PROVE  PatchScheduleBody(b) /\ FieldsIn(b) \subseteq NamesOf(o)
  <2>1. PICK f \in [enabled : Flag] : IsTyped(o, f)
    BY TypedIs
  <2>2. "enabled" \in DOMAIN o /\ o["enabled"] \in Flag
    BY <2>1 DEF Flag, IsTyped
  <2>3. b = <<"enabled">> :> o["enabled"]
    BY <1>3, <2>2 DEF handleToggleEnabled, Copy
  <2> QED BY <1>1, <2>2, <2>3 DEF :>
<1>4. \A r \in Command("patch", ScheduleToggleOptions, Toggle, PatchScheduleBody) :
          WellMade("schedule", r)
  BY <1>2, AnEdit DEF Command, Asked
<1>5. \A r \in Filled("patch", [enabled : Flag], handleToggleEnabled, PatchScheduleBody) :
          WellMade("schedule", r)
  BY <1>3, AnEditForm DEF Filled, Asked
<1> QED BY <1>4, <1>5

LEMMA HoldsNullIfEmpty ==
    ASSUME NEW f, NEW n, NEW p, NEW k, NEW v, Holds(NullIfEmpty(f, n, p), k, v)
    PROVE  n \in DOMAIN f /\ k = p /\ (v \in Full \/ v = "null")
BY HoldsField, HoldsNoBody DEF NullIfEmpty

LEMMA ScheduleEdit ==
    \A r \in Filled("patch", Changed(ScheduleFormFields), EditScheduleModal, PatchScheduleBody) :
        Made("schedule", r)
<1> SUFFICES ASSUME NEW f \in Typed(Changed(ScheduleFormFields)),
                    NEW b, b = EditScheduleModal(f), b # Usage
             PROVE  PatchScheduleBody(b) /\ Justified(FieldsIn(b), NamesOf(f), FALSE)
  BY AHalfEditForm DEF Filled, Asked
<1>1. ASSUME NEW k, NEW v, Holds(b, k, v)
      PROVE  \/ k = <<"name">> /\ "name" \in DOMAIN f /\ v = f["name"]
             \/ /\ OneOf(f, {"expr", "tz"})
                /\ \/ k = <<"trigger">> /\ v = "object"
                   \/ k = <<"trigger", "kind">> /\ v = "text"
                   \/ /\ k = <<"trigger", "expr">>
                      /\ v = "text" \/ ("expr" \in DOMAIN f /\ v = f["expr"])
                   \/ /\ k = <<"trigger", "tz">>
                      /\ v = "text" \/ ("tz" \in DOMAIN f /\ v = f["tz"])
             \/ k = <<"target">> /\ v = "object"
             \/ k = <<"target", "agent">> /\ "agent" \in DOMAIN f /\ v = f["agent"]
             \/ k = <<"target", "brief">> /\ "brief" \in DOMAIN f /\ v = f["brief"]
             \/ k = <<"target", "details">> /\ "details" \in DOMAIN f /\ v \in Full \cup {"null"}
             \/ k = <<"target", "runtime">> /\ "runtime" \in DOMAIN f /\ v \in Full \cup {"null"}
  BY <1>1, HoldsOver, HoldsField, HoldsCopy, HoldsNoBody, HoldsNullIfEmpty DEF EditScheduleModal
<1>2. PatchScheduleBody(b)
  <2>1. /\ "name" \in DOMAIN f => f["name"] \in Full
        /\ "agent" \in DOMAIN f => f["agent"] = "text"
        /\ "brief" \in DOMAIN f => f["brief"] \in Brief
        /\ "expr" \in DOMAIN f => f["expr"] = "text"
    BY DEF EditScheduleModal, MayBe
  <2>2. "tz" \in DOMAIN f => f["tz"] = "text"
    <3>1. PICK h \in Changed(ScheduleFormFields) :
             DOMAIN f \subseteq DOMAIN h /\ \A n \in DOMAIN f : f[n] = h[n]
      BY TypedIs DEF IsTyped
    <3>2. PICK g \in ScheduleFormFields : \A n \in DOMAIN h : h[n] = g[n]
      BY DEF Changed
    <3>3. g.tz = "text"
      BY DEF ScheduleFormFields
    <3> QED BY <3>1, <3>2, <3>3
  <2>3. "text" \in Full /\ Full \subseteq Strings
    BY DEF Full, Strings
  <2>4. ASSUME NEW k, NEW v, Holds(b, k, v)
        PROVE  Rest(k, v) \/ Triggers(k, v) \/ Targets(k, v) \/ Clears(k, v)
    BY <1>1, <2>1, <2>2, <2>3, <2>4 DEF Rest, Triggers, Targets, Clears
  <2>5. <<"trigger">> \in DOMAIN b => OneOf(f, {"expr", "tz"})
    BY <1>1, Keys DEF Holds
  <2>6. OneOf(f, {"expr", "tz"}) => TriggerKeys \subseteq DOMAIN b
    BY SMTT(60), HoldsOver, HoldsField DEF EditScheduleModal, TriggerKeys
  <2> QED BY <2>4, <2>5, <2>6, PatchTaken
<1>3. Justified(FieldsIn(b), NamesOf(f), FALSE)
  <2> DEFINE names == NamesOf(f)
  <2>1. \A n \in {"expr", "tz", "name", "agent", "brief", "details", "runtime"} \cap DOMAIN f :
            n \in names
    BY DEF NamesOf, FieldOf, Alias
  <2> HIDE DEF names
  <2>2. ASSUME NEW k \in DOMAIN b
        PROVE  \/ k[Len(k)] \in Frame \cup names
               \/ k[Len(k)] \in {"expr", "tz"} /\ names \cap {"expr", "tz"} # {}
    <3>1. Holds(b, k, b[k])
      BY DEF Holds
    <3> QED BY SMTT(30), <1>1, <2>1, <3>1, Keys DEF Frame, OneOf
  <2> QED BY <2>2, FieldsJustified DEF names
<1> QED BY <1>2, <1>3

LEMMA SchedulesWellMade == \A r \in ScheduleRequests : WellMade("schedule", r)
<1> USE DEF Command, Filled, Fixed, Pressed, Asked, AnyShape, Updates
<1>1. \A r \in Command("get", ScheduleOptions.show, scheduleShow, AnyShape) :
          WellMade("schedule", r)
  BY ACommand
<1>2. \A r \in Command("delete", ScheduleOptions.show, scheduleRm, AnyShape) :
          WellMade("schedule", r)
  BY ACommand
<1>3. \A r \in Command("run", ScheduleOptions.show, scheduleRun, AnyShape) :
          WellMade("schedule", r)
  BY ACommand
<1>4. \A r \in Filled("run", [enabled : Flag], handleRunNow, AnyShape) : WellMade("schedule", r)
  BY AFilledForm
<1>5. \A r \in Pressed("delete", handleConfirmDelete) : WellMade("schedule", r)
  BY AFilledForm
<1> HIDE DEF Command, Filled, Fixed, Pressed, Asked, AnyShape, Updates
<1> DEFINE Reads(r) == ~ r.edits \subseteq r.names
           Patches == Command("patch", SchedulePatchOptions, schedulePatch, PatchScheduleBody)
           Edits   == Filled("patch", Changed(ScheduleFormFields), EditScheduleModal, PatchScheduleBody)
<1>6. \A r \in {[q EXCEPT !.reads = Reads(q)] : q \in Patches} : WellMade("schedule", r)
  <2>1. \A q \in Patches : /\ Reads(q) \in BOOLEAN /\ (q.edits \subseteq q.names \/ Reads(q))
                          /\ Made("schedule", q)
    BY SchedulePatch
  <2> HIDE DEF Patches, Reads
  <2> QED BY <2>1, Reread
<1>7. \A r \in Rereading(Edits) : WellMade("schedule", r)
  <2>1. \A q \in Edits : Made("schedule", q)
    BY ScheduleEdit
  <2> HIDE DEF Edits
  <2> QED BY ZenonT(30), <2>1, Reread DEF Rereading
<1> QED BY <1>1, <1>2, <1>3, <1>4, <1>5, <1>6, <1>7, ScheduleList, ScheduleCreate,
           ScheduleCreateForm, SchedulePreview, SchedulePreviewCron, ScheduleTasks,
           ScheduleRecent, ScheduleToggle, SchedulesPageList
        DEF ScheduleRequests

(*-------------------------------- tasks ----------------------------------*)

LEMMA TaskList ==
    \A r \in Command("list", TaskOptions.list, taskList, TaskListQuery) : WellMade("task", r)
<1> SUFFICES ASSUME NEW o \in Typed(TaskOptions.list), NEW p, p = Picked(o),
                    NEW b, b = taskList(p), ~ Odd("task", o)
             PROVE  TaskListQuery(b)
  BY ACommand DEF Command, Asked, Updates
<1>1. PICK f \in TaskOptions.list : IsPicked(p, o, f)
  BY Picks
<1>2. f.createdSince \in {"absent", "text", "odd"} /\ f.status \in {"absent", "text", "odd"}
  BY DEF TaskOptions
<1>3. \A n \in {"createdSince", "status"} \cap DOMAIN p : p[n] = "text"
  BY <1>1, <1>2 DEF Odd, LeftToServer, Usual, Full, Flag, Outcome, IsPicked
<1>4. \A k, v : Holds(b, k, v) => \E n \in DOMAIN p : k = <<n>> /\ v = p[n]
  BY HoldsOptions
<1> QED BY <1>3, <1>4, IsHolds, Keys DEF TaskListQuery

LEMMA DispatchTaken ==
    ASSUME NEW b,
           \A k, v : Holds(b, k, v) =>
               \/ k = <<"agent">> /\ v \in Full
               \/ k = <<"brief">> /\ v \in Brief
               \/ k \in {<<"details">>, <<"runtime">>} /\ v \in Strings,
           <<"agent">> \in DOMAIN b, <<"brief">> \in DOMAIN b
    PROVE  TaskDispatchBody(b)
BY IsHolds, Keys DEF TaskDispatchBody

LEMMA TaskDispatch ==
    \A r \in Asked("dispatch", TaskOptions.dispatch, taskDispatch, TaskDispatchBody) :
        WellMade("task", r)
<1> SUFFICES ASSUME NEW o \in Typed(TaskOptions.dispatch), NEW p, p = Picked(o),
                    NEW b, b = taskDispatch(o), b # Usage
             PROVE  TaskDispatchBody(b)
  BY ACommand DEF Asked, Updates
<1>1. PICK f \in TaskOptions.dispatch : IsPicked(p, o, f)
  BY Picks
<1>2. /\ f.details \in {"absent", "lines", "blank", "empty"}
      /\ f.runtime \in {"absent", "text", "blank", "empty"}
  BY DEF TaskOptions
<1>3. \A n \in {"details", "runtime"} \cap DOMAIN p : p[n] \in Strings
  BY <1>1, <1>2 DEF Strings, Full, IsPicked
<1>4. /\ "agent" \in DOMAIN p /\ p["agent"] \in Full
      /\ "brief" \in DOMAIN p /\ p["brief"] \in Brief
      /\ b = Copy(p, "agent", <<"agent">>) @@ Copy(p, "brief", <<"brief">>)
               @@ DetailsOf(o, p) @@ Copy(p, "runtime", <<"runtime">>)
  BY DEF taskDispatch, Is
<1>5. "lines" \in Strings
  BY DEF Strings, Full
<1>6. ASSUME NEW k, NEW v, Holds(b, k, v)
      PROVE  \/ k = <<"agent">> /\ v = p["agent"]
             \/ k = <<"brief">> /\ v = p["brief"]
             \/ k = <<"details">> /\ v \in Strings
             \/ k = <<"runtime">> /\ v \in Strings
  <2>1. Holds(DetailsOf(o, p), k, v) => k = <<"details">> /\ v \in Strings
    BY <1>3, <1>5, HoldsField, HoldsCopy DEF DetailsOf
  <2> QED BY <1>3, <1>4, <1>6, <2>1, HoldsOver, HoldsCopy
<1>7. <<"agent">> \in DOMAIN b
  BY <1>4, HoldsOver, HoldsCopy
<1>8. <<"brief">> \in DOMAIN b
  BY <1>4, HoldsOver, HoldsCopy
<1> QED BY <1>4, <1>6, <1>7, <1>8, DispatchTaken

LEMMA TaskDispatchForm ==
    \A r \in Filled("dispatch", DispatchFields, DispatchModal, TaskDispatchBody) :
        WellMade("task", r)
<1> SUFFICES ASSUME NEW f \in Typed(DispatchFields), NEW b, b = DispatchModal(f), b # Usage
             PROVE  TaskDispatchBody(b)
  BY AFilledForm DEF Filled, Asked, Updates
<1>1. PICK g \in DispatchFields : IsTyped(f, g)
  BY TypedIs
<1>2. /\ f["agent"] # "empty" /\ "brief" \in DOMAIN f /\ f["brief"] \in Brief
      /\ b = Copy(f, "agent", <<"agent">>) @@ Copy(f, "brief", <<"brief">>)
               @@ FullOnly(f, "details", <<"details">>) @@ FullOnly(f, "runtime", <<"runtime">>)
  BY DEF DispatchModal, Is
<1>3. "agent" \in DOMAIN f /\ f["agent"] \in Full
  BY <1>1, <1>2 DEF DispatchFields, Full, IsTyped
<1>4. ASSUME NEW k, NEW v, Holds(b, k, v)
      PROVE  \/ k = <<"agent">> /\ v = f["agent"]
             \/ k = <<"brief">> /\ v = f["brief"]
             \/ k = <<"details">> /\ v \in Full
             \/ k = <<"runtime">> /\ v \in Full
  BY <1>2, <1>4, HoldsOver, HoldsCopy, HoldsFullOnly
<1>5. <<"agent">> \in DOMAIN b
  BY <1>2, <1>3, HoldsOver, HoldsCopy
<1>6. <<"brief">> \in DOMAIN b
  BY <1>2, HoldsOver, HoldsCopy
<1>7. Full \subseteq Strings
  BY DEF Strings
<1> QED BY <1>2, <1>3, <1>4, <1>5, <1>6, <1>7, DispatchTaken

LEMMA TaskActivity ==
    \A r \in Command("activity", TaskActivityOptions, taskActivity, TaskActivityQuery) :
        WellMade("task", r)
<1> SUFFICES ASSUME NEW o \in Typed(TaskActivityOptions), NEW p, p = Picked(o),
                    NEW b, b = taskActivity(p), b # Usage, ~ Odd("task", o)
             PROVE  TaskActivityQuery(b)
  BY ACommand DEF Command, Asked, Updates
<1>1. PICK f \in TaskActivityOptions : IsPicked(p, o, f)
  BY Picks
<1>2. f.limit \in {"absent", "number", "odd"}
  BY DEF TaskActivityOptions
<1>3. "limit" \in DOMAIN p => p["limit"] = "number"
  BY <1>1, <1>2 DEF Odd, LeftToServer, Usual, Full, Flag, Outcome, IsPicked
<1>4. /\ "before" \in DOMAIN p => p["before"] = "number"
      /\ "after" \in DOMAIN p => p["after"] = "number"
      /\ ~ ("before" \in DOMAIN p /\ "after" \in DOMAIN p)
  BY DEF taskActivity, MayBe, Given
<1>5. \/ b = NoBody
      \/ b = Copy(p, "before", <<"before">>) @@ Copy(p, "after", <<"after">>)
               @@ Copy(p, "limit", <<"limit">>)
  BY DEF taskActivity
<1>6. ASSUME NEW k, NEW v, Holds(b, k, v)
      PROVE  /\ v = "number"
             /\ k = <<"before">> => "before" \in DOMAIN p
             /\ k = <<"after">> => "after" \in DOMAIN p
  BY <1>3, <1>4, <1>5, <1>6, HoldsOver, HoldsCopy, HoldsNoBody, Keys
<1>7. ~ (<<"before">> \in DOMAIN b /\ <<"after">> \in DOMAIN b)
  BY <1>4, <1>6 DEF Holds
<1> QED BY <1>6, <1>7, IsHolds DEF TaskActivityQuery

LEMMA TaskArtifact ==
    \A r \in Filled("artifact", [name : {"text"}], LAMBDA o : Copy(o, "name", <<"name">>),
                    ArtifactName) : WellMade("task", r)
<1> SUFFICES ASSUME NEW f \in Typed([name : {"text"}]), NEW b, b = Copy(f, "name", <<"name">>)
             PROVE  ArtifactName(b)
  BY AFilledForm DEF Filled, Asked, Updates
<1>1. PICK g \in [name : {"text"}] : IsTyped(f, g)
  BY TypedIs
<1>2. "name" \in DOMAIN f /\ f["name"] = "text"
  BY <1>1 DEF IsTyped
<1> QED BY <1>2, HoldsCopy, IsHolds DEF ArtifactName, Brief

LEMMA HoldsSince ==
    ASSUME NEW f, NEW p, NEW k, NEW v, Holds(Since(f, p), k, v)
    PROVE  k = p /\ v = "text"
BY HoldsField, HoldsNoBody DEF Since

LEMMA TaskPages ==
    /\ \A r \in Filled("list", TasksPageFilters, useTasks, TaskListQuery) : WellMade("task", r)
    /\ \A r \in Fixed("list", AgentsListPageTasks, TaskListQuery) : WellMade("task", r)
<1>1. ASSUME NEW f, NEW b, b = useTasks(f) PROVE TaskListQuery(b)
  <2>1. ASSUME NEW k, NEW v, Holds(b, k, v)
        PROVE  \/ k \in {<<"agent">>, <<"runtime">>}
               \/ k = <<"createdSince">> /\ v = "text"
    BY <1>1, <2>1, HoldsOver, HoldsCopy, HoldsSince DEF useTasks, Filter
  <2> QED BY <2>1, IsHolds, Keys DEF TaskListQuery
<1>2. ASSUME NEW b, b = AgentsListPageTasks PROVE TaskListQuery(b)
  BY <1>2, HoldsField, IsHolds, Keys DEF TaskListQuery, AgentsListPageTasks
<1>3. \A r \in Filled("list", TasksPageFilters, useTasks, TaskListQuery) : WellMade("task", r)
  BY <1>1, AFilledForm DEF Filled, Asked, Updates
<1>4. \A r \in Fixed("list", AgentsListPageTasks, TaskListQuery) : WellMade("task", r)
  BY <1>2, AFilledForm DEF Fixed, Filled, Asked, Updates
<1> QED BY <1>3, <1>4

LEMMA TasksWellMade == \A r \in TaskRequests : WellMade("task", r)
<1> USE DEF Command, Filled, Fixed, Pressed, Asked, AnyShape, Updates
<1>1. \A r \in Command("get", TaskOptions.show, taskShow, AnyShape) : WellMade("task", r)
  BY ACommand
<1>2. \A r \in Command("delete", TaskOptions.rm, taskRm, AnyShape) : WellMade("task", r)
  BY ACommand
<1>3. \A r \in Command("cancel", TaskOptions.cancel, taskCancel, AnyShape) : WellMade("task", r)
  BY ACommand
<1>4. \A r \in Filled("delete", PurgeBox, onConfirmDelete, AnyShape) : WellMade("task", r)
  BY AFilledForm
<1>5. \A r \in Pressed("cancel", onConfirmCancel) : WellMade("task", r)
  BY AFilledForm
<1> HIDE DEF Command, Filled, Fixed, Pressed, Asked, AnyShape, Updates
<1> QED BY <1>1, <1>2, <1>3, <1>4, <1>5, TaskList, TaskDispatch, TaskDispatchForm, TaskActivity,
           TaskArtifact, TaskPages DEF TaskRequests

(*------------------------ workspaces and sessions ------------------------*)

LEMMA WorkspaceAdd ==
    \A r \in Command("create", WorkspaceOptions.add, workspaceAdd, CreateWorkspaceBody) :
        WellMade("workspace", r)
<1> SUFFICES ASSUME NEW o \in Typed(WorkspaceOptions.add), NEW p, p = Picked(o),
                    NEW b, b = workspaceAdd(p), b # Usage, ~ Odd("workspace", o)
             PROVE  CreateWorkspaceBody(b)
  BY ACommand DEF Command, Asked, Updates
<1>1. PICK f \in WorkspaceOptions.add : IsPicked(p, o, f)
  BY Picks
<1>2. f.workspaceDir \in {"absent", "text", "blank", "empty"}
  BY DEF WorkspaceOptions
<1>3. "workspaceDir" \in DOMAIN p => p["workspaceDir"] \in Full
  BY <1>1, <1>2 DEF Odd, LeftToServer, Usual, Full, Flag, Outcome, IsPicked
<1>4. /\ "name" \in DOMAIN p /\ p["name"] \in Strings
      /\ b = Copy(p, "name", <<"name">>) @@ Copy(p, "workspaceDir", <<"workspaceDir">>)
  BY DEF workspaceAdd, Is, Strings
<1>5. ASSUME NEW k, NEW v, Holds(b, k, v)
      PROVE  \/ k = <<"name">> /\ v = p["name"]
             \/ k = <<"workspaceDir">> /\ v \in Full
  BY <1>3, <1>4, <1>5, HoldsOver, HoldsCopy
<1>6. <<"name">> \in DOMAIN b
  BY <1>4, HoldsOver, HoldsCopy
<1> QED BY <1>4, <1>5, <1>6, IsHolds, Keys DEF CreateWorkspaceBody

LEMMA WorkspaceAddForm ==
    \A r \in Filled("create", AddWorkspaceFields, AddWorkspaceModal, CreateWorkspaceBody) :
        WellMade("workspace", r)
<1> SUFFICES ASSUME NEW f, NEW b, b = AddWorkspaceModal(f), b # Usage
             PROVE  CreateWorkspaceBody(b)
  BY AFilledForm DEF Filled, Asked, Updates
<1>1. /\ "name" \in DOMAIN f /\ f["name"] \in Strings
      /\ b = Copy(f, "name", <<"name">>) @@ FullOnly(f, "workspaceDir", <<"workspaceDir">>)
  BY DEF AddWorkspaceModal, Is, Strings
<1>2. ASSUME NEW k, NEW v, Holds(b, k, v)
      PROVE  \/ k = <<"name">> /\ v = f["name"]
             \/ k = <<"workspaceDir">> /\ v \in Full
  BY <1>1, <1>2, HoldsOver, HoldsCopy, HoldsFullOnly
<1>3. <<"name">> \in DOMAIN b
  BY <1>1, HoldsOver, HoldsCopy
<1> QED BY <1>1, <1>2, <1>3, IsHolds, Keys DEF CreateWorkspaceBody

LEMMA WorkspaceSetCurrent ==
    /\ \A r \in Command("setCurrent", WorkspaceOptions.use, workspaceUse, PutCurrentBody) :
          WellMade("workspace", r)
    /\ \A r \in Fixed("setCurrent", WorkspaceShell, PutCurrentBody) : WellMade("workspace", r)
<1>1. \A r \in Command("setCurrent", WorkspaceOptions.use, workspaceUse, PutCurrentBody) :
          WellMade("workspace", r)
  BY ACommand DEF Command, Asked, Updates, workspaceUse
<1>2. ASSUME NEW b, b = WorkspaceShell PROVE PutCurrentBody(b)
  BY <1>2, HoldsField, IsHolds DEF PutCurrentBody, WorkspaceShell, Strings, Full
<1>3. \A r \in Fixed("setCurrent", WorkspaceShell, PutCurrentBody) : WellMade("workspace", r)
  BY <1>2, AFilledForm DEF Fixed, Filled, Asked, Updates
<1> QED BY <1>1, <1>3

(* The one field of a body that its user named. *)
LEMMA NamedIsWritten ==
    ASSUME NEW o, NEW n, NEW p, n \in DOMAIN o, FieldOf(n) = p
    PROVE  FieldsIn(Copy(o, n, <<p>>)) \subseteq NamesOf(o)
<1>1. \A k : k \in DOMAIN Copy(o, n, <<p>>) <=> k = <<p>>
  BY HoldsCopy
<1>2. p \in NamesOf(o)
  BY DEF NamesOf
<1>3. \A k \in DOMAIN Copy(o, n, <<p>>) : k[Len(k)] \in Frame \cup NamesOf(o)
  BY <1>1, <1>2, Keys
<1> QED BY <1>3, FieldsNamed

LEMMA WorkspaceRename ==
    /\ \A r \in Filled("update", RenameFields, commitEdit, PatchWorkspaceBody) :
          WellMade("workspace", r)
    /\ \A r \in Command("update", WorkspaceOptions.update, workspaceUpdate, PatchWorkspaceBody) :
          WellMade("workspace", r)
<1>1. FieldOf("name") = "name"
  BY DEF FieldOf, Alias
<1>2. ASSUME NEW f, NEW b, b = commitEdit(f), b # Usage
      PROVE  PatchWorkspaceBody(b) /\ FieldsIn(b) \subseteq NamesOf(f)
  <2>1. "name" \in DOMAIN f /\ f["name"] \in Strings /\ b = Copy(f, "name", <<"name">>)
    BY <1>2 DEF commitEdit, Is, Strings
  <2>2. PatchWorkspaceBody(b)
    BY <2>1, HoldsCopy, IsHolds DEF PatchWorkspaceBody
  <2>3. FieldsIn(b) \subseteq NamesOf(f)
    BY <1>1, <2>1, NamedIsWritten, HoldsCopy, ZenonT(30)
  <2> QED BY <2>2, <2>3
<1>3. ASSUME NEW o \in Typed(WorkspaceOptions.update), NEW b, b = workspaceUpdate(Picked(o)), b # Usage
      PROVE  PatchWorkspaceBody(b) /\ FieldsIn(b) \subseteq NamesOf(o)
  <2> DEFINE p == Picked(o)
  <2>1. PICK f \in WorkspaceOptions.update : IsPicked(p, o, f)
    BY Picks
  <2>2. f.name \in {"absent", "text", "blank", "empty"}
    BY DEF WorkspaceOptions
  <2>3. "name" \in DOMAIN p /\ b = Copy(p, "name", <<"name">>)
    BY <1>3 DEF workspaceUpdate, Given
  <2>4. p["name"] \in Strings /\ "name" \in DOMAIN o
    BY <2>1, <2>2, <2>3 DEF Strings, Full, IsPicked
  <2> HIDE DEF p
  <2>5. PatchWorkspaceBody(b)
    BY <2>3, <2>4, HoldsCopy, IsHolds DEF PatchWorkspaceBody
  <2>6. \A k : k \in DOMAIN b <=> k = <<"name">>
    BY <2>3, HoldsCopy
  <2>7. "name" \in NamesOf(o)
    BY <1>1, <2>4 DEF NamesOf
  <2>8. \A k \in DOMAIN b : k[Len(k)] \in Frame \cup NamesOf(o)
    BY <2>6, <2>7, Keys
  <2> QED BY <2>5, <2>8, FieldsNamed
<1>4. \A r \in Filled("update", RenameFields, commitEdit, PatchWorkspaceBody) :
          WellMade("workspace", r)
  BY <1>2, AnEditForm DEF Filled, Asked
<1>5. \A r \in Command("update", WorkspaceOptions.update, workspaceUpdate, PatchWorkspaceBody) :
          WellMade("workspace", r)
  BY <1>3, AnEdit DEF Command, Asked
<1> QED BY <1>4, <1>5

LEMMA WorkspacesWellMade == \A r \in WorkspaceRequests : WellMade("workspace", r)
<1> USE DEF Command, Filled, Fixed, Pressed, Asked, AnyShape, Updates
<1>1. \A r \in Command("get", WorkspaceOptions.use, workspaceShow, AnyShape) :
          WellMade("workspace", r)
  BY ACommand
<1>2. \A r \in Command("reload", WorkspaceOptions.use, workspaceReload, AnyShape) :
          WellMade("workspace", r)
  BY ACommand
<1>3. \A r \in Command("delete", WorkspaceOptions.rm, workspaceRm, AnyShape) :
          WellMade("workspace", r)
  BY ACommand
<1>4. \A r \in Pressed("list", LandingPage) : WellMade("workspace", r)
  BY AFilledForm
<1>5. \A r \in Pressed("getCurrent", LandingPage) : WellMade("workspace", r)
  BY AFilledForm
<1>6. \A r \in Filled("delete", {<<>>}, RemoveWorkspaceModal, AnyShape) :
          WellMade("workspace", r)
  BY AFilledForm
<1> HIDE DEF Command, Filled, Fixed, Pressed, Asked, AnyShape, Updates
<1> QED BY <1>1, <1>2, <1>3, <1>4, <1>5, <1>6, WorkspaceAdd, WorkspaceAddForm,
           WorkspaceSetCurrent, WorkspaceRename DEF WorkspaceRequests

LEMMA SessionList ==
    \A r \in Command("list", SessionOptions.list, sessionList, SessionListQuery) :
        WellMade("session", r)
<1> SUFFICES ASSUME NEW o \in Typed(SessionOptions.list), NEW p, p = Picked(o),
                    NEW b, b = sessionList(p), ~ Odd("session", o)
             PROVE  SessionListQuery(b)
  BY ACommand DEF Command, Asked, Updates
<1>1. PICK f \in SessionOptions.list : IsPicked(p, o, f)
  BY Picks
<1>2. f.createdSince \in {"absent", "text", "odd"} /\ f.activeSince \in {"absent", "text", "odd"}
  BY DEF SessionOptions
<1>3. \A n \in {"createdSince", "activeSince"} \cap DOMAIN p : p[n] = "text"
  BY <1>1, <1>2 DEF Odd, LeftToServer, Usual, Full, Flag, Outcome, IsPicked
<1>4. \A k, v : Holds(b, k, v) => \E n \in DOMAIN p : k = <<n>> /\ v = p[n]
  BY HoldsOptions
<1> QED BY <1>3, <1>4, IsHolds, Keys DEF SessionListQuery

LEMMA SessionNew ==
    /\ \A r \in Command("create", SessionOptions.new, sessionNew, CreateSessionBody) :
          WellMade("session", r)
    /\ \A r \in Filled("create", CreateModalFields, CreateModal, CreateSessionBody) :
          WellMade("session", r)
<1>1. ASSUME NEW b, <<"agent">> \in DOMAIN b,
             \A k, v : Holds(b, k, v) => \/ k = <<"agent">> /\ v \in Full
                                         \/ k = <<"runtime">> /\ v \in Strings
      PROVE  CreateSessionBody(b)
  BY <1>1, IsHolds, Keys DEF CreateSessionBody
<1>2. Full \subseteq Strings
  BY DEF Strings
<1>3. ASSUME NEW o \in Typed(SessionOptions.new), NEW b, b = sessionNew(Picked(o)), b # Usage
      PROVE  CreateSessionBody(b)
  <2> DEFINE p == Picked(o)
  <2>1. PICK f \in SessionOptions.new : IsPicked(p, o, f)
    BY Picks
  <2>2. f.runtime \in {"absent", "text", "blank"}
    BY DEF SessionOptions
  <2>3. "runtime" \in DOMAIN p => p["runtime"] \in Strings
    BY <2>1, <2>2 DEF Strings, Full, IsPicked
  <2>4. /\ "agent" \in DOMAIN p /\ p["agent"] \in Full
        /\ b = Copy(p, "agent", <<"agent">>) @@ Copy(p, "runtime", <<"runtime">>)
    BY <1>3 DEF sessionNew, Is
  <2> HIDE DEF p
  <2>5. ASSUME NEW k, NEW v, Holds(b, k, v)
        PROVE  \/ k = <<"agent">> /\ v \in Full
               \/ k = <<"runtime">> /\ v \in Strings
    BY <2>3, <2>4, <2>5, HoldsOver, HoldsCopy
  <2>6. <<"agent">> \in DOMAIN b
    BY <2>4, HoldsOver, HoldsCopy
  <2> QED BY <2>5, <2>6, <1>1
<1>4. ASSUME NEW f \in Typed(CreateModalFields), NEW b, b = CreateModal(f), b # Usage
      PROVE  CreateSessionBody(b)
  <2>1. PICK g \in CreateModalFields : IsTyped(f, g)
    BY TypedIs
  <2>2. /\ f["agent"] # "empty"
        /\ b = Copy(f, "agent", <<"agent">>) @@ FullOnly(f, "runtime", <<"runtime">>)
    BY <1>4 DEF CreateModal
  <2>3. "agent" \in DOMAIN f /\ f["agent"] \in Full
    BY <2>1, <2>2 DEF CreateModalFields, Full, IsTyped
  <2>5. ASSUME NEW k, NEW v, Holds(b, k, v)
        PROVE  \/ k = <<"agent">> /\ v \in Full
               \/ k = <<"runtime">> /\ v \in Strings
    BY <1>2, <2>2, <2>3, <2>5, HoldsOver, HoldsCopy, HoldsFullOnly
  <2>6. <<"agent">> \in DOMAIN b
    BY <2>2, <2>3, HoldsOver, HoldsCopy
  <2> QED BY <2>5, <2>6, <1>1
<1>5. \A r \in Command("create", SessionOptions.new, sessionNew, CreateSessionBody) :
          WellMade("session", r)
  BY <1>3, ACommand DEF Command, Asked, Updates
<1>6. \A r \in Filled("create", CreateModalFields, CreateModal, CreateSessionBody) :
          WellMade("session", r)
  BY <1>4, AFilledForm DEF Filled, Asked, Updates
<1> QED BY <1>5, <1>6

LEMMA SessionSpawn ==
    /\ \A r \in Command("spawn", SessionOptions.spawn, sessionSpawn, SpawnSessionBody) :
          WellMade("session", r)
    /\ \A r \in Filled("spawn", LaunchButtons, onLaunch, SpawnSessionBody) :
          WellMade("session", r)
<1>1. "true" \in Flag
  BY DEF Flag
<1>2. ASSUME NEW o \in Typed(SessionOptions.spawn), NEW b, b = sessionSpawn(Picked(o)), b # Usage
      PROVE  SpawnSessionBody(b)
  <2> DEFINE p == Picked(o)
  <2>1. PICK f \in SessionOptions.spawn : IsPicked(p, o, f)
    BY Picks
  <2>2. f.remote \in {"absent", "true"}
    BY DEF SessionOptions
  <2>3. "remote" \in DOMAIN p => p["remote"] = "true"
    BY <2>1, <2>2 DEF IsPicked
  <2>4. b = Copy(p, "remote", <<"remote">>)
    BY <1>2 DEF sessionSpawn
  <2> QED BY <1>1, <2>3, <2>4, HoldsCopy, IsHolds DEF SpawnSessionBody
<1>3. ASSUME NEW f, NEW b, b = onLaunch(f), b # Usage PROVE SpawnSessionBody(b)
  BY <1>1, <1>3, HoldsField, HoldsNoBody, IsHolds DEF SpawnSessionBody, onLaunch
<1>4. \A r \in Command("spawn", SessionOptions.spawn, sessionSpawn, SpawnSessionBody) :
          WellMade("session", r)
  BY <1>2, ACommand DEF Command, Asked, Updates
<1>5. \A r \in Filled("spawn", LaunchButtons, onLaunch, SpawnSessionBody) : WellMade("session", r)
  BY <1>3, AFilledForm DEF Filled, Asked, Updates
<1> QED BY <1>4, <1>5

LEMMA SessionPages ==
    /\ \A r \in Filled("list", SessionsPageFilters, SessionsPage, SessionListQuery) :
          WellMade("session", r)
    /\ \A r \in Fixed("list", AgentsListPageSessions, SessionListQuery) : WellMade("session", r)
<1>1. ASSUME NEW f, NEW b, b = SessionsPage(f) PROVE SessionListQuery(b)
  <2>1. ASSUME NEW k, NEW v, Holds(b, k, v)
        PROVE  \/ k = <<"agent">>
               \/ k = <<"activeSince">> /\ v = "text"
    BY <1>1, <2>1, HoldsOver, HoldsCopy, HoldsSince DEF SessionsPage, Filter
  <2> QED BY <2>1, IsHolds, Keys DEF SessionListQuery
<1>2. ASSUME NEW b, b = AgentsListPageSessions PROVE SessionListQuery(b)
  BY <1>2, HoldsField, IsHolds, Keys DEF SessionListQuery, AgentsListPageSessions
<1>3. \A r \in Filled("list", SessionsPageFilters, SessionsPage, SessionListQuery) :
          WellMade("session", r)
  BY <1>1, AFilledForm DEF Filled, Asked, Updates
<1>4. \A r \in Fixed("list", AgentsListPageSessions, SessionListQuery) : WellMade("session", r)
  BY <1>2, AFilledForm DEF Fixed, Filled, Asked, Updates
<1> QED BY <1>3, <1>4

LEMMA SessionsWellMade == \A r \in SessionRequests : WellMade("session", r)
<1> USE DEF Command, Filled, Fixed, Pressed, Asked, AnyShape, Updates
<1>1. \A r \in Command("get", SessionOptions.rm, sessionShow, AnyShape) : WellMade("session", r)
  BY ACommand
<1>2. \A r \in Command("delete", SessionOptions.rm, sessionRm, AnyShape) : WellMade("session", r)
  BY ACommand
<1>3. \A r \in Filled("delete", PurgeBox, onConfirmDelete, AnyShape) : WellMade("session", r)
  BY AFilledForm
<1> HIDE DEF Command, Filled, Fixed, Pressed, Asked, AnyShape, Updates
<1> QED BY <1>1, <1>2, <1>3, SessionList, SessionNew, SessionSpawn, SessionPages
        DEF SessionRequests

(*-------------------------- workflows and nodes --------------------------*)

LEMMA WorkflowList ==
    \A r \in Command("list", WorkflowOptions.list, workflowList, WorkflowListQuery) :
        WellMade("workflow", r)
<1> SUFFICES ASSUME NEW o \in Typed(WorkflowOptions.list), NEW p, p = Picked(o),
                    NEW b, b = workflowList(p), ~ Odd("workflow", o)
             PROVE  WorkflowListQuery(b)
  BY ACommand DEF Command, Asked, Updates
<1>1. PICK f \in WorkflowOptions.list : IsPicked(p, o, f)
  BY Picks
<1>2. f.createdSince \in {"absent", "text", "odd"}
  BY DEF WorkflowOptions
<1>3. "createdSince" \in DOMAIN p => p["createdSince"] = "text"
  BY <1>1, <1>2 DEF Odd, LeftToServer, Usual, Full, Flag, Outcome, IsPicked
<1>4. \A k, v : Holds(b, k, v) => \E n \in DOMAIN p : k = <<n>> /\ v = p[n]
  BY HoldsOptions
<1> QED BY <1>3, <1>4, IsHolds, Keys DEF WorkflowListQuery

LEMMA CreateWorkflowTaken ==
    ASSUME NEW b,
           \A k, v : Holds(b, k, v) =>
               \/ k \in {<<"brief">>, <<"coordinatorAgent">>} /\ v \in Full
               \/ k = <<"details">> /\ v \in Strings
               \/ k = <<"metadata">> /\ v = "object",
           <<"brief">> \in DOMAIN b, <<"coordinatorAgent">> \in DOMAIN b
    PROVE  CreateWorkflowBody(b)
<1>1. Only(b, {"brief", "details", "coordinatorAgent", "metadata"})
  BY OnlyHolds, Keys
<1> QED BY <1>1, IsHolds, Keys DEF CreateWorkflowBody

LEMMA WorkflowCreate ==
    \A r \in Command("create", WorkflowOptions.create, workflowCreate, CreateWorkflowBody) :
        WellMade("workflow", r)
<1> SUFFICES ASSUME NEW o \in Typed(WorkflowOptions.create), NEW p, p = Picked(o),
                    NEW b, b = workflowCreate(p), b # Usage
             PROVE  CreateWorkflowBody(b)
  BY ACommand DEF Command, Asked, Updates
<1>1. PICK f \in WorkflowOptions.create : IsPicked(p, o, f)
  BY Picks
<1>2. f.details \in {"absent", "lines", "empty"}
  BY DEF WorkflowOptions
<1>3. "details" \in DOMAIN p => p["details"] \in Strings
  BY <1>1, <1>2 DEF Strings, Full, IsPicked
<1>4. /\ "brief" \in DOMAIN p /\ p["brief"] \in Full
      /\ "coordAgent" \in DOMAIN p /\ p["coordAgent"] \in Full
      /\ "metadataFile" \in DOMAIN p => p["metadataFile"] = "object"
  BY DEF workflowCreate, Is, MayBe
<1>5. b = Copy(p, "brief", <<"brief">>) @@ Copy(p, "coordAgent", <<"coordinatorAgent">>)
          @@ Copy(p, "details", <<"details">>)
          @@ (IF "detailsFile" \in DOMAIN p THEN Field(<<"details">>, "lines") ELSE NoBody)
          @@ Copy(p, "metadataFile", <<"metadata">>)
  BY DEF workflowCreate
<1>6. "lines" \in Strings
  BY DEF Strings, Full
<1>7. ASSUME NEW k, NEW v, Holds(b, k, v)
      PROVE  \/ k = <<"brief">> /\ v = p["brief"]
             \/ k = <<"coordinatorAgent">> /\ v = p["coordAgent"]
             \/ k = <<"details">> /\ v \in Strings
             \/ k = <<"metadata">> /\ v = "object"
  BY <1>3, <1>4, <1>5, <1>6, <1>7, HoldsOver, HoldsField, HoldsCopy, HoldsNoBody
<1>8. <<"brief">> \in DOMAIN b
  BY <1>4, <1>5, HoldsOver, HoldsCopy
<1>9. <<"coordinatorAgent">> \in DOMAIN b
  BY <1>4, <1>5, HoldsOver, HoldsCopy
<1> QED BY <1>4, <1>7, <1>8, <1>9, CreateWorkflowTaken

LEMMA WorkflowCreateForm ==
    \A r \in Filled("create", CreateWorkflowFields, CreateWorkflowModal, CreateWorkflowBody) :
        WellMade("workflow", r)
<1> SUFFICES ASSUME NEW f \in Typed(CreateWorkflowFields),
                    NEW b, b = CreateWorkflowModal(f), b # Usage
             PROVE  CreateWorkflowBody(b)
  BY AFilledForm DEF Filled, Asked, Updates
<1>1. PICK g \in CreateWorkflowFields : IsTyped(f, g)
  BY TypedIs
<1>2. /\ "brief" \in DOMAIN f /\ f["brief"] \in Full /\ f["agent"] # "empty"
      /\ b = Copy(f, "brief", <<"brief">>) @@ Copy(f, "agent", <<"coordinatorAgent">>)
               @@ FullOnly(f, "details", <<"details">>)
  BY DEF CreateWorkflowModal, Is
<1>3. "agent" \in DOMAIN f /\ f["agent"] \in Full
  BY <1>1, <1>2 DEF CreateWorkflowFields, Full, IsTyped
<1>4. Full \subseteq Strings
  BY DEF Strings
<1>5. ASSUME NEW k, NEW v, Holds(b, k, v)
      PROVE  \/ k = <<"brief">> /\ v = f["brief"]
             \/ k = <<"coordinatorAgent">> /\ v = f["agent"]
             \/ k = <<"details">> /\ v \in Full
  BY <1>2, <1>5, HoldsOver, HoldsCopy, HoldsFullOnly
<1>6. <<"brief">> \in DOMAIN b
  BY <1>2, HoldsOver, HoldsCopy
<1>7. <<"coordinatorAgent">> \in DOMAIN b
  BY <1>2, <1>3, HoldsOver, HoldsCopy
<1> QED BY <1>2, <1>3, <1>4, <1>5, <1>6, <1>7, CreateWorkflowTaken

LEMMA CancelTaken ==
    ASSUME NEW b,
           \A k, v : Holds(b, k, v) =>
               \/ k = <<"cancellation">> /\ v = "object"
               \/ k = <<"cancellation", "kind">> /\ v = "text"
               \/ k = <<"cancellation", "message">> /\ v \in Strings,
           <<"cancellation">> \in DOMAIN b, <<"cancellation", "message">> \in DOMAIN b
    PROVE  CancelWorkflowBody(b)
<1>1. Only(b, {"cancellation"})
  BY OnlyHolds, Keys
<1>2. Within(b, "cancellation", {"kind", "message"})
  <2>1. ASSUME NEW k, NEW v, Holds(b, k, v), Len(k) = 2, k[1] = "cancellation"
        PROVE  k[2] \in {"kind", "message"}
    BY <2>1, Keys
  <2> QED BY <2>1, OnlyHolds
<1> QED BY <1>1, <1>2, IsHolds, Keys DEF CancelWorkflowBody

LEMMA WorkflowCancel ==
    /\ \A r \in Command("cancel", WorkflowOptions.cancel, workflowCancel, CancelWorkflowBody) :
          WellMade("workflow", r)
    /\ \A r \in Filled("cancel", CancelReason, CancelWorkflowModal, CancelWorkflowBody) :
          WellMade("workflow", r)
<1>1. {"text", "lines", "empty"} \subseteq Strings
  BY DEF Strings, Full
<1>2. ASSUME NEW o \in Typed(WorkflowOptions.cancel), NEW b, b = workflowCancel(Picked(o)), b # Usage
      PROVE  CancelWorkflowBody(b)
  <2> DEFINE p == Picked(o)
  <2>1. PICK f \in WorkflowOptions.cancel : IsPicked(p, o, f)
    BY Picks
  <2>2. f.message \in {"absent", "text", "empty"}
    BY DEF WorkflowOptions
  <2>3. "message" \in DOMAIN p => p["message"] \in Strings
    BY <1>1, <2>1, <2>2 DEF IsPicked
  <2>4. b = Field(<<"cancellation">>, "object") @@ Field(<<"cancellation", "kind">>, "text")
            @@ Copy(p, "message", <<"cancellation", "message">>)
            @@ Field(<<"cancellation", "message">>, "empty")
    BY <1>2 DEF workflowCancel
  <2> HIDE DEF p
  <2>5. ASSUME NEW k, NEW v, Holds(b, k, v)
        PROVE  \/ k = <<"cancellation">> /\ v = "object"
               \/ k = <<"cancellation", "kind">> /\ v = "text"
               \/ k = <<"cancellation", "message">> /\ v \in Strings
    BY <1>1, <2>3, <2>4, <2>5, HoldsOver, HoldsField, HoldsCopy
  <2>6. <<"cancellation">> \in DOMAIN b
    BY <2>4, HoldsOver, HoldsField
  <2>7. <<"cancellation", "message">> \in DOMAIN b
    BY <2>4, HoldsOver, HoldsField
  <2> QED BY <2>5, <2>6, <2>7, CancelTaken
<1>3. ASSUME NEW f \in Typed(CancelReason), NEW b, b = CancelWorkflowModal(f)
      PROVE  CancelWorkflowBody(b)
  <2>1. PICK g \in CancelReason : IsTyped(f, g)
    BY TypedIs
  <2>2. "message" \in DOMAIN f /\ f["message"] \in {"lines", "blank", "empty"}
    BY <2>1 DEF CancelReason, IsTyped
  <2>3. Trim(f["message"]) \in Strings
    BY <1>1, <2>2 DEF Trim
  <2>4. b = Field(<<"cancellation">>, "object") @@ Field(<<"cancellation", "kind">>, "text")
            @@ Field(<<"cancellation", "message">>, Trim(f["message"]))
    BY <1>3, <2>2 DEF CancelWorkflowModal, Trimmed, Field
  <2>5. ASSUME NEW k, NEW v, Holds(b, k, v)
        PROVE  \/ k = <<"cancellation">> /\ v = "object"
               \/ k = <<"cancellation", "kind">> /\ v = "text"
               \/ k = <<"cancellation", "message">> /\ v \in Strings
    BY <2>3, <2>4, <2>5, HoldsOver, HoldsField
  <2>6. <<"cancellation">> \in DOMAIN b
    BY <2>4, HoldsOver, HoldsField
  <2>7. <<"cancellation", "message">> \in DOMAIN b
    BY <2>4, HoldsOver, HoldsField
  <2> QED BY <2>5, <2>6, <2>7, CancelTaken
<1>4. \A r \in Command("cancel", WorkflowOptions.cancel, workflowCancel, CancelWorkflowBody) :
          WellMade("workflow", r)
  BY <1>2, ACommand DEF Command, Asked, Updates
<1>5. \A r \in Filled("cancel", CancelReason, CancelWorkflowModal, CancelWorkflowBody) :
          WellMade("workflow", r)
  BY <1>3, AFilledForm DEF Filled, Asked, Updates
<1> QED BY <1>4, <1>5

LEMMA WorkflowFinish ==
    \A r \in Command("finish", WorkflowOptions.finish, workflowFinish, FinishWorkflowBody) :
        WellMade("workflow", r)
<1> SUFFICES ASSUME NEW o \in Typed(WorkflowOptions.finish), NEW p, p = Picked(o),
                    NEW b, b = workflowFinish(p), b # Usage
             PROVE  FinishWorkflowBody(b)
  BY ACommand DEF Command, Asked, Updates
<1>1. PICK f \in WorkflowOptions.finish : IsPicked(p, o, f)
  BY Picks
<1>2. f.summary \in {"absent", "lines", "empty"} /\ f.message \in {"absent", "lines", "empty"}
  BY DEF WorkflowOptions
<1>3. \A n \in {"summary", "message"} \cap DOMAIN p : p[n] \in Strings
  BY <1>1, <1>2 DEF Strings, Full, IsPicked
<1>4. /\ "outcome" \in DOMAIN p /\ p["outcome"] \in Outcome
      /\ p["outcome"] = "failed" => "message" \in DOMAIN p
  BY DEF workflowFinish, Is
<1>5. CASE p["outcome"] = "succeeded"
  <2>1. b = Copy(p, "outcome", <<"outcome">>)
            @@ (Field(<<"success">>, "object") @@ Copy(p, "summary", <<"success", "output">>)
                @@ Field(<<"success", "output">>, "null"))
    BY <1>5 DEF workflowFinish
  <2>2. ASSUME NEW k, NEW v, Holds(b, k, v)
        PROVE  \/ k = <<"outcome">> /\ v = "succeeded"
               \/ k = <<"success">> /\ v = "object"
               \/ k = <<"success", "output">> /\ v \in Strings \cup {"null"}
    BY <1>3, <1>5, <2>1, <2>2, HoldsOver, HoldsField, HoldsCopy
  <2>3. <<"outcome">> \in DOMAIN b
    BY <1>4, <2>1, HoldsOver, HoldsCopy
  <2>4. Only(b, {"outcome", "success"})
    BY <2>2, OnlyHolds, Keys
  <2>5. Within(b, "success", {"output"})
    <3>1. ASSUME NEW k, NEW v, Holds(b, k, v), Len(k) = 2, k[1] = "success" PROVE k[2] \in {"output"}
      BY <2>2, <3>1, Keys
    <3> QED BY <3>1, OnlyHolds
  <2>6. FinishSucceeded(b)
    BY <2>2, <2>4, <2>5, IsHolds, Keys DEF FinishSucceeded
  <2>7. Holds(b, <<"outcome">>, b[<<"outcome">>])
    BY <2>3 DEF Holds
  <2>8. b[<<"outcome">>] = "succeeded"
    BY <2>2, <2>7, Keys
  <2> QED BY <2>3, <2>6, <2>8 DEF FinishWorkflowBody, Is, Outcome
<1>6. CASE p["outcome"] # "succeeded"
  <2>0. p["outcome"] = "failed" /\ "message" \in DOMAIN p
    BY <1>4, <1>6 DEF Outcome
  <2>1. b = Copy(p, "outcome", <<"outcome">>)
            @@ (Field(<<"failure">>, "object") @@ Field(<<"failure", "kind">>, "text")
                @@ Copy(p, "message", <<"failure", "message">>))
    BY <1>6 DEF workflowFinish
  <2>2. ASSUME NEW k, NEW v, Holds(b, k, v)
        PROVE  \/ k = <<"outcome">> /\ v = "failed"
               \/ k = <<"failure">> /\ v = "object"
               \/ k = <<"failure", "kind">> /\ v = "text"
               \/ k = <<"failure", "message">> /\ v \in Strings
    BY <1>3, <2>0, <2>1, <2>2, HoldsOver, HoldsField, HoldsCopy
  <2>3. <<"outcome">> \in DOMAIN b
    BY <1>4, <2>1, HoldsOver, HoldsCopy
  <2>4. Only(b, {"outcome", "failure"})
    BY <2>2, OnlyHolds, Keys
  <2>5. Within(b, "failure", {"kind", "message"})
    <3>1. ASSUME NEW k, NEW v, Holds(b, k, v), Len(k) = 2, k[1] = "failure"
          PROVE  k[2] \in {"kind", "message"}
      BY <2>2, <3>1, Keys
    <3> QED BY <3>1, OnlyHolds
  <2>6. <<"failure">> \in DOMAIN b
    BY <2>1, HoldsOver, HoldsField
  <2>7. <<"failure", "message">> \in DOMAIN b
    BY <2>0, <2>1, HoldsOver, HoldsCopy
  <2>8. FinishFailed(b)
    BY <2>2, <2>4, <2>5, <2>6, <2>7, IsHolds, Keys DEF FinishFailed
  <2>9. Holds(b, <<"outcome">>, b[<<"outcome">>])
    BY <2>3 DEF Holds
  <2>10. b[<<"outcome">>] = "failed"
    BY <2>2, <2>9, Keys
  <2> QED BY <2>3, <2>8, <2>10 DEF FinishWorkflowBody, Is, Outcome
<1> QED BY <1>5, <1>6

LEMMA WorkflowAddEdge ==
    \A r \in Command("addEdge", MutationOptions.addEdge, workflowAddEdge, AddEdgeBody) :
        WellMade("workflow", r)
<1> SUFFICES ASSUME NEW p, NEW b, b = workflowAddEdge(p), b # Usage
             PROVE  AddEdgeBody(b)
  BY ACommand DEF Command, Asked, Updates
<1>1. /\ "from" \in DOMAIN p /\ p["from"] \in Full /\ "to" \in DOMAIN p /\ p["to"] \in Full
      /\ b = Copy(p, "from", <<"fromNodeId">>) @@ Copy(p, "to", <<"toNodeId">>)
  BY DEF workflowAddEdge, Ends, Is
<1>2. Full \subseteq NonEmpty
  BY DEF NonEmpty, Strings, Full
<1>3. ASSUME NEW k, NEW v, Holds(b, k, v)
      PROVE  \/ k = <<"fromNodeId">> /\ v \in NonEmpty
             \/ k = <<"toNodeId">> /\ v \in NonEmpty
  BY <1>1, <1>2, <1>3, HoldsOver, HoldsCopy
<1>4. <<"fromNodeId">> \in DOMAIN b
  BY <1>1, HoldsOver, HoldsCopy
<1>5. <<"toNodeId">> \in DOMAIN b
  BY <1>1, HoldsOver, HoldsCopy
<1>6. Only(b, {"fromNodeId", "toNodeId"})
  BY <1>3, OnlyHolds, Keys
<1> QED BY <1>3, <1>4, <1>5, <1>6, IsHolds, Keys DEF AddEdgeBody

LEMMA WorkflowPages ==
    /\ \A r \in Filled("artifact", [encodedPath : {"text"}],
                       LAMBDA o : Copy(o, "encodedPath", <<"encodedPath">>), ArtifactPath) :
          WellMade("workflow", r)
    /\ \A r \in Filled("list", WorkflowsPageFilters, useWorkflows, WorkflowListQuery) :
          WellMade("workflow", r)
<1>1. ASSUME NEW f \in Typed([encodedPath : {"text"}]),
             NEW b, b = Copy(f, "encodedPath", <<"encodedPath">>)
      PROVE  ArtifactPath(b)
  <2>1. PICK g \in [encodedPath : {"text"}] : IsTyped(f, g)
    BY TypedIs
  <2>2. "encodedPath" \in DOMAIN f /\ f["encodedPath"] = "text"
    BY <2>1 DEF IsTyped
  <2> QED BY <1>1, <2>2, HoldsCopy, IsHolds DEF ArtifactPath
<1>2. ASSUME NEW f, NEW b, b = useWorkflows(f) PROVE WorkflowListQuery(b)
  <2>1. ASSUME NEW k, NEW v, Holds(b, k, v)
        PROVE  \/ k \in {<<"q">>, <<"coordinatorAgent">>}
               \/ k = <<"createdSince">> /\ v = "text"
    BY <1>2, <2>1, HoldsOver, HoldsCopy, HoldsSince DEF useWorkflows, Filter
  <2> QED BY <2>1, IsHolds, Keys DEF WorkflowListQuery
<1>3. \A r \in Filled("artifact", [encodedPath : {"text"}],
                       LAMBDA o : Copy(o, "encodedPath", <<"encodedPath">>), ArtifactPath) :
          WellMade("workflow", r)
  BY <1>1, AFilledForm DEF Filled, Asked, Updates
<1>4. \A r \in Filled("list", WorkflowsPageFilters, useWorkflows, WorkflowListQuery) :
          WellMade("workflow", r)
  BY <1>2, AFilledForm DEF Filled, Asked, Updates
<1> QED BY <1>3, <1>4

LEMMA Parts ==
    ASSUME NEW x, NEW y, NEW z
    PROVE  SubSeq(<<x, y, z>>, 1, 2) = <<x, y>>
<1> DEFINE S == {x, y, z}
           u == SubSeq(<<x, y, z>>, 1, 2)
<1>1. u \in Seq(S) /\ Len(u) = 2 /\ u[1] = x /\ u[2] = y
  <2>1. \A i \in 1 .. 2 : <<x, y, z>>[i] \in S
    OBVIOUS
  <2>2. /\ u \in Seq(S)
        /\ Len(u) = IF 1 <= 2 THEN 2 - 1 + 1 ELSE 0
        /\ \A i \in 1 .. 2 - 1 + 1 : u[i] = <<x, y, z>>[1 + i - 1]
    BY <2>1, SubSeqProperties
  <2> QED BY <2>2
<1>2. <<x, y>> \in Seq(S)
  OBVIOUS
<1> HIDE DEF u
<1>3. u = <<x, y>>
  BY <1>1, <1>2, SeqEqual
<1> QED BY <1>3 DEF u

(* The end of an edge, when there is one key for it.                       *)
LEMMA OneEnd ==
    ASSUME NEW b, NEW list, NEW end, NEW x \in {"nodeId", "tempId"},
           <<list, end, x>> \in DOMAIN b, b[<<list, end, x>>] \in NonEmpty,
           \A k \in DOMAIN b : Len(k) = 3 /\ SubSeq(k, 1, 2) = <<list, end>> => k = <<list, end, x>>
    PROVE  NodeRef(b, list, end)
<1> DEFINE keys == {k \in DOMAIN b : Len(k) = 3 /\ SubSeq(k, 1, 2) = <<list, end>>}
<1>1. keys = {<<list, end, x>>}
  BY Keys, Parts
<1>2. Cardinality(keys) = 1
  BY <1>1, FS_Singleton
<1> QED BY <1>1, <1>2, Keys DEF NodeRef

LEMMA SubgraphTaken ==
    ASSUME NEW b, NEW x \in {"nodeId", "tempId"},
           \A k, v : Holds(b, k, v) =>
               \/ k \in {<<"nodes">>, <<"edges">>} /\ v = "array"
               \/ k \in {<<"nodes", "tempId">>, <<"nodes", "kind">>} /\ v = "text"
               \/ k = <<"nodes", "spec">> /\ v = "object"
               \/ k \in {<<"edges", "from", x>>, <<"edges", "to", "tempId">>} /\ v = "text",
           {<<"nodes">>, <<"edges">>, <<"nodes", "tempId">>, <<"nodes", "kind">>,
            <<"nodes", "spec">>, <<"edges", "from", x>>, <<"edges", "to", "tempId">>} \subseteq DOMAIN b
    PROVE  AddSubgraphBody(b)
<1>1. Only(b, {"nodes", "edges"})
  BY OnlyHolds, Keys
<1>2. Is(b, <<"nodes">>, {"array"}) /\ Is(b, <<"edges">>, {"array"})
  BY IsHolds, Keys
<1>3. Within(b, "nodes", {"tempId", "kind", "spec", "existingParents"})
  <2>1. ASSUME NEW k, NEW v, Holds(b, k, v), Len(k) = 2, k[1] = "nodes"
        PROVE  k[2] \in {"tempId", "kind", "spec", "existingParents"}
    BY <2>1, Keys
  <2> QED BY <2>1, OnlyHolds
<1>4. /\ Is(b, <<"nodes", "tempId">>, NonEmpty)
      /\ Is(b, <<"nodes", "kind">>, Kind)
      /\ Is(b, <<"nodes", "spec">>, Anything)
      /\ MayBe(b, <<"nodes", "existingParents">>, {"array"})
  BY IsHolds, Keys DEF NonEmpty, Strings, Full, Kind, Anything, Forms
<1>5. Within(b, "edges", {"from", "to"})
  <2>1. ASSUME NEW k, NEW v, Holds(b, k, v), Len(k) = 2, k[1] = "edges"
        PROVE  k[2] \in {"from", "to"}
    BY <2>1, Keys
  <2> QED BY <2>1, OnlyHolds
<1>6. \A k \in DOMAIN b : Holds(b, k, b[k])
  BY DEF Holds
<1>7. "text" \in NonEmpty
  BY DEF NonEmpty, Strings, Full
<1>8. NodeRef(b, "edges", "from")
  <2>1. b[<<"edges", "from", x>>] = "text"
    BY <1>6, Keys
  <2>2. ASSUME NEW k \in DOMAIN b, Len(k) = 3, SubSeq(k, 1, 2) = <<"edges", "from">>
        PROVE  k = <<"edges", "from", x>>
    BY <1>6, <2>2, Keys, Parts
  <2> QED BY <1>7, <2>1, <2>2, OneEnd
<1>9. NodeRef(b, "edges", "to")
  <2>1. b[<<"edges", "to", "tempId">>] = "text"
    BY <1>6, Keys
  <2>2. ASSUME NEW k \in DOMAIN b, Len(k) = 3, SubSeq(k, 1, 2) = <<"edges", "to">>
        PROVE  k = <<"edges", "to", "tempId">>
    BY <1>6, <2>2, Keys, Parts
  <2> QED BY <1>7, <2>1, <2>2, OneEnd
<1> QED BY <1>1, <1>2, <1>3, <1>4, <1>5, <1>8, <1>9 DEF AddSubgraphBody

LEMMA WorkflowAddSubgraph ==
    \A r \in Command("addSubgraph", SubgraphFile, workflowAddSubgraph, AddSubgraphBody) :
        WellMade("workflow", r)
<1> SUFFICES ASSUME NEW o \in Typed(SubgraphFile), NEW p, p = Picked(o),
                    NEW b, b = workflowAddSubgraph(p), b # Usage, ~ Odd("workflow", o)
             PROVE  AddSubgraphBody(b)
  BY ACommand DEF Command, Asked, Updates
<1>1. PICK f \in SubgraphFile : IsPicked(p, o, f)
  BY Picks
<1>2. PICK g \in SubgraphFile : IsTyped(o, g)
  BY TypedIs
<1>3. DOMAIN g = {"nodes", "edges", "tempId", "kind", "from", "more"}
      /\ g.tempId \in {"text", "empty", "odd"} /\ g.kind \in {"text", "odd"}
      /\ g.from \in {"nodeId", "tempId", "id"} /\ g.more \in {"absent", "odd"}
  BY DEF SubgraphFile
<1>4. /\ \A n \in {"tempId", "kind"} : n \in DOMAIN o /\ o[n] = "text"
      /\ "from" \in DOMAIN o /\ o["from"] \in {"nodeId", "tempId"}
      /\ "more" \notin DOMAIN o
  BY <1>2, <1>3 DEF Odd, LeftToServer, Usual, Full, Flag, Outcome, IsTyped
<1>5. /\ "tempId" \in DOMAIN p /\ p["tempId"] = "text"
      /\ "kind" \in DOMAIN p /\ p["kind"] = "text"
      /\ "from" \in DOMAIN p /\ p["from"] \in {"nodeId", "tempId"}
      /\ "more" \notin DOMAIN p
  BY <1>4, PickedIs
<1>6. /\ "nodes" \in DOMAIN p /\ p["nodes"] = "array" /\ "edges" \in DOMAIN p /\ p["edges"] = "array"
      /\ b = Copy(p, "nodes", <<"nodes">>) @@ Copy(p, "edges", <<"edges">>)
             @@ Copy(p, "tempId", <<"nodes", "tempId">>) @@ Copy(p, "kind", <<"nodes", "kind">>)
             @@ Field(<<"nodes", "spec">>, "object")
             @@ Field(<<"edges", "from", p["from"]>>, "text")
             @@ Field(<<"edges", "to", "tempId">>, "text")
             @@ Copy(p, "more", <<"more">>)
  BY DEF workflowAddSubgraph, Is
<1>7. ASSUME NEW k, NEW v, Holds(b, k, v)
      PROVE  \/ k = <<"nodes">> /\ v = "array"
             \/ k = <<"edges">> /\ v = "array"
             \/ k = <<"nodes", "tempId">> /\ v = "text"
             \/ k = <<"nodes", "kind">> /\ v = "text"
             \/ k = <<"nodes", "spec">> /\ v = "object"
             \/ k = <<"edges", "from", p["from"]>> /\ v = "text"
             \/ k = <<"edges", "to", "tempId">> /\ v = "text"
  BY <1>5, <1>6, <1>7, HoldsOver, HoldsField, HoldsCopy
<1>8. <<"nodes">> \in DOMAIN b /\ <<"edges">> \in DOMAIN b
  BY <1>6, HoldsOver, HoldsCopy
<1>9. <<"nodes", "tempId">> \in DOMAIN b
  BY <1>5, <1>6, HoldsOver, HoldsCopy
<1>10. <<"nodes", "kind">> \in DOMAIN b
  BY <1>5, <1>6, HoldsOver, HoldsCopy
<1>11. <<"nodes", "spec">> \in DOMAIN b
  BY <1>6, HoldsOver, HoldsField
<1>12. <<"edges", "from", p["from"]>> \in DOMAIN b
  BY <1>6, HoldsOver, HoldsField
<1>13. <<"edges", "to", "tempId">> \in DOMAIN b
  BY <1>6, HoldsOver, HoldsField
<1>14. \A k, v : Holds(b, k, v) =>
               \/ k \in {<<"nodes">>, <<"edges">>} /\ v = "array"
               \/ k \in {<<"nodes", "tempId">>, <<"nodes", "kind">>} /\ v = "text"
               \/ k = <<"nodes", "spec">> /\ v = "object"
               \/ k \in {<<"edges", "from", p["from"]>>, <<"edges", "to", "tempId">>} /\ v = "text"
  BY <1>7
<1> QED BY <1>5, <1>8, <1>9, <1>10, <1>11, <1>12, <1>13, <1>14, SubgraphTaken

LEMMA WorkflowsWellMade == \A r \in WorkflowRequests : WellMade("workflow", r)
<1> USE DEF Command, Filled, Fixed, Pressed, Asked, AnyShape, Updates
<1>1. \A r \in Command("get", WorkflowOptions.show, workflowShow, AnyShape) :
          WellMade("workflow", r)
  BY ACommand
<1>2. \A r \in Command("dag", WorkflowOptions.show, workflowDag, AnyShape) :
          WellMade("workflow", r)
  BY ACommand
<1>3. \A r \in Command("removeEdge", MutationOptions.addEdge, workflowRemoveEdge, AnyShape) :
          WellMade("workflow", r)
  BY ACommand
<1> HIDE DEF Command, Filled, Fixed, Pressed, Asked, AnyShape, Updates
<1> QED BY <1>1, <1>2, <1>3, WorkflowList, WorkflowCreate, WorkflowCreateForm, WorkflowCancel,
           WorkflowFinish, WorkflowAddEdge, WorkflowAddSubgraph, WorkflowPages
        DEF WorkflowRequests

LEMMA NodeAdd ==
    \A r \in Command("addNode", MutationOptions.addNode, workflowAddNode, AddNodeBody) :
        WellMade("node", r)
<1> SUFFICES ASSUME NEW p, NEW b, b = workflowAddNode(p), b # Usage
             PROVE  AddNodeBody(b)
  BY ACommand DEF Command, Asked, Updates
<1>1. /\ "kind" \in DOMAIN p /\ p["kind"] \in Kind
      /\ "specFile" \in DOMAIN p /\ p["specFile"] \in Anything
      /\ b = Copy(p, "kind", <<"kind">>) @@ Copy(p, "specFile", <<"spec">>)
             @@ Field(<<"parents">>, "array")
  BY DEF workflowAddNode, Is, JsonFile, Anything, Forms
<1>2. ASSUME NEW k, NEW v, Holds(b, k, v)
      PROVE  \/ k = <<"kind">> /\ v \in Kind
             \/ k = <<"spec">> /\ v \in Anything
             \/ k = <<"parents">> /\ v = "array"
  BY <1>1, <1>2, HoldsOver, HoldsField, HoldsCopy
<1>3. <<"kind">> \in DOMAIN b
  BY <1>1, HoldsOver, HoldsCopy
<1>4. <<"spec">> \in DOMAIN b
  BY <1>1, HoldsOver, HoldsCopy
<1>5. <<"parents">> \in DOMAIN b
  BY <1>1, HoldsOver, HoldsField
<1>6. Only(b, {"kind", "spec", "parents"})
  BY <1>2, OnlyHolds, Keys
<1> QED BY <1>2, <1>3, <1>4, <1>5, <1>6, IsHolds, Keys DEF AddNodeBody

LEMMA NodeReplaceSpec ==
    \A r \in Command("replaceNodeSpec", MutationOptions.replaceSpec, workflowReplaceSpec,
                     ReplaceNodeSpecBody) : WellMade("node", r)
<1> SUFFICES ASSUME NEW o \in Typed(MutationOptions.replaceSpec), NEW p, p = Picked(o),
                    NEW b, b = workflowReplaceSpec(p), b # Usage
             PROVE  ReplaceNodeSpecBody(b) /\ FieldsIn(b) \subseteq NamesOf(o)
  BY AnEdit DEF Command, Asked
<1>1. /\ "specFile" \in DOMAIN p /\ p["specFile"] \in Anything
      /\ b = Copy(p, "specFile", <<"newSpec">>)
  BY DEF workflowReplaceSpec, Is, JsonFile, Anything, Forms
<1>2. Only(b, {"newSpec"})
  BY <1>1, HoldsCopy, OnlyHolds, Keys
<1>3. ReplaceNodeSpecBody(b)
  BY <1>1, <1>2, HoldsCopy, IsHolds DEF ReplaceNodeSpecBody
<1>4. "newSpec" \in NamesOf(o)
  BY <1>1, PickedIs DEF NamesOf, FieldOf, Alias
<1>5. \A k : k \in DOMAIN b <=> k = <<"newSpec">>
  BY <1>1, HoldsCopy
<1>6. \A k \in DOMAIN b : k[Len(k)] \in Frame \cup NamesOf(o)
  BY <1>4, <1>5, Keys
<1> QED BY <1>3, <1>6, FieldsNamed

LEMMA NodesWellMade == \A r \in NodeRequests : WellMade("node", r)
<1> USE DEF Command, Asked, AnyShape, Updates
<1>1. \A r \in Command("get", WorkflowOptions.nodeShow, workflowNodeShow, AnyShape) :
          WellMade("node", r)
  BY ACommand
<1>2. \A r \in Command("removeNode", WorkflowOptions.nodeShow, workflowRemoveNode, AnyShape) :
          WellMade("node", r)
  BY ACommand
<1>3. \A r \in Command("cancelNode", WorkflowOptions.nodeShow, workflowCancelNode, AnyShape) :
          WellMade("node", r)
  BY ACommand
<1> HIDE DEF Command, Asked, AnyShape, Updates
<1> QED BY <1>1, <1>2, <1>3, NodeAdd, NodeReplaceSpec DEF NodeRequests

(*------------------------------- catalog ---------------------------------*)

LEMMA EntryInstall ==
    /\ \A r \in Command("install", CatalogOptions.install, catalogInstall, InstallBody) :
          WellMade("entry", r)
    /\ \A r \in Command("resolve", CatalogOptions.install, catalogResolve, InstallBody) :
          WellMade("entry", r)
    /\ \A r \in Filled("install", InstallDialogFields, InstallDialog, InstallBody) :
          WellMade("entry", r)
<1>1. ASSUME NEW b, b = Field(<<"origin">>, "text") PROVE InstallBody(b)
  BY <1>1, HoldsField, IsHolds DEF InstallBody, Strings, Full
<1>2. ASSUME NEW p, NEW b, b = buildInstallOrigin(p), b # Usage PROVE InstallBody(b)
  BY <1>1, <1>2 DEF buildInstallOrigin
<1>3. ASSUME NEW f, NEW b, b = InstallDialog(f), b # Usage PROVE InstallBody(b)
  BY <1>1, <1>3 DEF InstallDialog, buildOriginFromSource
<1>4. \A r \in Command("install", CatalogOptions.install, catalogInstall, InstallBody) :
          WellMade("entry", r)
  BY <1>2, ACommand DEF Command, Asked, Updates, catalogInstall
<1>5. \A r \in Command("resolve", CatalogOptions.install, catalogResolve, InstallBody) :
          WellMade("entry", r)
  BY <1>2, ACommand DEF Command, Asked, Updates, catalogResolve
<1>6. \A r \in Filled("install", InstallDialogFields, InstallDialog, InstallBody) :
          WellMade("entry", r)
  BY <1>3, AFilledForm DEF Filled, Asked, Updates
<1> QED BY <1>4, <1>5, <1>6

LEMMA EntrySync ==
    /\ \A r \in Command("sync", CatalogOptions.sync, catalogSync, PlanTokenBody) :
          WellMade("entry", r)
    /\ \A r \in Filled("sync", [planToken : {"absent", "text"}], handleApplySync, PlanTokenBody) :
          WellMade("entry", r)
<1>1. Full \subseteq Strings \ {"empty"}
  BY DEF Strings, Full
<1>2. ASSUME NEW p, NEW b, b = catalogSync(p), b # Usage PROVE PlanTokenBody(b)
  <2>1. "planToken" \in DOMAIN p /\ p["planToken"] \in Full /\ b = Copy(p, "planToken", <<"planToken">>)
    BY <1>2 DEF catalogSync, Named, Is
  <2> QED BY <1>1, <2>1, HoldsCopy, IsHolds DEF PlanTokenBody
<1>3. ASSUME NEW f \in Typed([planToken : {"absent", "text"}]),
             NEW b, b = handleApplySync(f), b # Usage
      PROVE  PlanTokenBody(b)
  <2>1. PICK g \in [planToken : {"absent", "text"}] : IsTyped(f, g)
    BY TypedIs
  <2>2. "planToken" \in DOMAIN f /\ b = Copy(f, "planToken", <<"planToken">>)
    BY <1>3 DEF handleApplySync
  <2>3. f["planToken"] \in Full
    BY <2>1, <2>2 DEF Full, IsTyped
  <2> QED BY <1>1, <2>2, <2>3, HoldsCopy, IsHolds DEF PlanTokenBody
<1>4. \A r \in Command("sync", CatalogOptions.sync, catalogSync, PlanTokenBody) :
          WellMade("entry", r)
  BY <1>2, ACommand DEF Command, Asked, Updates
<1>5. \A r \in Filled("sync", [planToken : {"absent", "text"}], handleApplySync, PlanTokenBody) :
          WellMade("entry", r)
  BY <1>3, AFilledForm DEF Filled, Asked, Updates
<1> QED BY <1>4, <1>5

LEMMA EntryUpdate ==
    /\ \A r \in Command("update", CatalogOptions.update, catalogUpdate, ContentBody) :
          WellMade("entry", r)
    /\ \A r \in Command("patch", CatalogOptions.patch, catalogPatch, MetadataBody) :
          WellMade("entry", r)
<1>1. ASSUME NEW o, NEW b, b = catalogUpdate(Picked(o)), b # Usage
      PROVE  ContentBody(b) /\ FieldsIn(b) \subseteq NamesOf(o)
  <2> DEFINE p == Picked(o)
  <2>1. b = Field(<<"content">>, "lines") /\ ("content" \in DOMAIN p \/ "contentFile" \in DOMAIN p)
    BY <1>1 DEF catalogUpdate, Named, readContentPayload, Is
  <2>2. "content" \in NamesOf(o)
    BY <2>1, PickedIs DEF NamesOf, FieldOf, Alias
  <2>3. ContentBody(b)
    BY <2>1, HoldsField, IsHolds DEF ContentBody, Strings, Full
  <2>4. \A k : k \in DOMAIN b <=> k = <<"content">>
    BY <2>1, HoldsField
  <2>5. \A k \in DOMAIN b : k[Len(k)] \in Frame \cup NamesOf(o)
    BY <2>2, <2>4, Keys
  <2> QED BY <2>3, <2>5, FieldsNamed
<1>2. ASSUME NEW o, NEW b, b = catalogPatch(Picked(o)), b # Usage
      PROVE  MetadataBody(b) /\ FieldsIn(b) \subseteq NamesOf(o)
  <2> DEFINE p == Picked(o)
  <2>1. /\ b = Field(<<"*">>, "object") @@ Field(<<"description">>, "text")
        /\ "metadata" \in DOMAIN p \/ "metadataFile" \in DOMAIN p
    BY <1>2 DEF catalogPatch, Named, readMetadataPayload, Is
  <2>2. "description" \in NamesOf(o)
    BY <2>1, PickedIs DEF NamesOf, FieldOf, Alias
  <2>3. ASSUME NEW k, NEW v, Holds(b, k, v)
        PROVE  \/ k = <<"*">> /\ v = "object"
               \/ k = <<"description">> /\ v = "text"
    BY <2>1, <2>3, HoldsOver, HoldsField
  <2>4. <<"*">> \in DOMAIN b
    BY <2>1, HoldsOver, HoldsField
  <2>5. MetadataBody(b)
    BY <2>3, <2>4, IsHolds, Keys DEF MetadataBody
  <2>6. \A k \in DOMAIN b : k[Len(k)] \in Frame \cup NamesOf(o)
    BY <2>2, <2>3, Keys DEF Holds, Frame
  <2> QED BY <2>5, <2>6, FieldsNamed
<1>3. \A r \in Command("update", CatalogOptions.update, catalogUpdate, ContentBody) :
          WellMade("entry", r)
  BY <1>1, AnEdit DEF Command, Asked
<1>4. \A r \in Command("patch", CatalogOptions.patch, catalogPatch, MetadataBody) :
          WellMade("entry", r)
  BY <1>2, AnEdit DEF Command, Asked
<1> QED BY <1>3, <1>4

(* A form that writes all of a thing back. *)
Whole(r) == [[r EXCEPT !.reads = TRUE] EXCEPT !.whole = TRUE]

LEMMA AWholeForm ==
    ASSUME NEW t, NEW op, NEW o, NEW b, NEW taken \in BOOLEAN, taken <=> b # Usage
    PROVE  WellMade(t, Whole(ByForm(Request(op, o, b, taken))))
<1> DEFINE q == Request(op, o, b, taken)
           r == Whole(ByForm(q))
<1>1. /\ DOMAIN q = Fields
      /\ q.sent = taken /\ q.taken = taken /\ q.odd = {}
      /\ q.sent \in BOOLEAN /\ q.taken \in BOOLEAN
  BY DEF Request, Fields
<1> HIDE DEF q
<1>2. /\ DOMAIN r = Fields /\ r.form = TRUE /\ r.whole = TRUE /\ r.reads = TRUE
      /\ r.sent = taken /\ r.taken = taken
  BY <1>1 DEF ByForm, Whole, Fields
<1> HIDE DEF r
<1>3. WellMade(t, r)
  BY <1>2 DEF WellMade, Made, Shaped, Justified, Agrees
<1> QED BY <1>3 DEF r, q

LEMMA EntryForms ==
    /\ \A r \in WholeForm(Rereading(
                  Filled("update", [content : {"lines", "blank", "empty"}], handleSave, ContentBody))) :
          WellMade("entry", r)
    /\ \A what : \A r \in PatchDialogRequests(what) : WellMade("entry", r)
<1>1. ASSUME NEW f \in Typed([content : {"lines", "blank", "empty"}]), NEW b, b = handleSave(f)
      PROVE  ContentBody(b)
  <2>1. PICK g \in [content : {"lines", "blank", "empty"}] : IsTyped(f, g)
    BY TypedIs
  <2>2. "content" \in DOMAIN f /\ f["content"] \in Strings
    BY <2>1 DEF Strings, Full, IsTyped
  <2> QED BY <1>1, <2>2, HoldsCopy, IsHolds DEF ContentBody, handleSave
<1>2. ASSUME NEW what, NEW b, b = PatchDialog(what)
      PROVE  MetadataBody(b)
  <2> DEFINE rest == [p \in {<<n>> : n \in PatchFields(what)} |-> "text"]
  <2>1. \A v : ~ Holds(rest, <<"*">>, v)
    BY Keys DEF Holds, PatchFields
  <2>2. b = Field(<<"*">>, "object") @@ rest
    BY <1>2 DEF PatchDialog
  <2> HIDE DEF rest
  <2>3. \A v : Holds(b, <<"*">>, v) => v = "object"
    BY <2>1, <2>2, HoldsOver, HoldsField
  <2>4. <<"*">> \in DOMAIN b
    BY <2>2, HoldsOver, HoldsField
  <2> QED BY <2>3, <2>4, IsHolds DEF MetadataBody
<1>3. ASSUME NEW r \in WholeForm(Rereading(
                  Filled("update", [content : {"lines", "blank", "empty"}], handleSave, ContentBody)))
      PROVE  WellMade("entry", r)
  <2>1. PICK q \in Asked("update", [content : {"lines", "blank", "empty"}], handleSave, ContentBody) :
          r = Whole(ByForm(q))
    BY ZenonT(30) DEF WholeForm, Rereading, Filled, Whole
  <2>2. PICK o \in Typed([content : {"lines", "blank", "empty"}]) :
          q = Request("update", o, handleSave(o), handleSave(o) # Usage /\ ContentBody(handleSave(o)))
    BY DEF Asked
  <2>3. ContentBody(handleSave(o))
    BY <1>1
  <2> QED BY <2>1, <2>2, <2>3, AWholeForm
<1>4. ASSUME NEW what, NEW r \in PatchDialogRequests(what)
      PROVE  WellMade("entry", r)
  <2> DEFINE Form(o) == PatchDialog(what)
  <2>1. PICK q \in Asked("patch", [PatchFields(what) -> {"absent", "text"}], Form, MetadataBody) :
          r = Whole(ByForm(q))
    BY ZenonT(30) DEF PatchDialogRequests, WholeForm, Rereading, Filled, Whole
  <2>2. PICK o : q = Request("patch", o, PatchDialog(what),
                             PatchDialog(what) # Usage /\ MetadataBody(PatchDialog(what)))
    BY DEF Asked
  <2>3. MetadataBody(PatchDialog(what))
    BY <1>2
  <2> QED BY <2>1, <2>2, <2>3, AWholeForm
<1> QED BY <1>3, <1>4

LEMMA McpWellMade == \A r \in McpRequests : WellMade("entry", r)
<1> USE DEF Command, Filled, Fixed, Pressed, Asked, AnyShape, Updates
<1>1. \A r \in Command("get", CatalogOptions.show, catalogShow, AnyShape) : WellMade("entry", r)
  BY ACommand
<1>2. \A r \in Command("delete", CatalogOptions.show, catalogRm, AnyShape) : WellMade("entry", r)
  BY ACommand
<1>3. \A r \in Command("syncResolve", CatalogOptions.show, catalogSyncResolve, AnyShape) :
          WellMade("entry", r)
  BY ACommand
<1>4. \A r \in Pressed("delete", doRemove) : WellMade("entry", r)
  BY AFilledForm
<1>5. \A r \in Pressed("syncResolve", handlePreviewSync) : WellMade("entry", r)
  BY AFilledForm
<1> HIDE DEF Command, Filled, Fixed, Pressed, Asked, AnyShape, Updates
<1> QED BY <1>1, <1>2, <1>3, <1>4, <1>5, EntryInstall, EntrySync, EntryUpdate, EntryForms
        DEF McpRequests

LEMMA MarkdownWellMade == \A what : \A r \in MarkdownRequests(what) : WellMade("entry", r)
<1> USE DEF Command, Filled, Fixed, Pressed, Asked, AnyShape, Updates
<1>1. \A r \in Command("ackPrereqs", CatalogOptions.show, catalogAckPrereqs, AnyShape) :
          WellMade("entry", r)
  BY ACommand
<1>2. \A r \in Pressed("ackPrereqs", handleAcknowledge) : WellMade("entry", r)
  BY AFilledForm
<1> HIDE DEF Command, Filled, Fixed, Pressed, Asked, AnyShape, Updates
<1> QED BY <1>1, <1>2, McpWellMade, EntryInstall, EntryUpdate, EntryForms DEF MarkdownRequests

LEMMA EntriesWellMade ==
    \A r \in McpRequests \cup SkillRequests \cup AgentRequests : WellMade("entry", r)
<1> USE DEF Command, Filled, Fixed, Pressed, Asked, AnyShape, Updates
<1>1. \A r \in Command("enable", CatalogOptions.show, catalogSetEnabled, AnyShape) :
          WellMade("entry", r)
  BY ACommand
<1>2. \A r \in Command("disable", CatalogOptions.show, catalogSetEnabled, AnyShape) :
          WellMade("entry", r)
  BY ACommand
<1>3. \A r \in Pressed("enable", handleToggleAgent) : WellMade("entry", r)
  BY AFilledForm
<1>4. \A r \in Pressed("disable", handleToggleAgent) : WellMade("entry", r)
  BY AFilledForm
<1> HIDE DEF Command, Filled, Fixed, Pressed, Asked, AnyShape, Updates
<1> QED BY <1>1, <1>2, <1>3, <1>4, McpWellMade, MarkdownWellMade DEF SkillRequests, AgentRequests

(*----------------------------- all of them -------------------------------*)

(* Whatever is typed as the options of any command or into any form of the *)
(* pages, the request it becomes writes no field its user did not name,    *)
(* but the other half of a trigger and what a form of the catalog holds,   *)
(* and has the shape its route takes unless a form that is left to the     *)
(* server was typed on a command line.                                     *)
THEOREM RequestsWellMade ==
    ASSUME NEW t \in DOMAIN ROUTES, NEW r \in Requests[t]
    PROVE  WellMade(t, r)
BY SchedulesWellMade, TasksWellMade, SessionsWellMade, WorkspacesWellMade, WorkflowsWellMade,
   NodesWellMade, EntriesWellMade DEF ROUTES, Requests

(*-------------------------------- calls ----------------------------------*)

CallFields == DOMAIN Nothing

Harmless(k) ==
    /\ k.phase = "done" /\ k.told
    /\ ~ k.sent \/ (k.class # "FetchFailed" /\ k.status >= 400 /\ k.status < 500)
    => \/ k.did \in {"nothing", "gone"}
       \/ k.op = "run" /\ k.did = "orphan"
       \/ k.op = "sync" /\ k.did = "plan"

(* Of a call, where it is: what it writes is justified until it is done,   *)
(* and what its user did not name was read when it is sent; between a      *)
(* change and the question after it there is one route whose change is     *)
(* another thing.                                                          *)
CallOK(t, k) ==
    /\ DOMAIN k = CallFields
    /\ k.phase \in {"idle", "reading", "sent", "again", "done"}
    /\ k.phase \in {"reading", "sent"} =>
          k.sent /\ k.did = "nothing" /\ Justified(k.edits, k.names, k.whole)
    /\ k.phase = "sent" => DOMAIN k.seen = k.edits \ k.names
    /\ k.phase = "again" =>
          /\ k.sent
          /\ \/ k.did \in {"nothing", "row", "gone"}
             \/ k.op = "run" /\ k.did \in {"another", "orphan"}
    /\ Agrees(t, k)
    /\ Harmless(k)

(* Whose thing is gone has nothing left of it. *)
Settled(k) == k.phase = "again" => k.did \notin {"row", "another"}

ApiInv ==
    /\ thing \in Things
    /\ DOMAIN call = Clients
    /\ \A c \in Clients : CallOK(thing, call[c])
    /\ row = "none" => \A c \in Clients : Settled(call[c])

LEMMA TheCalls ==
    /\ ShapeAgrees <=> \A c \in Clients : Agrees(thing, call[c])
    /\ NamedRefusalIsHarmless <=> \A c \in Clients : Harmless(call[c])
<1>1. ShapeAgrees <=> \A c \in Clients : Agrees(thing, call[c])
  BY DEF ShapeAgrees, Agrees
<1>2. \A c : /\ ExitCode(c) = 2 <=> ~ call[c].sent
             /\ ExitCode(c) = 4 <=> /\ call[c].sent /\ call[c].class # "FetchFailed"
                                    /\ call[c].status >= 400
  BY DEF ExitCode
<1>3. \A c \in Clients :
         (/\ call[c].phase = "done" /\ call[c].told
          /\ ExitCode(c) = 2 \/ (ExitCode(c) = 4 /\ call[c].status < 500)
          => \/ call[c].did \in {"nothing", "gone"}
             \/ call[c].op = "run" /\ call[c].did = "orphan"
             \/ call[c].op = "sync" /\ call[c].did = "plan")
         <=> Harmless(call[c])
  BY <1>2 DEF Harmless
<1>4. NamedRefusalIsHarmless <=> \A c \in Clients : Harmless(call[c])
  BY <1>3 DEF NamedRefusalIsHarmless
<1> QED BY <1>1, <1>4

(* A call that is done: what is left of it. *)
IsDone(k, d, status, told, class, did) ==
    /\ DOMAIN d = CallFields /\ d.phase = "done"
    /\ d.status = status /\ d.told = told /\ d.class = class /\ d.did = did
    /\ d.op = k.op /\ d.sent = k.sent /\ d.taken = k.taken /\ d.form = k.form /\ d.odd = k.odd

LEMMA DoneIs ==
    ASSUME NEW c \in Clients, DOMAIN call[c] = CallFields, NEW status, NEW told, NEW class
    PROVE  /\ IsDone(call[c], Done(c, status, told, class), status, told, class, call[c].did)
           /\ \A did : IsDone(call[c], Doing(Done(c, status, told, class), did),
                              status, told, class, did)
<1> DEFINE d == Done(c, status, told, class)
<1>1. IsDone(call[c], d, status, told, class, call[c].did)
  BY DEF IsDone, Done, CallFields, Nothing
<1> HIDE DEF d
<1>2. \A did : IsDone(call[c], Doing(d, did), status, told, class, did)
  BY <1>1 DEF IsDone, Doing, CallFields, Nothing
<1> QED BY <1>1, <1>2 DEF d

LEMMA DoneOK ==
    ASSUME NEW t, NEW k, CallOK(t, k), k.sent, NEW d, NEW status, NEW told, NEW class, NEW did,
           IsDone(k, d, status, told, class, did),
           \/ did \in {"nothing", "gone"}
           \/ k.op = "run" /\ did = "orphan"
           \/ k.op = "sync" /\ did = "plan"
           \/ class = "FetchFailed"
           \/ ~ told
           \/ status \in {0, 200, 500}
    PROVE  CallOK(t, d) /\ d.phase = "done"
BY DEF CallOK, IsDone, Agrees, Harmless

(* The rows of a policy, the first of which decides.                       *)
LEMMA RowIs ==
    ASSUME NEW classes, NEW status
    PROVE  /\ \A k : k \in DOMAIN Row(classes, status) <=> k \in classes
           /\ \A k \in classes : Row(classes, status)[k] = status
BY DEF Row

LEMMA RowsAre ==
    ASSUME NEW f, NEW g
    PROVE  /\ \A k : k \in DOMAIN (f @@ g) <=> k \in DOMAIN f \/ k \in DOMAIN g
           /\ \A k \in DOMAIN f : (f @@ g)[k] = f[k]
           /\ \A k \in DOMAIN g : k \notin DOMAIN f => (f @@ g)[k] = g[k]
BY OverIs DEF @@

(* The two answers that say nothing is wrong, or not what.                 *)
LEMMA Statuses ==
    /\ \A t \in {"task", "schedule"} : respondError(t, "RuntimeHeadlessLaunchFailed").status = 500
    /\ \A t : ~ respondError(t, "Io").told
<1> DEFINE class == "RuntimeHeadlessLaunchFailed"
           above == Row({"ScheduleNotFound", "ScheduleKindMismatch"}, 404)
                    @@ Row({"ScheduleEnabled", "ScheduleHasInFlight"}, 409)
                    @@ Row({"ScheduleKindNotRegistered"}, 500)
                    @@ Row(ScheduleErrors, 400)
<1>1. class \notin DOMAIN TaskRows
  BY RowIs, RowsAre DEF TaskRows
<1>2. class \in DOMAIN tasksErrorPolicy /\ tasksErrorPolicy[class] = 500
  BY <1>1, RowIs, RowsAre DEF tasksErrorPolicy
<1>6. class \notin DOMAIN above
  BY RowIs, RowsAre DEF ScheduleErrors
<1>7. schedulesErrorPolicy = above @@ tasksErrorPolicy
  BY DEF schedulesErrorPolicy
<1> HIDE DEF above
<1>8. class \in DOMAIN schedulesErrorPolicy /\ schedulesErrorPolicy[class] = 500
  BY <1>2, <1>6, <1>7, RowsAre
<1>9. /\ Policy["task"] = tasksErrorPolicy /\ Policy["schedule"] = schedulesErrorPolicy
  BY DEF Policy
<1>10. \A t \in {"task", "schedule"} : respondError(t, class).status = 500
  BY <1>2, <1>8, <1>9 DEF respondError
<1>3. "Io" \notin SAFE_ERROR_NAMES
  BY DEF SAFE_ERROR_NAMES, SkillErrors, AgentErrors, McpErrors, FetchErrors, SessionErrors,
         RuntimeErrors, TaskErrors, ScheduleErrors, WorkspaceErrors, RegistryErrors, WorkflowErrors,
         WorkflowStateErrors, WorkflowInputErrors, WorkflowMissing, CorruptionErrors,
         NodeStateErrors, InsertErrors, RemoveErrors, SubgraphStateErrors, SubgraphInputErrors
<1>4. \A t : ~ respondError(t, "Io").told
  BY <1>3 DEF respondError, StableBody
<1> QED BY <1>4, <1>10

LEMMA OneCall ==
    ASSUME ApiInv, thing' = thing, NEW c \in Clients, NEW k, CallOK(thing, k),
           call' = [call EXCEPT ![c] = k],
           row' = "none" => row = "none" /\ k.phase # "again"
    PROVE  ApiInv'
<1>1. \A d \in Clients : call'[d] = IF d = c THEN k ELSE call[d]
  BY DEF ApiInv
<1> QED BY <1>1 DEF ApiInv, Settled

(* The thing goes, under the calls that still ask for it.                  *)
LEMMA UnmadeKeeps ==
    ASSUME ApiInv, thing' = thing, NEW c \in Clients, NEW k, CallOK(thing, k), k.phase = "done",
           call' = Unmade(c, k)
    PROVE  ApiInv'
<1>1. ASSUME NEW d \in Clients
      PROVE  CallOK(thing, Orphaned(call[d])) /\ Settled(Orphaned(call[d]))
  <2>1. CallOK(thing, call[d]) /\ DOMAIN call[d] = CallFields
    BY DEF ApiInv, CallOK
  <2>2. CASE call[d].phase # "again"
    BY <2>1, <2>2 DEF Orphaned, Settled
  <2>3. CASE call[d].phase = "again"
    <3> DEFINE q == Orphaned(call[d])
    <3>1. /\ DOMAIN q = CallFields /\ q.phase = "again" /\ q.op = call[d].op
          /\ q.sent = call[d].sent /\ q.taken = call[d].taken /\ q.form = call[d].form
          /\ q.odd = call[d].odd
          /\ q.did = IF call[d].did = "row" THEN "gone"
                     ELSE IF call[d].did = "another" THEN "orphan" ELSE call[d].did
      BY <2>1, <2>3 DEF Orphaned, Doing, CallFields, Nothing
    <3> HIDE DEF q
    <3>2. CallOK(thing, q) /\ Settled(q)
      BY <2>1, <2>3, <3>1 DEF CallOK, Agrees, Harmless, Settled
    <3> QED BY <3>2 DEF q
  <2> QED BY <2>2, <2>3
<1>2. \A d \in Clients : call'[d] = IF d = c THEN k ELSE Orphaned(call[d])
  BY DEF Unmade
<1>3. DOMAIN call' = Clients
  BY DEF Unmade
<1>4. Settled(k)
  BY DEF Settled
<1> QED BY <1>1, <1>2, <1>3, <1>4 DEF ApiInv

(*-------------------------------- steps ----------------------------------*)

LEMMA AskKeeps ==
    ASSUME ApiInv, NEW c \in Clients, Ask(c)
    PROVE  ApiInv'
<1>1. PICK r \in Asking[thing] : call' = [call EXCEPT ![c] = Judged(r, call[c].asked + 1)]
  BY DEF Ask
<1>2. PICK q \in Requests[thing] : r = AsFollowed(q)
  BY <1>1 DEF Asking, ApiInv
<1>3. WellMade(thing, q)
  BY <1>2, RequestsWellMade, ApiAssumption DEF ApiInv
<1>4. /\ r.sent = q.sent /\ r.taken = q.taken /\ r.form = q.form /\ r.odd = q.odd
      /\ r.whole = q.whole
      /\ r.names = q.names \cap Followed /\ r.edits = q.edits \cap Followed
  BY <1>2, <1>3 DEF AsFollowed, WellMade, Made, Shaped, Fields
<1>5. Agrees(thing, r) /\ (r.taken => r.sent)
  BY <1>3, <1>4 DEF WellMade, Made, Shaped, Agrees
<1>6. Justified(r.edits, r.names, r.whole)
  BY <1>3, <1>4, ApiAssumption DEF WellMade, Made, Justified
<1>10. r.edits \subseteq r.names \/ r.reads
  BY <1>2, <1>3, <1>4 DEF WellMade, Made, Shaped, Fields, AsFollowed
<1> DEFINE k == Judged(r, call[c].asked + 1)
<1>7. /\ DOMAIN k = CallFields
      /\ k.phase \in {"reading", "sent", "done"}
      /\ k.phase # "done" => r.taken
      /\ k.phase = "sent" => ~ r.reads
      /\ k.seen = <<>>
      /\ k.did = "nothing" /\ k.sent = r.sent /\ k.taken = r.taken /\ k.form = r.form
      /\ k.odd = r.odd /\ k.whole = r.whole /\ k.names = r.names /\ k.edits = r.edits
  BY DEF Judged, CallFields, Nothing
<1>8. call' = [call EXCEPT ![c] = k] /\ thing' = thing
  BY <1>1 DEF Ask
<1> HIDE DEF k
<1>11. DOMAIN <<>> = {}
  OBVIOUS
<1>12. k.phase = "sent" => DOMAIN k.seen = k.edits \ k.names
  BY <1>7, <1>10, <1>11
<1>9. CallOK(thing, k)
  BY <1>5, <1>6, <1>7, <1>12 DEF CallOK, Agrees, Harmless
<1>13. row' = row
  BY DEF Ask
<1> QED BY <1>7, <1>8, <1>9, <1>13, OneCall

LEMMA ReadKeeps ==
    ASSUME ApiInv, NEW c \in Clients, Read(c)
    PROVE  ApiInv'
<1>1. /\ CallOK(thing, call[c]) /\ call[c].phase = "reading" /\ call[c].sent
      /\ call[c].did = "nothing" /\ DOMAIN call[c] = CallFields /\ thing' = thing /\ row' = row
  BY DEF ApiInv, Read, CallOK
<1>2. CASE row = "none"
  <2>1. call' = [call EXCEPT ![c] = Thrown(c, Missing[thing])]
    BY <1>2 DEF Read
  <2>2. CallOK(thing, Thrown(c, Missing[thing])) /\ Thrown(c, Missing[thing]).phase = "done"
    BY <1>1, DoneIs, DoneOK DEF Thrown
  <2> QED BY <1>1, <2>1, <2>2, OneCall
<1>3. CASE row # "none"
  <2> DEFINE k == [call[c] EXCEPT !.phase = "sent",
                      !.seen = [f \in call[c].edits \ call[c].names |-> writer[f]]]
  <2>1. call' = [call EXCEPT ![c] = k]
    BY <1>3 DEF Read
  <2>2. /\ DOMAIN k = CallFields /\ k.phase = "sent" /\ k.did = call[c].did
        /\ k.sent = call[c].sent /\ k.taken = call[c].taken /\ k.form = call[c].form
        /\ k.odd = call[c].odd /\ k.whole = call[c].whole /\ k.names = call[c].names
        /\ k.edits = call[c].edits /\ DOMAIN k.seen = call[c].edits \ call[c].names
    BY <1>1 DEF CallFields, Nothing
  <2> HIDE DEF k
  <2>3. CallOK(thing, k)
    BY <1>1, <2>2 DEF CallOK, Agrees, Harmless
  <2> QED BY <1>1, <2>1, <2>2, <2>3, OneCall
<1> QED BY <1>2, <1>3

LEMMA NothingOK ==
    ASSUME NEW t, NEW n
    PROVE  CallOK(t, Nothing) /\ CallOK(t, [Nothing EXCEPT !.asked = n])
<1> DEFINE k == [Nothing EXCEPT !.asked = n]
<1>1. /\ DOMAIN k = CallFields /\ k.phase = "idle" /\ k.taken = TRUE
      /\ DOMAIN Nothing = CallFields /\ Nothing.phase = "idle" /\ Nothing.taken = TRUE
  BY DEF Nothing, CallFields
<1> HIDE DEF k
<1>2. CallOK(t, Nothing)
  BY <1>1 DEF CallOK, Agrees, Harmless
<1>3. CallOK(t, k)
  BY <1>1 DEF CallOK, Agrees, Harmless
<1> QED BY <1>2, <1>3 DEF k

(* What is served: the call is as it was sent. *)
LEMMA SentIs ==
    ASSUME ApiInv, NEW c \in Clients, call[c].phase = "sent"
    PROVE  /\ CallOK(thing, call[c]) /\ call[c].sent /\ call[c].did = "nothing"
           /\ DOMAIN call[c] = CallFields
           /\ Justified(call[c].edits, call[c].names, call[c].whole)
           /\ DOMAIN call[c].seen = call[c].edits \ call[c].names
BY DEF ApiInv, CallOK

(* It is answered, and nothing is asked again. *)
LEMMA SentDone ==
    ASSUME ApiInv, NEW c \in Clients, call[c].phase = "sent",
           NEW status, NEW told, NEW class, NEW did,
           \/ did = "nothing"
           \/ call[c].op = "sync" /\ did = "plan"
           \/ ~ told
           \/ status \in {0, 200, 500}
    PROVE  /\ CallOK(thing, Doing(Done(c, status, told, class), did))
           /\ Doing(Done(c, status, told, class), did).phase = "done"
<1> DEFINE d == Doing(Done(c, status, told, class), did)
<1>1. CallOK(thing, call[c]) /\ call[c].sent /\ DOMAIN call[c] = CallFields
  BY SentIs
<1>2. IsDone(call[c], d, status, told, class, did)
  BY <1>1, DoneIs
<1> HIDE DEF d
<1>3. CallOK(thing, d) /\ d.phase = "done"
  BY <1>1, <1>2, DoneOK
<1> QED BY <1>3 DEF d

LEMMA SentServed ==
    ASSUME ApiInv, NEW c \in Clients, call[c].phase = "sent", NEW did
    PROVE  /\ CallOK(thing, Doing(Done(c, 200, TRUE, "none"), did))
           /\ Doing(Done(c, 200, TRUE, "none"), did).phase = "done"
<1> DEFINE d == Doing(Done(c, 200, TRUE, "none"), did)
<1>1. CallOK(thing, call[c]) /\ call[c].sent /\ DOMAIN call[c] = CallFields
  BY SentIs
<1>2. IsDone(call[c], d, 200, TRUE, "none", did)
  BY ZenonT(30), <1>1, DoneIs
<1> HIDE DEF d
<1>3. CallOK(thing, d) /\ d.phase = "done"
  BY ZenonT(30), <1>1, <1>2, DoneOK
<1> QED BY <1>3 DEF d

LEMMA SentRefused ==
    ASSUME ApiInv, NEW c \in Clients, call[c].phase = "sent", NEW status, NEW told, NEW class
    PROVE  /\ CallOK(thing, Done(c, status, told, class))
           /\ Done(c, status, told, class).phase = "done"
<1> DEFINE d == Done(c, status, told, class)
<1>1. /\ CallOK(thing, call[c]) /\ call[c].sent /\ DOMAIN call[c] = CallFields
      /\ call[c].did = "nothing"
  BY SentIs
<1>2. IsDone(call[c], d, status, told, class, "nothing")
  BY <1>1, DoneIs
<1> HIDE DEF d
<1>3. CallOK(thing, d) /\ d.phase = "done"
  BY <1>1, <1>2, DoneOK
<1> QED BY <1>3 DEF d

(* What is asked again was asked of a thing that is there. *)
LEMMA AskedOfSome ==
    ASSUME ApiInv, NEW c \in Clients, Possible(c), call[c].op \in AsksAgain[thing]
    PROVE  row # "none"
<1>1. thing \in DOMAIN ROUTES
  BY ApiAssumption DEF ApiInv
<1>2. AsksAgain[thing] \cap AboutNone = {}
  BY <1>1 DEF ROUTES, AsksAgain, AboutNone, Creating
<1> QED BY <1>2 DEF Possible

LEMMA AnswerKeeps ==
    ASSUME ApiInv, thing' = thing, NEW c \in Clients, Possible(c), NEW did,
           row # "none" => row' # "none",
           \/ did \in {"nothing", "row"}
           \/ did = "another" /\ (call[c].op \in AsksAgain[thing] => call[c].op = "run"),
           call' = Answer(c, did)
    PROVE  ApiInv'
<1>1. /\ CallOK(thing, call[c]) /\ call[c].sent /\ DOMAIN call[c] = CallFields
      /\ call[c].phase = "sent"
  BY SentIs DEF Possible
<1>2. CASE call[c].op \in AsksAgain[thing]
  <2> DEFINE k == Doing([call[c] EXCEPT !.phase = "again"], did)
  <2>1. call' = [call EXCEPT ![c] = k]
    BY <1>2 DEF Answer
  <2>2. /\ DOMAIN k = CallFields /\ k.phase = "again" /\ k.did = did /\ k.op = call[c].op
        /\ k.sent = call[c].sent /\ k.taken = call[c].taken /\ k.form = call[c].form
        /\ k.odd = call[c].odd
    BY <1>1 DEF Doing, CallFields, Nothing
  <2> HIDE DEF k
  <2>3. CallOK(thing, k)
    BY <1>1, <1>2, <2>2 DEF CallOK, Agrees, Harmless
  <2>4. row' # "none"
    BY <1>2, AskedOfSome
  <2> QED BY <2>1, <2>3, <2>4, OneCall
<1>3. CASE call[c].op \notin AsksAgain[thing]
  <2>1. call' = [call EXCEPT ![c] = Doing(Done(c, 200, TRUE, "none"), did)]
    BY <1>3 DEF Answer
  <2>2. /\ CallOK(thing, Doing(Done(c, 200, TRUE, "none"), did))
        /\ Doing(Done(c, 200, TRUE, "none"), did).phase = "done"
    BY ZenonT(30), <1>1, SentServed
  <2> QED BY <2>1, <2>2, OneCall
<1> QED BY <1>2, <1>3

LEMMA RefuseKeeps ==
    ASSUME ApiInv, NEW c \in Clients, Refuse(c)
    PROVE  ApiInv'
<1>1. PICK class : call' = [call EXCEPT ![c] = Thrown(c, class)]
  BY DEF Refuse
<1>2. call[c].phase = "sent" /\ thing' = thing /\ row' = row
  BY DEF Refuse
<1>3. CallOK(thing, Thrown(c, class)) /\ Thrown(c, class).phase = "done"
  BY <1>2, SentRefused DEF Thrown
<1> QED BY <1>1, <1>2, <1>3, OneCall

LEMMA LaunchFailsKeeps ==
    ASSUME ApiInv, NEW c \in Clients, LaunchFails(c)
    PROVE  ApiInv'
<1> DEFINE a == respondError(thing, "RuntimeHeadlessLaunchFailed")
           d == Doing(Done(c, a.status, a.told, "RuntimeHeadlessLaunchFailed"), "another")
<1>1. /\ call[c].phase = "sent" /\ thing' = thing /\ thing \in {"task", "schedule"}
      /\ call' = [call EXCEPT ![c] = d] /\ (row' = "none" => row = "none")
  BY DEF LaunchFails, Possible, Thrown
<1>2. a.status = 500
  BY <1>1, Statuses
<1> HIDE DEF a
<1>3. CallOK(thing, d) /\ d.phase = "done"
  BY <1>1, <1>2, SentDone
<1> QED BY <1>1, <1>3, OneCall

LEMMA PurgeFailsKeeps ==
    ASSUME ApiInv, NEW c \in Clients, PurgeFails(c)
    PROVE  ApiInv'
<1> DEFINE a == respondError(thing, "Io")
           d == Doing(Done(c, a.status, a.told, "Io"), "row")
<1>1. call[c].phase = "sent" /\ thing' = thing /\ row' = row /\ call' = [call EXCEPT ![c] = d]
  BY DEF PurgeFails, Possible, Thrown
<1>2. ~ a.told
  BY Statuses
<1> HIDE DEF a
<1>3. CallOK(thing, d) /\ d.phase = "done"
  BY <1>1, <1>2, SentDone
<1> QED BY <1>1, <1>3, OneCall

LEMMA OtherKeeps ==
    ASSUME ApiInv, NEW c \in Clients, Other(c)
    PROVE  ApiInv'
<1> DEFINE did == IF call[c].op \in {"spawn", "reload", "resolve"} THEN "nothing"
                  ELSE IF call[c].op \in {"run", "addEdge", "removeEdge", "addSubgraph"}
                  THEN "another" ELSE "row"
<1>1. Possible(c) /\ thing' = thing /\ row' = row /\ call' = Answer(c, did)
  BY DEF Other
<1>2. thing \in DOMAIN ROUTES
  BY ApiAssumption DEF ApiInv
<1>3. \A op \in AsksAgain[thing] : op \notin {"addEdge", "removeEdge", "addSubgraph"}
  BY <1>2 DEF AsksAgain, ROUTES
<1>4. \/ did \in {"nothing", "row"}
      \/ did = "another" /\ (call[c].op \in AsksAgain[thing] => call[c].op = "run")
  BY <1>3
<1> QED BY <1>1, <1>4, AnswerKeeps

LEMMA RemoveKeeps ==
    ASSUME ApiInv, NEW c \in Clients, Remove(c)
    PROVE  ApiInv'
<1> DEFINE d == Doing(Done(c, 200, TRUE, "none"), "row")
<1>1. /\ call[c].phase = "sent" /\ call[c].op \in Removing /\ thing' = thing
      /\ call' = Unmade(c, Answer(c, "row")[c])
  BY DEF Remove, Serving
<1>2. thing \in DOMAIN ROUTES
  BY ApiAssumption DEF ApiInv
<1>3. call[c].op \notin AsksAgain[thing]
  BY <1>1, <1>2 DEF AsksAgain, ROUTES, Removing
<1>4. Answer(c, "row")[c] = d
  BY <1>3 DEF Answer, ApiInv
<1>5. CallOK(thing, d) /\ d.phase = "done"
  BY ZenonT(30), <1>1, SentServed
<1> HIDE DEF d
<1> QED BY <1>1, <1>4, <1>5, UnmadeKeeps

LEMMA SyncKeeps ==
    ASSUME ApiInv, NEW c \in Clients, Sync(c)
    PROVE  ApiInv'
<1> DEFINE late    == Done(c, 410, TRUE, "PlanTokenInvalid")
           synced  == Doing(Done(c, 200, TRUE, "none"), "row")
           class   == IF row = "none" THEN Missing[thing] ELSE "HasDependents"
           refused == Doing(Thrown(c, class), "plan")
<1>1. call[c].phase = "sent" /\ call[c].op = "sync" /\ thing' = thing
  BY DEF Sync, Serving
<1>2. CallOK(thing, late) /\ late.phase = "done"
  BY ZenonT(60), <1>1, SentRefused
<1>3. CallOK(thing, synced) /\ synced.phase = "done"
  BY ZenonT(30), <1>1, SentServed
<1>4. CallOK(thing, refused) /\ refused.phase = "done"
  BY <1>1, SentDone DEF Thrown
<1>5. \/ call' = [call EXCEPT ![c] = late] /\ row' = row
      \/ call' = [call EXCEPT ![c] = synced] /\ row' = "live"
      \/ call' = Unmade(c, synced)
      \/ call' = [call EXCEPT ![c] = refused] /\ row' = row
  BY DEF Sync
<1> HIDE DEF late, synced, refused
<1>6. ASSUME NEW k, CallOK(thing, k), k.phase = "done", call' = [call EXCEPT ![c] = k],
             row' = row \/ row' = "live"
      PROVE  ApiInv'
  BY <1>1, <1>6, OneCall
<1> QED BY <1>1, <1>2, <1>3, <1>4, <1>5, <1>6, UnmadeKeeps

LEMMA LateKeeps ==
    ASSUME ApiInv, NEW c \in Clients, Late(c)
    PROVE  ApiInv'
<1>1. /\ CallOK(thing, call[c]) /\ call[c].sent /\ DOMAIN call[c] = CallFields
      /\ thing' = thing /\ row' = row
      /\ \/ call[c].did \in {"nothing", "row", "gone"}
         \/ call[c].op = "run" /\ call[c].did \in {"another", "orphan"}
  BY DEF ApiInv, Late, CallOK
<1>2. CASE row # "none"
  <2> DEFINE d == Done(c, 200, TRUE, "none")
  <2>1. call' = [call EXCEPT ![c] = d]
    BY <1>2 DEF Late
  <2>2. IsDone(call[c], d, 200, TRUE, "none", call[c].did)
    BY ZenonT(30), <1>1, DoneIs
  <2> HIDE DEF d
  <2>3. CallOK(thing, d) /\ d.phase = "done"
    BY ZenonT(30), <1>1, <2>2, DoneOK
  <2> QED BY <1>1, <2>1, <2>3, OneCall
<1>3. CASE row = "none"
  <2> DEFINE a == respondError(thing, Missing[thing])
             d == Done(c, a.status, a.told, Missing[thing])
  <2>1. call' = [call EXCEPT ![c] = d]
    BY <1>3 DEF Late, Thrown
  <2>2. \/ call[c].did \in {"nothing", "gone"}
        \/ call[c].op = "run" /\ call[c].did = "orphan"
    BY <1>1, <1>3 DEF ApiInv, Settled, Late
  <2> HIDE DEF a
  <2>3. IsDone(call[c], d, a.status, a.told, Missing[thing], call[c].did)
    BY <1>1, DoneIs
  <2> HIDE DEF d
  <2>4. CallOK(thing, d) /\ d.phase = "done"
    BY <1>1, <2>2, <2>3, DoneOK
  <2> QED BY <1>1, <2>1, <2>4, OneCall
<1> QED BY <1>2, <1>3

LEMMA ServerDiesKeeps ==
    ASSUME ApiInv, ServerDies
    PROVE  ApiInv'
<1> SUFFICES ASSUME NEW c \in Clients PROVE CallOK(thing, call'[c]) /\ Settled(call'[c])
  BY DEF ApiInv, ServerDies
<1>1. CallOK(thing, call[c]) /\ DOMAIN call[c] = CallFields
  BY DEF ApiInv, CallOK
<1>2. CASE call[c].phase \in {"reading", "sent", "again"}
  <2>1. call'[c] = Done(c, 0, TRUE, "FetchFailed") /\ call[c].sent
    BY <1>1, <1>2 DEF ServerDies, CallOK
  <2>2. CallOK(thing, call'[c]) /\ call'[c].phase = "done"
    BY <1>1, <2>1, DoneIs, DoneOK
  <2> QED BY <2>2 DEF Settled
<1>3. CASE call[c].phase \notin {"reading", "sent", "again"}
  BY <1>1, <1>3 DEF ServerDies, Settled
<1> QED BY <1>2, <1>3

LEMMA Keeps == ApiInv /\ [Next]_vars => ApiInv'
<1> SUFFICES ASSUME ApiInv, [Next]_vars PROVE ApiInv'
  OBVIOUS
<1>1. ASSUME NEW c \in Clients, Ask(c) PROVE ApiInv'
  BY <1>1, AskKeeps
<1>2. ASSUME NEW c \in Clients, Read(c) PROVE ApiInv'
  BY <1>2, ReadKeeps
<1>3. ASSUME NEW c \in Clients, Again(c) PROVE ApiInv'
  <2>1. /\ CallOK(thing, [Nothing EXCEPT !.asked = call[c].asked])
        /\ [Nothing EXCEPT !.asked = call[c].asked].phase = "idle"
    BY NothingOK DEF Nothing
  <2> QED BY <1>3, <2>1, OneCall DEF Again
<1>4. ASSUME NEW c \in Clients, Refuse(c) PROVE ApiInv'
  BY <1>4, RefuseKeeps
<1>5. ASSUME NEW c \in Clients, Get(c) PROVE ApiInv'
  BY <1>5, AnswerKeeps DEF Get
<1>6. ASSUME NEW c \in Clients, Create(c) PROVE ApiInv'
  BY <1>6, AnswerKeeps DEF Create
<1>7. ASSUME NEW c \in Clients, LaunchFails(c) PROVE ApiInv'
  BY <1>7, LaunchFailsKeeps
<1>8. ASSUME NEW c \in Clients, Update(c) PROVE ApiInv'
  BY <1>8, AnswerKeeps DEF Update
<1>9. ASSUME NEW c \in Clients, End(c) PROVE ApiInv'
  BY <1>9, AnswerKeeps DEF End
<1>10. ASSUME NEW c \in Clients, Remove(c) PROVE ApiInv'
  BY <1>10, RemoveKeeps
<1>11. ASSUME NEW c \in Clients, PurgeFails(c) PROVE ApiInv'
  BY <1>11, PurgeFailsKeeps
<1>12. ASSUME NEW c \in Clients, Other(c) PROVE ApiInv'
  BY <1>12, OtherKeeps
<1>13. ASSUME NEW c \in Clients, SyncResolve(c) PROVE ApiInv'
  BY <1>13, AnswerKeeps DEF SyncResolve
<1>14. ASSUME NEW c \in Clients, Sync(c) PROVE ApiInv'
  BY <1>14, SyncKeeps
<1>15. ASSUME NEW c \in Clients, Late(c) PROVE ApiInv'
  BY <1>15, LateKeeps
<1>16. CASE ServerDies
  BY <1>16, ServerDiesKeeps
<1>17. CASE PlanExpires
  BY <1>17 DEF PlanExpires, ApiInv
<1>18. CASE ThingEnds
  BY <1>18 DEF ThingEnds, ApiInv
<1>19. CASE UNCHANGED vars
  BY <1>19 DEF vars, ApiInv
<1> QED BY <1>1, <1>2, <1>3, <1>4, <1>5, <1>6, <1>7, <1>8, <1>9, <1>10, <1>11, <1>12, <1>13,
           <1>14, <1>15, <1>16, <1>17, <1>18, <1>19 DEF Next

LEMMA Invariant == Spec => []ApiInv
<1>1. Init => ApiInv
  <2>1. Nothing.phase = "idle"
    BY DEF Nothing
  <2> QED BY <2>1, NothingOK DEF Init, ApiInv, Settled
<1> QED BY <1>1, Keeps, PTL DEF Spec

(* What the request schemas of the routes refuse, no form of the dashboard *)
(* sends, and no command but by an option whose form it leaves to the      *)
(* server.                                                                 *)
THEOREM ShapesAgree == Spec => []ShapeAgrees
<1>1. ApiInv => ShapeAgrees
  BY TheCalls DEF ApiInv, CallOK
<1> QED BY <1>1, Invariant, PTL

(* A command that ends as refused, with the reason, has changed nothing    *)
(* that is still there: whatever services fail at, whenever the server     *)
(* dies, and whatever the other clients do in between. A run leaves its    *)
(* task where another client removed the schedule after the launch, and    *)
(* nothing otherwise; a sync, that its plan is used up.                    *)
THEOREM RefusalsAreHarmless == Spec => []NamedRefusalIsHarmless
<1>1. ApiInv => NamedRefusalIsHarmless
  BY TheCalls DEF ApiInv, CallOK
<1> QED BY <1>1, Invariant, PTL

(* What an edit writes over, its user named, or its client had read. *)
NamedStep ==
    \A f \in Followed :
        writer'[f] # writer[f] =>
            \E c \in Clients :
                /\ call'[c] # call[c]
                /\ \/ Serving(c, Creating \cup {"sync"})
                   \/ Serving(c, Updates) /\ f \in call[c].names /\ writer'[f] = c
                   \/ /\ Serving(c, Updates) /\ GoesWith(c, f)
                      /\ f \in DOMAIN call[c].seen /\ writer'[f] = call[c].seen[f]

LEMMA AnswerIsNew ==
    ASSUME ApiInv, NEW c \in Clients, call[c].phase = "sent", NEW did
    PROVE  Answer(c, did)[c].phase # "sent"
<1> DEFINE k == Doing([call[c] EXCEPT !.phase = "again"], did)
           d == Doing(Done(c, 200, TRUE, "none"), did)
<1>1. DOMAIN call[c] = CallFields
  BY SentIs
<1>2. k.phase = "again"
  BY <1>1 DEF Doing, CallFields, Nothing
<1>3. d.phase = "done"
  <2> HIDE DEF d
  <2>1. IsDone(call[c], d, 200, TRUE, "none", did)
    BY ZenonT(30), <1>1, DoneIs DEF d
  <2> QED BY <2>1 DEF IsDone
<1>4. Answer(c, did)[c] \in {k, d}
  BY DEF Answer, ApiInv
<1> HIDE DEF k, d
<1> QED BY <1>2, <1>3, <1>4

LEMMA NamedSteps == ApiInv /\ [Next]_vars => [NamedStep]_vars
<1> SUFFICES ASSUME ApiInv, [Next]_vars, NEW f \in Followed, writer'[f] # writer[f]
             PROVE  \E c \in Clients :
                       /\ call'[c] # call[c]
                       /\ \/ Serving(c, Creating \cup {"sync"})
                          \/ Serving(c, Updates) /\ f \in call[c].names /\ writer'[f] = c
                          \/ /\ Serving(c, Updates) /\ GoesWith(c, f)
                             /\ f \in DOMAIN call[c].seen /\ writer'[f] = call[c].seen[f]
  BY DEF NamedStep
<1>1. PICK c \in Clients : Create(c) \/ Update(c) \/ Sync(c)
  <2> SUFFICES ASSUME \A c \in Clients : ~ Create(c) /\ ~ Update(c) /\ ~ Sync(c)
               PROVE  UNCHANGED writer
    OBVIOUS
  <2>1. ASSUME NEW c \in Clients,
               Ask(c) \/ Read(c) \/ Again(c) \/ Refuse(c) \/ Get(c) \/ LaunchFails(c) \/ End(c)
        PROVE  UNCHANGED writer
    BY <2>1 DEF Ask, Read, Again, Refuse, Get, LaunchFails, End
  <2>2. ASSUME NEW c \in Clients,
               Remove(c) \/ PurgeFails(c) \/ Other(c) \/ SyncResolve(c) \/ Late(c)
        PROVE  UNCHANGED writer
    BY <2>2 DEF Remove, PurgeFails, Other, SyncResolve, Late
  <2>3. CASE ServerDies \/ PlanExpires \/ ThingEnds \/ UNCHANGED vars
    BY <2>3 DEF ServerDies, PlanExpires, ThingEnds, vars
  <2> QED BY <2>1, <2>2, <2>3 DEF Next
<1>2. CASE Sync(c)
  <2>1. call[c].phase = "sent" /\ Serving(c, {"sync"})
    BY <1>2 DEF Sync, Serving
  <2> DEFINE d == Doing(Done(c, 200, TRUE, "none"), "row")
  <2>2. d.phase = "done"
    BY ZenonT(30), <2>1, SentServed
  <2>3. call' = [call EXCEPT ![c] = d] \/ call' = Unmade(c, d)
    BY <1>2 DEF Sync
  <2> HIDE DEF d
  <2>4. call'[c] = d
    BY <2>3 DEF Unmade, ApiInv
  <2> QED BY <2>1, <2>2, <2>4 DEF Serving
<1>3. CASE Create(c) \/ Update(c)
  <2>1. call[c].phase = "sent" /\ call' = Answer(c, "row")
    BY <1>3 DEF Create, Update, Possible
  <2>2. call'[c] # call[c]
    BY <2>1, AnswerIsNew
  <2>3. /\ Justified(call[c].edits, call[c].names, call[c].whole)
        /\ DOMAIN call[c].seen = call[c].edits \ call[c].names
    BY <2>1, SentIs
  <2>4. CASE Create(c)
    BY <2>2, <2>4 DEF Create, Serving
  <2>5. CASE Update(c)
    <3>1. /\ Serving(c, Updates) /\ f \in call[c].edits
          /\ writer'[f] = IF f \in DOMAIN call[c].seen THEN call[c].seen[f] ELSE c
      BY <2>5 DEF Update
    <3>2. CASE f \in call[c].names
      BY <2>2, <2>3, <3>1, <3>2
    <3>3. CASE f \notin call[c].names
      BY <2>2, <2>3, <3>1, <3>3 DEF Justified, GoesWith
    <3> QED BY <3>2, <3>3
  <2> QED BY <1>3, <2>4, <2>5
<1> QED BY <1>1, <1>2, <1>3

(* The value of a field is written over by an edit whose user named it, by *)
(* a new thing or a sync, or by a client that had read it and has to send  *)
(* it along, for half of a trigger or with a whole form; the last puts     *)
(* back what was read, even where another client wrote in between, and no  *)
(* other request does.                                                     *)
THEOREM EditsAreNamed == Spec => EditsOnlyWhatWasNamed
<1>1. [][NamedStep]_vars => EditsOnlyWhatWasNamed
  BY DEF NamedStep, EditsOnlyWhatWasNamed
<1> QED BY <1>1, Invariant, NamedSteps, PTL DEF Spec
=============================================================================
