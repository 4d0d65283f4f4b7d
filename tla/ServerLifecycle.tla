--------------------------- MODULE ServerLifecycle ---------------------------
(***************************************************************************)
(* emploke start, stop, restart and status, and the servers they start and *)
(* stop.  All that one command knows of the others is in one file,         *)
(* runtime.json, which it reads once before it acts.  The servers of a     *)
(* home listen on one address.                                             *)
(***************************************************************************)
EXTENDS FiniteSets

CONSTANTS
    Commands,    \* every command that is given; a server has the name of the
                 \* command that spawned it
    Nobody

ASSUME LifecycleAssumption == Nobody \notin Commands

VARIABLES
    file,        \* the server that runtime.json names, or Nobody
    proc,        \* of each server: "none", "booting", "up", "closing", "dead"
    kind,        \* what a command is: "start", "stop", "restart", "status"
    phase,       \* where it is
    seen,        \* the server it found in the file
    said,        \* what it said at its end
    overlapped,  \* two commands were under way at one time
    unwritten    \* one ended between the spawn and the write of the file

lifeVars == <<file, proc, kind, phase, seen, said, overlapped, unwritten>>
log  == <<overlapped, unwritten>>

LifeInit ==
    /\ file = Nobody
    /\ proc = [c \in Commands |-> "none"]
    /\ kind = [c \in Commands |-> ""]
    /\ phase = [c \in Commands |-> "idle"]
    /\ seen = [c \in Commands |-> Nobody]
    /\ said = [c \in Commands |-> ""]
    /\ overlapped = FALSE /\ unwritten = FALSE

Alive(p)    == p # Nobody /\ proc[p] \in {"booting", "up", "closing"}
UnderWay(c) == phase[c] \notin {"idle", "done"}
Answered    == \E p \in Commands : proc[p] = "up"   \* whoever listens answers

(*-------------------------------- the servers ----------------------------*)

ServerStep(p, from, to) ==
    /\ proc[p] = from
    /\ proc' = [proc EXCEPT ![p] = to]
    /\ UNCHANGED <<file, kind, phase, seen, said, log>>

Listens(p) == ~ Answered /\ ServerStep(p, "booting", "up")

(* The address is taken, the database does not open, a module is missing.  *)
BootFails(p) == ServerStep(p, "booting", "dead")
Crashes(p)   == ServerStep(p, "up", "dead")

(* A shutdown comes to its end, or to its deadline. *)
Exits(p) == ServerStep(p, "closing", "dead")

(* The handlers of the signals are installed last: before that a signal    *)
(* just kills. A server that is closing does not start over.               *)
AfterSigterm(p) ==
    [proc EXCEPT ![p] = CASE @ = "booting" -> "dead" [] @ = "up" -> "closing" [] OTHER -> @]
AfterSigkill(p) == [proc EXCEPT ![p] = IF Alive(p) THEN "dead" ELSE @]

(*------------------------------- the commands ----------------------------*)

Goto(c, where) == phase' = [phase EXCEPT ![c] = where] /\ UNCHANGED <<kind, said>>
Finishes(c, what) ==
    /\ phase' = [phase EXCEPT ![c] = "done"]
    /\ said' = [said EXCEPT ![c] = what]
    /\ UNCHANGED kind

(* A restart that has stopped goes on as a start. *)
EndStop(c, what) ==
    IF kind[c] # "restart" THEN Finishes(c, what)
    ELSE /\ kind' = [kind EXCEPT ![c] = "start"]
         /\ phase' = [phase EXCEPT ![c] = "read"]
         /\ UNCHANGED said

Begin(c) ==
    /\ phase[c] = "idle"
    /\ \E k \in {"start", "stop", "restart", "status"} : kind' = [kind EXCEPT ![c] = k]
    /\ phase' = [phase EXCEPT ![c] = "read"]
    /\ overlapped' = (overlapped \/ \E d \in Commands : UnderWay(d))
    /\ UNCHANGED <<file, proc, seen, said, unwritten>>

ReadNothing(c) ==
    /\ phase[c] = "read" /\ file = Nobody
    /\ IF kind[c] = "start" THEN Goto(c, "spawn") ELSE EndStop(c, "not running")
    /\ UNCHANGED <<file, proc, seen, log>>

ReadStale(c) ==
    /\ phase[c] = "read" /\ file # Nobody /\ ~ Alive(file)
    /\ seen' = [seen EXCEPT ![c] = file]
    /\ Goto(c, "clean")
    /\ UNCHANGED <<file, proc, log>>

(* A stop sends its signal at once. *)
ReadAlive(c) ==
    /\ phase[c] = "read" /\ Alive(file)
    /\ seen' = [seen EXCEPT ![c] = file]
    /\ Goto(c, CASE kind[c] = "start" -> "check" [] kind[c] = "status" -> "probe" [] OTHER -> "grace")
    /\ proc' = IF kind[c] \in {"stop", "restart"} THEN AfterSigterm(file) ELSE proc
    /\ UNCHANGED <<file, log>>

(* The process is another user's: a restart that cannot stop starts nothing. *)
SignalRefused(c) ==
    /\ phase[c] = "read" /\ Alive(file) /\ kind[c] \in {"stop", "restart"}
    /\ seen' = [seen EXCEPT ![c] = file]
    /\ Finishes(c, "not stopped")
    /\ UNCHANGED <<file, proc, log>>

Clean(c) ==
    /\ phase[c] = "clean"
    /\ file' = Nobody
    /\ IF kind[c] = "start" THEN Goto(c, "spawn") ELSE EndStop(c, "not running")
    /\ UNCHANGED <<proc, seen, log>>

(* A start that finds a living process never starts another, ...           *)
Check(c) ==
    /\ phase[c] = "check"
    /\ (Answered /\ Finishes(c, "already running")) \/ Finishes(c, "refused")
    /\ UNCHANGED <<file, proc, seen, log>>
Probe(c) ==
    /\ phase[c] = "probe"
    /\ (Answered /\ Finishes(c, "healthy")) \/ Finishes(c, "unhealthy")
    /\ UNCHANGED <<file, proc, seen, log>>

Spawn(c) ==
    /\ phase[c] = "spawn"
    /\ proc' = [proc EXCEPT ![c] = "booting"]
    /\ Goto(c, "write")
    /\ UNCHANGED <<file, seen, log>>
SpawnFails(c) ==
    /\ phase[c] = "spawn"
    /\ Finishes(c, "failed")
    /\ UNCHANGED <<file, proc, seen, log>>

(* ... and writes down the one it has spawned before it waits for it.      *)
Write(c) ==
    /\ phase[c] = "write"
    /\ file' = c
    /\ Goto(c, "wait")
    /\ UNCHANGED <<proc, seen, log>>

(* The answer may come from another server than the one it spawned. *)
Started(c) ==
    /\ phase[c] = "wait" /\ Answered
    /\ Finishes(c, "started")
    /\ UNCHANGED <<file, proc, seen, log>>
GivesUp(c) ==
    /\ phase[c] = "wait"
    /\ proc' = AfterSigterm(c)
    /\ Goto(c, "kill")
    /\ UNCHANGED <<file, seen, log>>
KillChild(c) ==
    /\ phase[c] = "kill"
    /\ proc' = AfterSigkill(c)
    /\ Goto(c, "drop")
    /\ UNCHANGED <<file, seen, log>>
Drop(c) ==
    /\ phase[c] = "drop"
    /\ file' = Nobody
    /\ Finishes(c, "failed")
    /\ UNCHANGED <<proc, seen, log>>

(* Within the grace of a stop the process goes, or it is killed. *)
Gone(c) ==
    /\ phase[c] = "grace" /\ ~ Alive(seen[c])
    /\ Goto(c, "delete")
    /\ UNCHANGED <<file, proc, seen, log>>
\* Mutant of Escalate: the process is not killed.
EscalateInVain(c) ==
    /\ phase[c] = "grace" /\ Alive(seen[c])
    /\ Goto(c, "delete")
    /\ UNCHANGED <<file, proc, seen, log>>
Escalate(c) ==
    /\ phase[c] = "grace" /\ Alive(seen[c])
    /\ proc' = AfterSigkill(seen[c])
    /\ Goto(c, "delete")
    /\ UNCHANGED <<file, seen, log>>
Delete(c) ==
    /\ phase[c] = "delete"
    /\ file' = Nobody
    /\ EndStop(c, "stopped")
    /\ UNCHANGED <<proc, seen, log>>

(* Ctrl-C, or a write of the file that fails for good. *)
Interrupted(c) ==
    /\ UnderWay(c)
    /\ Finishes(c, "interrupted")
    /\ unwritten' = (unwritten \/ phase[c] = "write")
    /\ UNCHANGED <<file, proc, seen, overlapped>>

Server(p) == Listens(p) \/ BootFails(p) \/ Crashes(p) \/ Exits(p)
Acts(c) ==
    \/ Begin(c) \/ ReadNothing(c) \/ ReadStale(c) \/ ReadAlive(c) \/ SignalRefused(c) \/ Clean(c)
    \/ Check(c) \/ Probe(c) \/ Spawn(c) \/ SpawnFails(c) \/ Write(c) \/ Started(c)
    \/ GivesUp(c) \/ KillChild(c) \/ Drop(c) \/ Gone(c) \/ Escalate(c) \/ Delete(c)
    \/ Interrupted(c)
LifeNext == \E c \in Commands : Server(c) \/ Acts(c)
LifeSpec == LifeInit /\ [][LifeNext]_lifeVars

(*------------------------------- properties ------------------------------*)

(* Commands that do not overlap never lose a server: whatever crashes,     *)
(* fails to boot, has to be killed or is interrupted, a server that lives  *)
(* is the one the file names, from the write on (start.ts: the file is     *)
(* written BEFORE the health probe so that a Ctrl-C leaves a breadcrumb).  *)
Findable ==
    ~ overlapped /\ ~ unwritten =>
        \A p \in Commands : Alive(p) => file = p \/ phase[p] = "write"

(* And, overlapping or not, a stop that says "stopped" leaves its process  *)
(* dead, and a start that gives up leaves no child behind.                 *)
Finished ==
    \A c \in Commands :
        /\ said[c] = "stopped" => ~ Alive(seen[c])
        /\ said[c] = "failed" => ~ Alive(c)

NoServerIsLost == Findable /\ Finished
==============================================================================
