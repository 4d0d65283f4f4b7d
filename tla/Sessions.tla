------------------------------- MODULE Sessions -------------------------------
(***************************************************************************)
(* Interactive sessions and the workspaces they belong to: the three       *)
(* places a session leaves something in (its row, its directory, what the  *)
(* runtime keeps of it), the registration of a workspace, and the file in  *)
(* which the runtime keeps the folders it trusts, which other programs     *)
(* write too.  A call is a sequence of steps; others interleave, each step *)
(* may fail, and the server may stop in between.                           *)
(***************************************************************************)
EXTENDS FiniteSets

CONSTANTS
    Sessions,    \* the ids that are drawn; eight random hex digits do not come twice
    Workspaces,  \* directories
    home,        \* of each session: the workspace it is created in
    Calls,
    Nothing      \* no file, no holder of the lock

ASSUME SessionsAssumption ==
    /\ home \in [Sessions -> Workspaces]
    /\ Nothing \notin Calls /\ \A some \in SUBSET Workspaces : some # Nothing

VARIABLES
    registered,  \* the workspaces in global.db
    rows,        \* the sessions in the workspace.db of their workspace
    dirs,        \* those with a directory
    states,      \* those with a directory of the runtime
    agents,      \* those in which an agent runs, in a terminal of its own
    writers,     \* those whose provisioning failed and is still writing
    trusted,     \* the trustedFolders of the runtime's config.json, or Nothing
    lock,        \* who has locked that file
    at,          \* of each call: where it is
    what,        \* the session or the workspace it is about
    read,        \* the trustedFolders it has read
    left,        \* sessions that were meant to leave something, or are known to
    recorded,    \* workspaces that were in the config.json or were put there
    raced        \* a config.json was created over one that was there

diskVars == <<registered, rows, dirs, states, agents, writers, trusted, lock, at, what, read, left,
              recorded, raced>>
disk   == <<registered, rows, dirs, states, agents, writers>>
config == <<trusted, lock, read, recorded, raced>>

Entries == IF trusted = Nothing THEN {} ELSE trusted

DiskInit ==
    /\ registered \in SUBSET Workspaces
    /\ rows \in SUBSET {s \in Sessions : home[s] \in registered}
    /\ dirs = rows
    /\ states \in SUBSET rows
    /\ agents = {} /\ writers = {} /\ left = {} /\ raced = FALSE
    /\ trusted \in {Nothing} \cup SUBSET Workspaces
    /\ lock = Nothing
    /\ at = [c \in Calls |-> "idle"]
    /\ what = [c \in Calls |-> Nothing]
    /\ read = [c \in Calls |-> {}]
    /\ recorded = Entries

SessionsOf(w) == {s \in Sessions : home[s] = w}
Goto(c, step) == at' = [at EXCEPT ![c] = step]
End(c)        == Goto(c, "done")
Calling(c)    == at[c] \notin {"idle", "done"}
Some(steps, x) == \E c \in Calls : at[c] \in steps /\ what[c] = x
BeingMade(s)   == Some({"provision", "insert", "undo"}, s)
BeingPurged(s) == Some({"remove", "deleteRow"}, s)
BeingRemoved(w) == w \notin registered \/ Some({"unlist"}, w)

BeginWith(c, x, step) ==
    /\ at[c] = "idle"
    /\ what' = [what EXCEPT ![c] = x]
    /\ Goto(c, step)
    /\ UNCHANGED <<disk, config, left>>

(*------------------------------ create a session -------------------------*)

(* The agent is looked up and resolved, the runtime found, before anything *)
(* is made.                                                                *)
CreateSession(c, s) ==
    /\ home[s] \in registered
    /\ s \notin rows \cup dirs \cup states \cup left \cup writers
    /\ \A d \in Calls : what[d] # s
    /\ BeginWith(c, s, "make")

MakeDirectory(c) ==
    /\ at[c] = "make"
    /\ \/ /\ dirs' = dirs \cup {what[c]}
          /\ left' = left \cup {s \in {what[c]} : BeingRemoved(home[s])}
          /\ Goto(c, "provision")
       \/ End(c) /\ UNCHANGED <<dirs, left>>
    /\ UNCHANGED <<registered, rows, states, agents, writers, config, what>>

(* The agent, its skills and its MCP servers are written side by side: the *)
(* first that fails ends the wait for all of them, not the others.         *)
Provision(c) ==
    /\ at[c] = "provision"
    /\ \/ Goto(c, "insert") /\ writers' = writers
       \/ Goto(c, "undo") /\ writers' \in {writers, writers \cup {what[c]}}
    /\ UNCHANGED <<registered, rows, dirs, states, agents, config, what, left>>
WritesOn(s) ==
    /\ s \in writers
    /\ \/ dirs' = dirs \cup {s} /\ left' = left \cup {s} /\ writers' = writers
       \/ writers' = writers \ {s} /\ UNCHANGED <<dirs, left>>
    /\ UNCHANGED <<registered, rows, states, agents, config, at, what>>

(* The last step: what has a row is complete. *)
InsertRow(c) ==
    /\ at[c] = "insert"
    /\ \/ /\ rows' = rows \cup {what[c]}
          /\ left' = left \cup {s \in {what[c]} : BeingRemoved(home[s])}
          /\ End(c)
       \/ Goto(c, "undo") /\ UNCHANGED <<rows, left>>
    /\ UNCHANGED <<registered, dirs, states, agents, writers, config, what>>

(* A directory that cannot be removed is only logged. *)
Undo(c) ==
    /\ at[c] = "undo"
    /\ \/ dirs' = dirs \ {what[c]} /\ left' = left
       \/ dirs' = dirs /\ left' = left \cup {what[c]}
    /\ End(c)
    /\ UNCHANGED <<registered, rows, states, agents, writers, config, what>>

(*------------------------ archive or purge a session ---------------------*)

DeleteSession(c, s) == home[s] \in registered /\ BeginWith(c, s, "findArchived")
Purge(c, s)         == home[s] \in registered /\ BeginWith(c, s, "findPurged")

(* A database that does not answer is answered like a row that is not there. *)
Find(c, from, to) ==
    /\ at[c] = from
    /\ (what[c] \in rows /\ Goto(c, to)) \/ End(c)
    /\ UNCHANGED <<disk, config, what, left>>

Archive(c) ==
    /\ at[c] = "archive"
    /\ \/ rows' = rows \ {what[c]} /\ left' = left \cup {what[c]}
       \/ UNCHANGED <<rows, left>>
    /\ End(c)
    /\ UNCHANGED <<registered, dirs, states, agents, writers, config, what>>

(* What can fail comes first and the row goes last: a purge that fails can *)
(* be asked for again.                                                     *)
DeleteState(c) ==
    /\ at[c] = "deleteState"
    /\ \/ states' = states \ {what[c]} /\ Goto(c, "remove")
       \/ states' = states /\ End(c)
    /\ UNCHANGED <<registered, rows, dirs, agents, writers, config, what, left>>
\* Mutant of RemoveDirectory: a directory that is in use does not stop the purge.
RemoveOrGoOn(c) ==
    /\ at[c] = "remove"
    /\ dirs' \in {dirs, dirs \ {what[c]}}
    /\ Goto(c, "deleteRow")
    /\ UNCHANGED <<registered, rows, states, agents, writers, config, what, left>>
RemoveDirectory(c) ==
    /\ at[c] = "remove"
    /\ \/ dirs' = dirs \ {what[c]} /\ Goto(c, "deleteRow")
       \/ dirs' = dirs /\ End(c)
    /\ UNCHANGED <<registered, rows, states, agents, writers, config, what, left>>
DeleteRow(c) ==
    /\ at[c] = "deleteRow"
    /\ rows' \in {rows, rows \ {what[c]}}
    /\ End(c)
    /\ UNCHANGED <<registered, dirs, states, agents, writers, config, what, left>>

(*----------------------------- open a terminal ---------------------------*)

Spawn(c, s) == home[s] \in registered /\ BeginWith(c, s, "findLaunched")

(* The file has to be there to be locked. *)
LookAtConfig(c) ==
    /\ at[c] = "look"
    /\ Goto(c, IF trusted = Nothing THEN "touch" ELSE "lock")
    /\ UNCHANGED <<disk, config, what, left>>
CreateConfig(c) ==
    /\ at[c] = "touch"
    /\ trusted' = {}
    /\ raced' = (raced \/ trusted # Nothing)
    /\ Goto(c, "lock")
    /\ UNCHANGED <<disk, lock, read, recorded, what, left>>

Lock(c) ==
    /\ at[c] = "lock"
    /\ (lock = Nothing /\ lock' = c /\ Goto(c, "read")) \/ (lock' = lock /\ End(c))
    /\ UNCHANGED <<disk, trusted, read, recorded, raced, what, left>>
ReadConfig(c) ==
    /\ at[c] = "read"
    /\ read' = [read EXCEPT ![c] = Entries]
    /\ Goto(c, IF home[what[c]] \in Entries THEN "release" ELSE "write")
    /\ UNCHANGED <<disk, trusted, lock, recorded, raced, what, left>>
WriteConfig(c) ==
    /\ at[c] = "write"
    /\ trusted' = read[c] \cup {home[what[c]]}
    /\ Goto(c, "release")
    /\ UNCHANGED <<disk, lock, read, recorded, raced, what, left>>
Release(c) ==
    /\ at[c] = "release"
    /\ lock' = IF lock = c THEN Nothing ELSE lock
    /\ recorded' = recorded \cup {home[what[c]]}
    /\ Goto(c, "open")
    /\ UNCHANGED <<disk, trusted, read, raced, what, left>>
ConfigFails(c) ==
    /\ at[c] \in {"look", "touch", "read", "write"}
    /\ lock' = IF lock = c THEN Nothing ELSE lock
    /\ End(c)
    /\ UNCHANGED <<disk, trusted, read, recorded, raced, what, left>>
LockGoesStale ==
    /\ lock # Nothing /\ ~ Calling(lock)
    /\ lock' = Nothing
    /\ UNCHANGED <<disk, trusted, read, recorded, raced, at, what, left>>

(* No terminal, or one that goes at once: the answer says so. Nothing says *)
(* that an agent runs in the session already.                              *)
OpenTerminal(c) ==
    /\ at[c] = "open"
    /\ agents' \in {agents, agents \cup ({what[c]} \cap dirs)}
    /\ End(c)
    /\ UNCHANGED <<registered, rows, dirs, states, writers, config, what, left>>

(* The agent outlives the call, the server, and its session. *)
AgentWrites(s) ==
    /\ s \in agents
    /\ states' = states \cup {s}
    /\ left' = left \cup {t \in {s} : t \notin rows \/ BeingPurged(t)}
    /\ UNCHANGED <<registered, rows, dirs, agents, writers, config, at, what>>
AgentEnds(s) ==
    /\ s \in agents
    /\ agents' = agents \ {s}
    /\ UNCHANGED <<registered, rows, dirs, states, writers, config, at, what, left>>

(*------------------------------- workspaces ------------------------------*)

Register(c, w)   == w \notin registered /\ BeginWith(c, w, "insertWorkspace")
Unregister(c, w) == w \in registered /\ BeginWith(c, w, "unregister")
PurgeWorkspace(c, w) == w \in registered /\ BeginWith(c, w, "wipe")

(* The directory is unique in the table: a second insert is refused. *)
InsertWorkspace(c) ==
    /\ at[c] = "insertWorkspace"
    /\ registered' \in {registered, registered \cup {what[c]}}
    /\ End(c)
    /\ UNCHANGED <<rows, dirs, states, agents, writers, config, what, left>>
UnregisterIt(c) ==
    /\ at[c] = "unregister"
    /\ \/ registered' = registered \ {what[c]} /\ left' = left \cup SessionsOf(what[c])
       \/ UNCHANGED <<registered, left>>
    /\ End(c)
    /\ UNCHANGED <<rows, dirs, states, agents, writers, config, what>>

(* All its directories, or some before it fails; not what the runtime      *)
(* keeps, nor the rows, which are in a file of the workspace that stays.   *)
Wipe(c) ==
    /\ at[c] = "wipe"
    /\ \E gone \in SUBSET SessionsOf(what[c]) :
         /\ dirs' = dirs \ gone
         /\ (gone = SessionsOf(what[c]) /\ Goto(c, "unlist")) \/ End(c)
    /\ left' = left \cup {s \in SessionsOf(what[c]) : BeingMade(s)}
    /\ UNCHANGED <<registered, rows, states, agents, writers, config, what>>
Unlist(c) ==
    /\ at[c] = "unlist"
    /\ registered' \in {registered, registered \ {what[c]}}
    /\ End(c)
    /\ UNCHANGED <<rows, dirs, states, agents, writers, config, what, left>>

(*------------------------------- the whole -------------------------------*)

(* What was being written stays where it is, the lock too. *)
ServerStops ==
    /\ \E c \in Calls : Calling(c)
    /\ at' = [c \in Calls |-> IF Calling(c) THEN "done" ELSE at[c]]
    /\ left' = left \cup {s \in Sessions : BeingMade(s)}
    /\ writers' = {}
    /\ UNCHANGED <<registered, rows, dirs, states, agents, config, what>>

CallOnSession(c) ==
    \/ \E s \in Sessions : CreateSession(c, s) \/ DeleteSession(c, s) \/ Purge(c, s) \/ Spawn(c, s)
    \/ MakeDirectory(c) \/ Provision(c) \/ InsertRow(c) \/ Undo(c)
    \/ Find(c, "findArchived", "archive") \/ Archive(c)
    \/ Find(c, "findPurged", "deleteState") \/ DeleteState(c) \/ RemoveDirectory(c) \/ DeleteRow(c)
    \/ Find(c, "findLaunched", "look") \/ LookAtConfig(c) \/ CreateConfig(c) \/ Lock(c)
    \/ ReadConfig(c) \/ WriteConfig(c) \/ Release(c) \/ ConfigFails(c) \/ OpenTerminal(c)
CallOnWorkspace(c) ==
    \/ \E w \in Workspaces : Register(c, w) \/ Unregister(c, w) \/ PurgeWorkspace(c, w)
    \/ InsertWorkspace(c) \/ UnregisterIt(c) \/ Wipe(c) \/ Unlist(c)
DiskNext ==
    \/ \E c \in Calls : CallOnSession(c) \/ CallOnWorkspace(c)
    \/ \E s \in Sessions : WritesOn(s) \/ AgentWrites(s) \/ AgentEnds(s)
    \/ LockGoesStale \/ ServerStops
DiskSpec == DiskInit /\ [][DiskNext]_diskVars

(*------------------------------- properties ------------------------------*)

(* Whatever fails, stops or interleaves, a directory or a state of the     *)
(* runtime that is there has a row from which it can be purged again       *)
(* (session-service.ts: every fallible step before the row, the "purge is  *)
(* recoverable" contract), and a directory is in a workspace that is       *)
(* registered; what the runtime keeps may outlive the registration, whose  *)
(* purge leaves it. Not so what was archived, whose creation was cut       *)
(* short, or that its agent wrote after it.                                *)
NothingIsAbandoned ==
    \A s \in Sessions \ left :
        /\ s \in dirs \cup states => (s \in rows \/ BeingMade(s))
        /\ s \in dirs => home[s] \in registered

(* A folder that config.json trusts, or that a launch has put there, is    *)
(* not lost by another launch, as long as the file was not created twice   *)
(* (trust.ts: the whole read-modify-write is done under the lock).         *)
TrustIsKept == raced \/ recorded \subseteq Entries

NothingIsLost == NothingIsAbandoned /\ TrustIsKept
===============================================================================
