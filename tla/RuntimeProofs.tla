---------------------------- MODULE RuntimeProofs ----------------------------
(***************************************************************************)
(* Theorems about what the copilot runtime leaves behind and reports.       *)
(* Sessions: what is left on the disk can be purged again, and the folders  *)
(* that were trusted are.  ActivityView: which requests of a page count and *)
(* what they owe it, whose items it shows, and that a number stands for one *)
(* item whatever is merged; the last needs what the parser of the log makes *)
(* of one more event, for every log.                                        *)
(***************************************************************************)
EXTENDS Sessions, ActivityView, NaturalsInduction, WellFoundedInduction, TLAPS

-----------------------------------------------------------------------------
(* Sessions: what is on the disk, and who is at work on it. *)

MakeSteps   == {"make", "provision", "insert", "undo"}
PurgeSteps  == {"deleteState", "remove", "deleteRow"}
LaunchSteps == {"look", "touch", "lock", "read", "write", "release", "open"}
FoundSteps  == {"archive"} \cup PurgeSteps \cup LaunchSteps
SessionSteps == MakeSteps \cup {"findArchived", "findPurged", "findLaunched"} \cup FoundSteps
WorkspaceSteps == {"insertWorkspace", "unregister", "wipe", "unlist"}

TypeOK ==
    /\ registered \subseteq Workspaces /\ recorded \subseteq Workspaces
    /\ rows \subseteq Sessions /\ dirs \subseteq Sessions /\ states \subseteq Sessions
    /\ agents \subseteq Sessions /\ writers \subseteq Sessions /\ left \subseteq Sessions
    /\ trusted \in {Nothing} \cup SUBSET Workspaces
    /\ lock \in Calls \cup {Nothing}
    /\ at \in [Calls -> {"idle", "done"} \cup SessionSteps \cup WorkspaceSteps]
    /\ what \in [Calls -> Sessions \cup Workspaces \cup {Nothing}]
    /\ read \in [Calls -> SUBSET Workspaces]
    /\ raced \in BOOLEAN
    /\ \A c \in Calls : /\ at[c] \in SessionSteps => what[c] \in Sessions
                        /\ at[c] \in WorkspaceSteps => what[c] \in Workspaces

(* What is being made has no row yet, no state and no agent, is made by    *)
(* one call, and was found by none; an agent was opened by some call.      *)
Made ==
    /\ \A c \in Calls : at[c] \in MakeSteps => what[c] \notin rows \cup states \cup agents
    /\ \A c, d \in Calls :
          at[c] \in MakeSteps /\ at[d] \in MakeSteps \cup FoundSteps /\ what[c] = what[d] => c = d
    /\ \A s \in agents : \E c \in Calls : at[c] # "idle" /\ what[c] = s

(* A purge has emptied the one place when it goes on to the next, and a    *)
(* workspace is empty when it is taken from the list, but for what is left *)
(* there in spite of it.                                                   *)
Emptied ==
    /\ \A c \in Calls :
          /\ at[c] \in {"remove", "deleteRow"} /\ what[c] \notin left => what[c] \notin states
          /\ at[c] = "deleteRow" /\ what[c] \notin left => what[c] \notin dirs
    /\ \A c \in Calls, s \in Sessions :
          at[c] = "unlist" /\ home[s] = what[c] /\ s \notin left => s \notin dirs

(* The file is read and written under the lock, and is there.              *)
Locked ==
    /\ \A c \in Calls : at[c] \in {"read", "write", "release"} => lock = c
    /\ \A c \in Calls : at[c] \in {"lock", "read", "write", "release"} => trusted # Nothing
    /\ ~ raced => \A c \in Calls :
          /\ at[c] = "write" => read[c] = trusted
          /\ at[c] = "release" => home[what[c]] \in trusted

IInv == TypeOK /\ Made /\ Emptied /\ Locked /\ NothingIsLost

(* The invariant holds at the beginning. *)
LEMMA Initially == DiskInit => IInv
BY SessionsAssumption DEF DiskInit, IInv, TypeOK, Made, Emptied, Locked, NothingIsLost,
   NothingIsAbandoned, TrustIsKept, Entries,
   MakeSteps, PurgeSteps, LaunchSteps, FoundSteps, SessionSteps, WorkspaceSteps

(* Each step keeps the types. *)
LEMMA TypeStep ==
    ASSUME IInv, [DiskNext]_diskVars
    PROVE  TypeOK'
<1> USE SessionsAssumption DEF IInv, TypeOK, MakeSteps, PurgeSteps, LaunchSteps,
    FoundSteps, SessionSteps, WorkspaceSteps, disk, config, Goto, End, Calling, Entries,
    SessionsOf
<1>1. ASSUME NEW c \in Calls, NEW s \in Sessions, CreateSession(c, s) PROVE TypeOK'
    BY <1>1 DEF CreateSession, BeginWith
<1>2. ASSUME NEW c \in Calls, NEW s \in Sessions, DeleteSession(c, s) PROVE TypeOK'
    BY <1>2 DEF DeleteSession, BeginWith
<1>3. ASSUME NEW c \in Calls, NEW s \in Sessions, Purge(c, s) PROVE TypeOK'
    BY <1>3 DEF Purge, BeginWith
<1>4. ASSUME NEW c \in Calls, NEW s \in Sessions, Spawn(c, s) PROVE TypeOK'
    BY <1>4 DEF Spawn, BeginWith
<1>5. ASSUME NEW c \in Calls, Find(c, "findArchived", "archive") PROVE TypeOK'
    BY <1>5 DEF Find
<1>6. ASSUME NEW c \in Calls, Find(c, "findPurged", "deleteState") PROVE TypeOK'
    BY <1>6 DEF Find
<1>7. ASSUME NEW c \in Calls, Find(c, "findLaunched", "look") PROVE TypeOK'
    BY <1>7 DEF Find
<1>8. ASSUME NEW c \in Calls, MakeDirectory(c) PROVE TypeOK'
    BY <1>8 DEF MakeDirectory
<1>9. ASSUME NEW c \in Calls, Provision(c) PROVE TypeOK'
    BY <1>9 DEF Provision
<1>10. ASSUME NEW c \in Calls, InsertRow(c) PROVE TypeOK'
    BY <1>10 DEF InsertRow
<1>11. ASSUME NEW c \in Calls, Undo(c) PROVE TypeOK'
    BY <1>11 DEF Undo
<1>12. ASSUME NEW c \in Calls, Archive(c) PROVE TypeOK'
    BY <1>12 DEF Archive
<1>13. ASSUME NEW c \in Calls, DeleteState(c) PROVE TypeOK'
    BY <1>13 DEF DeleteState
<1>14. ASSUME NEW c \in Calls, RemoveDirectory(c) PROVE TypeOK'
    BY <1>14 DEF RemoveDirectory
<1>15. ASSUME NEW c \in Calls, DeleteRow(c) PROVE TypeOK'
    BY <1>15 DEF DeleteRow
<1>16. ASSUME NEW c \in Calls, LookAtConfig(c) PROVE TypeOK'
    BY <1>16 DEF LookAtConfig
<1>17. ASSUME NEW c \in Calls, CreateConfig(c) PROVE TypeOK'
    BY <1>17 DEF CreateConfig
<1>18. ASSUME NEW c \in Calls, Lock(c) PROVE TypeOK'
    BY <1>18 DEF Lock
<1>19. ASSUME NEW c \in Calls, ReadConfig(c) PROVE TypeOK'
    BY <1>19 DEF ReadConfig
<1>20. ASSUME NEW c \in Calls, WriteConfig(c) PROVE TypeOK'
    BY <1>20 DEF WriteConfig
<1>21. ASSUME NEW c \in Calls, Release(c) PROVE TypeOK'
    BY <1>21 DEF Release
<1>22. ASSUME NEW c \in Calls, ConfigFails(c) PROVE TypeOK'
    BY <1>22 DEF ConfigFails
<1>23. ASSUME NEW c \in Calls, OpenTerminal(c) PROVE TypeOK'
    BY <1>23 DEF OpenTerminal
<1>24. ASSUME NEW c \in Calls, InsertWorkspace(c) PROVE TypeOK'
    BY <1>24 DEF InsertWorkspace
<1>25. ASSUME NEW c \in Calls, UnregisterIt(c) PROVE TypeOK'
    BY <1>25 DEF UnregisterIt
<1>26. ASSUME NEW c \in Calls, Wipe(c) PROVE TypeOK'
    BY <1>26 DEF Wipe
<1>27. ASSUME NEW c \in Calls, Unlist(c) PROVE TypeOK'
    BY <1>27 DEF Unlist
<1>28. ASSUME NEW c \in Calls, NEW w \in Workspaces, Register(c, w) PROVE TypeOK'
    BY <1>28 DEF Register, BeginWith
<1>29. ASSUME NEW c \in Calls, NEW w \in Workspaces, Unregister(c, w) PROVE TypeOK'
    BY <1>29 DEF Unregister, BeginWith
<1>30. ASSUME NEW c \in Calls, NEW w \in Workspaces, PurgeWorkspace(c, w) PROVE TypeOK'
    BY <1>30 DEF PurgeWorkspace, BeginWith
<1>31. ASSUME NEW s \in Sessions, WritesOn(s) PROVE TypeOK'
    BY <1>31 DEF WritesOn
<1>32. ASSUME NEW s \in Sessions, AgentWrites(s) PROVE TypeOK'
    BY <1>32 DEF AgentWrites
<1>33. ASSUME NEW s \in Sessions, AgentEnds(s) PROVE TypeOK'
    BY <1>33 DEF AgentEnds
<1>34. CASE LockGoesStale
    BY <1>34 DEF LockGoesStale
<1>35. CASE ServerStops
    BY <1>35 DEF ServerStops
<1>36. CASE UNCHANGED diskVars
    BY <1>36 DEF diskVars
<1>37. QED
    BY <1>1, <1>2, <1>3, <1>4, <1>5, <1>6, <1>7, <1>8, <1>9, <1>10, <1>11, <1>12,
       <1>13, <1>14, <1>15, <1>16, <1>17, <1>18, <1>19, <1>20, <1>21, <1>22, <1>23,
       <1>24, <1>25, <1>26, <1>27, <1>28, <1>29, <1>30, <1>31, <1>32, <1>33, <1>34,
       <1>35, <1>36 DEF DiskNext, CallOnSession, CallOnWorkspace

(* Each step keeps what is being made apart from what is found. *)
LEMMA MadeStep ==
    ASSUME IInv, [DiskNext]_diskVars
    PROVE  Made'
<1> USE SessionsAssumption DEF IInv, TypeOK, MakeSteps, PurgeSteps, LaunchSteps,
    FoundSteps, SessionSteps, WorkspaceSteps, disk, config, Goto, End, Calling, Entries,
    Made
<1>1. ASSUME NEW c \in Calls, NEW s \in Sessions, CreateSession(c, s) PROVE Made'
    BY <1>1 DEF CreateSession, BeginWith
<1>2. ASSUME NEW c \in Calls, NEW s \in Sessions, DeleteSession(c, s) PROVE Made'
    BY <1>2 DEF DeleteSession, BeginWith
<1>3. ASSUME NEW c \in Calls, NEW s \in Sessions, Purge(c, s) PROVE Made'
    BY <1>3 DEF Purge, BeginWith
<1>4. ASSUME NEW c \in Calls, NEW s \in Sessions, Spawn(c, s) PROVE Made'
    BY <1>4 DEF Spawn, BeginWith
<1>5. ASSUME NEW c \in Calls, Find(c, "findArchived", "archive") PROVE Made'
    BY <1>5 DEF Find
<1>6. ASSUME NEW c \in Calls, Find(c, "findPurged", "deleteState") PROVE Made'
    BY <1>6 DEF Find
<1>7. ASSUME NEW c \in Calls, Find(c, "findLaunched", "look") PROVE Made'
    BY <1>7 DEF Find
<1>8. ASSUME NEW c \in Calls, MakeDirectory(c) PROVE Made'
    BY <1>8 DEF MakeDirectory
<1>9. ASSUME NEW c \in Calls, Provision(c) PROVE Made'
    BY <1>9 DEF Provision
<1>10. ASSUME NEW c \in Calls, InsertRow(c) PROVE Made'
    BY <1>10 DEF InsertRow
<1>11. ASSUME NEW c \in Calls, Undo(c) PROVE Made'
    BY <1>11 DEF Undo
<1>12. ASSUME NEW c \in Calls, Archive(c) PROVE Made'
    BY <1>12 DEF Archive
<1>13. ASSUME NEW c \in Calls, DeleteState(c) PROVE Made'
    BY <1>13 DEF DeleteState
<1>14. ASSUME NEW c \in Calls, RemoveDirectory(c) PROVE Made'
    BY <1>14 DEF RemoveDirectory
<1>15. ASSUME NEW c \in Calls, DeleteRow(c) PROVE Made'
    BY <1>15 DEF DeleteRow
<1>16. ASSUME NEW c \in Calls, LookAtConfig(c) PROVE Made'
    BY <1>16 DEF LookAtConfig
<1>17. ASSUME NEW c \in Calls, CreateConfig(c) PROVE Made'
    BY <1>17 DEF CreateConfig
<1>18. ASSUME NEW c \in Calls, Lock(c) PROVE Made'
    BY <1>18 DEF Lock
<1>19. ASSUME NEW c \in Calls, ReadConfig(c) PROVE Made'
    BY <1>19 DEF ReadConfig
<1>20. ASSUME NEW c \in Calls, WriteConfig(c) PROVE Made'
    BY <1>20 DEF WriteConfig
<1>21. ASSUME NEW c \in Calls, Release(c) PROVE Made'
    BY <1>21 DEF Release
<1>22. ASSUME NEW c \in Calls, ConfigFails(c) PROVE Made'
    BY <1>22 DEF ConfigFails
<1>23. ASSUME NEW c \in Calls, OpenTerminal(c) PROVE Made'
    BY <1>23 DEF OpenTerminal
<1>24. ASSUME NEW c \in Calls, InsertWorkspace(c) PROVE Made'
    BY <1>24 DEF InsertWorkspace
<1>25. ASSUME NEW c \in Calls, UnregisterIt(c) PROVE Made'
    BY <1>25 DEF UnregisterIt
<1>26. ASSUME NEW c \in Calls, Wipe(c) PROVE Made'
    BY <1>26 DEF Wipe
<1>27. ASSUME NEW c \in Calls, Unlist(c) PROVE Made'
    BY <1>27 DEF Unlist
<1>28. ASSUME NEW c \in Calls, NEW w \in Workspaces, Register(c, w) PROVE Made'
    BY <1>28 DEF Register, BeginWith
<1>29. ASSUME NEW c \in Calls, NEW w \in Workspaces, Unregister(c, w) PROVE Made'
    BY <1>29 DEF Unregister, BeginWith
<1>30. ASSUME NEW c \in Calls, NEW w \in Workspaces, PurgeWorkspace(c, w) PROVE Made'
    BY <1>30 DEF PurgeWorkspace, BeginWith
<1>31. ASSUME NEW s \in Sessions, WritesOn(s) PROVE Made'
    BY <1>31 DEF WritesOn
<1>32. ASSUME NEW s \in Sessions, AgentWrites(s) PROVE Made'
    BY <1>32 DEF AgentWrites
<1>33. ASSUME NEW s \in Sessions, AgentEnds(s) PROVE Made'
    BY <1>33 DEF AgentEnds
<1>34. CASE LockGoesStale
    BY <1>34 DEF LockGoesStale
<1>35. CASE ServerStops
    BY <1>35 DEF ServerStops
<1>36. CASE UNCHANGED diskVars
    BY <1>36 DEF diskVars
<1>37. QED
    BY <1>1, <1>2, <1>3, <1>4, <1>5, <1>6, <1>7, <1>8, <1>9, <1>10, <1>11, <1>12,
       <1>13, <1>14, <1>15, <1>16, <1>17, <1>18, <1>19, <1>20, <1>21, <1>22, <1>23,
       <1>24, <1>25, <1>26, <1>27, <1>28, <1>29, <1>30, <1>31, <1>32, <1>33, <1>34,
       <1>35, <1>36 DEF DiskNext, CallOnSession, CallOnWorkspace

(* Each step leaves what is on the disk within reach. *)
LEMMA DiskStep ==
    ASSUME IInv, [DiskNext]_diskVars
    PROVE  (Emptied /\ NothingIsAbandoned)'
<1> USE SessionsAssumption DEF IInv, TypeOK, MakeSteps, PurgeSteps, LaunchSteps,
    FoundSteps, SessionSteps, WorkspaceSteps, disk, config, Goto, End, Calling, Entries,
    Made, Emptied, NothingIsLost, NothingIsAbandoned, Some, BeingMade, BeingPurged,
    BeingRemoved, SessionsOf
<1>1. ASSUME NEW c \in Calls, NEW s \in Sessions, CreateSession(c, s) PROVE (Emptied /\ NothingIsAbandoned)'
    BY <1>1 DEF CreateSession, BeginWith
<1>2. ASSUME NEW c \in Calls, NEW s \in Sessions, DeleteSession(c, s) PROVE (Emptied /\ NothingIsAbandoned)'
    BY <1>2 DEF DeleteSession, BeginWith
<1>3. ASSUME NEW c \in Calls, NEW s \in Sessions, Purge(c, s) PROVE (Emptied /\ NothingIsAbandoned)'
    BY <1>3 DEF Purge, BeginWith
<1>4. ASSUME NEW c \in Calls, NEW s \in Sessions, Spawn(c, s) PROVE (Emptied /\ NothingIsAbandoned)'
    BY <1>4 DEF Spawn, BeginWith
<1>5. ASSUME NEW c \in Calls, Find(c, "findArchived", "archive") PROVE (Emptied /\ NothingIsAbandoned)'
    BY <1>5 DEF Find
<1>6. ASSUME NEW c \in Calls, Find(c, "findPurged", "deleteState") PROVE (Emptied /\ NothingIsAbandoned)'
    BY <1>6 DEF Find
<1>7. ASSUME NEW c \in Calls, Find(c, "findLaunched", "look") PROVE (Emptied /\ NothingIsAbandoned)'
    BY <1>7 DEF Find
<1>8. ASSUME NEW c \in Calls, MakeDirectory(c) PROVE (Emptied /\ NothingIsAbandoned)'
    BY <1>8 DEF MakeDirectory
<1>9. ASSUME NEW c \in Calls, Provision(c) PROVE (Emptied /\ NothingIsAbandoned)'
    BY <1>9 DEF Provision
<1>10. ASSUME NEW c \in Calls, InsertRow(c) PROVE (Emptied /\ NothingIsAbandoned)'
    BY <1>10 DEF InsertRow
<1>11. ASSUME NEW c \in Calls, Undo(c) PROVE (Emptied /\ NothingIsAbandoned)'
    BY <1>11 DEF Undo
<1>12. ASSUME NEW c \in Calls, Archive(c) PROVE (Emptied /\ NothingIsAbandoned)'
    BY <1>12 DEF Archive
<1>13. ASSUME NEW c \in Calls, DeleteState(c) PROVE (Emptied /\ NothingIsAbandoned)'
    BY <1>13 DEF DeleteState
<1>14. ASSUME NEW c \in Calls, RemoveDirectory(c) PROVE (Emptied /\ NothingIsAbandoned)'
    BY <1>14 DEF RemoveDirectory
<1>15. ASSUME NEW c \in Calls, DeleteRow(c) PROVE (Emptied /\ NothingIsAbandoned)'
    BY <1>15 DEF DeleteRow
<1>16. ASSUME NEW c \in Calls, LookAtConfig(c) PROVE (Emptied /\ NothingIsAbandoned)'
    BY <1>16 DEF LookAtConfig
<1>17. ASSUME NEW c \in Calls, CreateConfig(c) PROVE (Emptied /\ NothingIsAbandoned)'
    BY <1>17 DEF CreateConfig
<1>18. ASSUME NEW c \in Calls, Lock(c) PROVE (Emptied /\ NothingIsAbandoned)'
    BY <1>18 DEF Lock
<1>19. ASSUME NEW c \in Calls, ReadConfig(c) PROVE (Emptied /\ NothingIsAbandoned)'
    BY <1>19 DEF ReadConfig
<1>20. ASSUME NEW c \in Calls, WriteConfig(c) PROVE (Emptied /\ NothingIsAbandoned)'
    BY <1>20 DEF WriteConfig
<1>21. ASSUME NEW c \in Calls, Release(c) PROVE (Emptied /\ NothingIsAbandoned)'
    BY <1>21 DEF Release
<1>22. ASSUME NEW c \in Calls, ConfigFails(c) PROVE (Emptied /\ NothingIsAbandoned)'
    BY <1>22 DEF ConfigFails
<1>23. ASSUME NEW c \in Calls, OpenTerminal(c) PROVE (Emptied /\ NothingIsAbandoned)'
    BY <1>23 DEF OpenTerminal
<1>24. ASSUME NEW c \in Calls, InsertWorkspace(c) PROVE (Emptied /\ NothingIsAbandoned)'
    BY <1>24 DEF InsertWorkspace
<1>25. ASSUME NEW c \in Calls, UnregisterIt(c) PROVE (Emptied /\ NothingIsAbandoned)'
    BY <1>25 DEF UnregisterIt
<1>26. ASSUME NEW c \in Calls, Wipe(c) PROVE (Emptied /\ NothingIsAbandoned)'
    BY <1>26 DEF Wipe
<1>27. ASSUME NEW c \in Calls, Unlist(c) PROVE (Emptied /\ NothingIsAbandoned)'
    BY <1>27 DEF Unlist
<1>28. ASSUME NEW c \in Calls, NEW w \in Workspaces, Register(c, w) PROVE (Emptied /\ NothingIsAbandoned)'
    BY <1>28 DEF Register, BeginWith
<1>29. ASSUME NEW c \in Calls, NEW w \in Workspaces, Unregister(c, w) PROVE (Emptied /\ NothingIsAbandoned)'
    BY <1>29 DEF Unregister, BeginWith
<1>30. ASSUME NEW c \in Calls, NEW w \in Workspaces, PurgeWorkspace(c, w) PROVE (Emptied /\ NothingIsAbandoned)'
    BY <1>30 DEF PurgeWorkspace, BeginWith
<1>31. ASSUME NEW s \in Sessions, WritesOn(s) PROVE (Emptied /\ NothingIsAbandoned)'
    BY <1>31 DEF WritesOn
<1>32. ASSUME NEW s \in Sessions, AgentWrites(s) PROVE (Emptied /\ NothingIsAbandoned)'
    BY <1>32 DEF AgentWrites
<1>33. ASSUME NEW s \in Sessions, AgentEnds(s) PROVE (Emptied /\ NothingIsAbandoned)'
    BY <1>33 DEF AgentEnds
<1>34. CASE LockGoesStale
    BY <1>34 DEF LockGoesStale
<1>35. CASE ServerStops
    BY <1>35 DEF ServerStops
<1>36. CASE UNCHANGED diskVars
    BY <1>36 DEF diskVars
<1>37. QED
    BY <1>1, <1>2, <1>3, <1>4, <1>5, <1>6, <1>7, <1>8, <1>9, <1>10, <1>11, <1>12,
       <1>13, <1>14, <1>15, <1>16, <1>17, <1>18, <1>19, <1>20, <1>21, <1>22, <1>23,
       <1>24, <1>25, <1>26, <1>27, <1>28, <1>29, <1>30, <1>31, <1>32, <1>33, <1>34,
       <1>35, <1>36 DEF DiskNext, CallOnSession, CallOnWorkspace

(* Each step keeps the file to the one that holds its lock. *)
LEMMA FileStep ==
    ASSUME IInv, [DiskNext]_diskVars
    PROVE  (Locked /\ TrustIsKept)'
<1> USE SessionsAssumption DEF IInv, TypeOK, MakeSteps, PurgeSteps, LaunchSteps,
    FoundSteps, SessionSteps, WorkspaceSteps, disk, config, Goto, End, Calling, Entries,
    Locked, NothingIsLost, TrustIsKept
<1>1. ASSUME NEW c \in Calls, NEW s \in Sessions, CreateSession(c, s) PROVE (Locked /\ TrustIsKept)'
    BY <1>1 DEF CreateSession, BeginWith
<1>2. ASSUME NEW c \in Calls, NEW s \in Sessions, DeleteSession(c, s) PROVE (Locked /\ TrustIsKept)'
    BY <1>2 DEF DeleteSession, BeginWith
<1>3. ASSUME NEW c \in Calls, NEW s \in Sessions, Purge(c, s) PROVE (Locked /\ TrustIsKept)'
    BY <1>3 DEF Purge, BeginWith
<1>4. ASSUME NEW c \in Calls, NEW s \in Sessions, Spawn(c, s) PROVE (Locked /\ TrustIsKept)'
    BY <1>4 DEF Spawn, BeginWith
<1>5. ASSUME NEW c \in Calls, Find(c, "findArchived", "archive") PROVE (Locked /\ TrustIsKept)'
    BY <1>5 DEF Find
<1>6. ASSUME NEW c \in Calls, Find(c, "findPurged", "deleteState") PROVE (Locked /\ TrustIsKept)'
    BY <1>6 DEF Find
<1>7. ASSUME NEW c \in Calls, Find(c, "findLaunched", "look") PROVE (Locked /\ TrustIsKept)'
    BY <1>7 DEF Find
<1>8. ASSUME NEW c \in Calls, MakeDirectory(c) PROVE (Locked /\ TrustIsKept)'
    BY <1>8 DEF MakeDirectory
<1>9. ASSUME NEW c \in Calls, Provision(c) PROVE (Locked /\ TrustIsKept)'
    BY <1>9 DEF Provision
<1>10. ASSUME NEW c \in Calls, InsertRow(c) PROVE (Locked /\ TrustIsKept)'
    BY <1>10 DEF InsertRow
<1>11. ASSUME NEW c \in Calls, Undo(c) PROVE (Locked /\ TrustIsKept)'
    BY <1>11 DEF Undo
<1>12. ASSUME NEW c \in Calls, Archive(c) PROVE (Locked /\ TrustIsKept)'
    BY <1>12 DEF Archive
<1>13. ASSUME NEW c \in Calls, DeleteState(c) PROVE (Locked /\ TrustIsKept)'
    BY <1>13 DEF DeleteState
<1>14. ASSUME NEW c \in Calls, RemoveDirectory(c) PROVE (Locked /\ TrustIsKept)'
    BY <1>14 DEF RemoveDirectory
<1>15. ASSUME NEW c \in Calls, DeleteRow(c) PROVE (Locked /\ TrustIsKept)'
    BY <1>15 DEF DeleteRow
<1>16. ASSUME NEW c \in Calls, LookAtConfig(c) PROVE (Locked /\ TrustIsKept)'
    BY <1>16 DEF LookAtConfig
<1>17. ASSUME NEW c \in Calls, CreateConfig(c) PROVE (Locked /\ TrustIsKept)'
    BY <1>17 DEF CreateConfig
<1>18. ASSUME NEW c \in Calls, Lock(c) PROVE (Locked /\ TrustIsKept)'
    BY <1>18 DEF Lock
<1>19. ASSUME NEW c \in Calls, ReadConfig(c) PROVE (Locked /\ TrustIsKept)'
    BY <1>19 DEF ReadConfig
<1>20. ASSUME NEW c \in Calls, WriteConfig(c) PROVE (Locked /\ TrustIsKept)'
    BY <1>20 DEF WriteConfig
<1>21. ASSUME NEW c \in Calls, Release(c) PROVE (Locked /\ TrustIsKept)'
    BY <1>21 DEF Release
<1>22. ASSUME NEW c \in Calls, ConfigFails(c) PROVE (Locked /\ TrustIsKept)'
    BY <1>22 DEF ConfigFails
<1>23. ASSUME NEW c \in Calls, OpenTerminal(c) PROVE (Locked /\ TrustIsKept)'
    BY <1>23 DEF OpenTerminal
<1>24. ASSUME NEW c \in Calls, InsertWorkspace(c) PROVE (Locked /\ TrustIsKept)'
    BY <1>24 DEF InsertWorkspace
<1>25. ASSUME NEW c \in Calls, UnregisterIt(c) PROVE (Locked /\ TrustIsKept)'
    BY <1>25 DEF UnregisterIt
<1>26. ASSUME NEW c \in Calls, Wipe(c) PROVE (Locked /\ TrustIsKept)'
    BY <1>26 DEF Wipe
<1>27. ASSUME NEW c \in Calls, Unlist(c) PROVE (Locked /\ TrustIsKept)'
    BY <1>27 DEF Unlist
<1>28. ASSUME NEW c \in Calls, NEW w \in Workspaces, Register(c, w) PROVE (Locked /\ TrustIsKept)'
    BY <1>28 DEF Register, BeginWith
<1>29. ASSUME NEW c \in Calls, NEW w \in Workspaces, Unregister(c, w) PROVE (Locked /\ TrustIsKept)'
    BY <1>29 DEF Unregister, BeginWith
<1>30. ASSUME NEW c \in Calls, NEW w \in Workspaces, PurgeWorkspace(c, w) PROVE (Locked /\ TrustIsKept)'
    BY <1>30 DEF PurgeWorkspace, BeginWith
<1>31. ASSUME NEW s \in Sessions, WritesOn(s) PROVE (Locked /\ TrustIsKept)'
    BY <1>31 DEF WritesOn
<1>32. ASSUME NEW s \in Sessions, AgentWrites(s) PROVE (Locked /\ TrustIsKept)'
    BY <1>32 DEF AgentWrites
<1>33. ASSUME NEW s \in Sessions, AgentEnds(s) PROVE (Locked /\ TrustIsKept)'
    BY <1>33 DEF AgentEnds
<1>34. CASE LockGoesStale
    BY <1>34 DEF LockGoesStale
<1>35. CASE ServerStops
    BY <1>35 DEF ServerStops
<1>36. CASE UNCHANGED diskVars
    BY <1>36 DEF diskVars
<1>37. QED
    BY <1>1, <1>2, <1>3, <1>4, <1>5, <1>6, <1>7, <1>8, <1>9, <1>10, <1>11, <1>12,
       <1>13, <1>14, <1>15, <1>16, <1>17, <1>18, <1>19, <1>20, <1>21, <1>22, <1>23,
       <1>24, <1>25, <1>26, <1>27, <1>28, <1>29, <1>30, <1>31, <1>32, <1>33, <1>34,
       <1>35, <1>36 DEF DiskNext, CallOnSession, CallOnWorkspace

(* Every step keeps the invariant. *)
LEMMA Inductive == IInv /\ [DiskNext]_diskVars => IInv'
BY TypeStep, MadeStep, DiskStep, FileStep DEF IInv, NothingIsLost

(* The types of the state, and of what each step of a call is about. *)
THEOREM TypeCorrect == DiskSpec => []TypeOK
<1>1. IInv => TypeOK
    BY DEF IInv
<1>2. QED
    BY Initially, Inductive, <1>1, PTL DEF DiskSpec

(* A directory or a state of the runtime has a row from which it can be    *)
(* purged again, and a launch takes no folder from the trusted ones.       *)
THEOREM NothingGetsLost == DiskSpec => []NothingIsLost
<1>1. IInv => NothingIsLost
    BY DEF IInv
<1>2. QED
    BY Initially, Inductive, <1>1, PTL DEF DiskSpec

-----------------------------------------------------------------------------
(* The requests of a page. *)

\* Every request is one, whatever its cursor.
Fields == {"task", "after", "latest", "get", "act"}
IsRequest(r) ==
    /\ r = [f \in Fields |-> r[f]]
    /\ r.latest \in BOOLEAN /\ r.act \in {"sent", "over"}

\* Answers are still to come for a request that counts.
Live(r) == r.latest /\ ~Settled(r)

\* At most one request counts, it is for the task that is shown, and the flag
\* is up exactly as long as it is not settled.
Asked ==
    /\ token = sel
    /\ \A r \in requests : IsRequest(r)
    /\ \A r \in requests : r.latest => r.task = sel
    /\ \A q, r \in requests : q.latest /\ r.latest => q = r
    /\ flying \in BOOLEAN /\ (flying <=> \E r \in requests : Live(r))

\* A page that does not know the status of its task has asked for it.
Owed ==
    sel # None /\ ~failed /\ known = "null" =>
        \E r \in requests : r.latest /\ r.get \in {"sent", "running", "ended"}

\* What a step makes of one request: nothing else about it changes.
Onward(r, q) ==
    /\ IsRequest(q) /\ q.task = r.task /\ q.latest = r.latest
    /\ r.act = "over" => q.act = "over"
    /\ r.get \in {"over", "failed"} => q.get = r.get

LEMMA GoesOnAsked ==
    ASSUME Asked, NEW r \in requests, NEW q, GoesOn(r, q), Onward(r, q),
           sel' = sel, token' = token
    PROVE  Asked'
<1> DEFINE kept == IF q.get \in {"over", "failed"} /\ q.act = "over" THEN {} ELSE {q}
<1>1. requests' = (requests \ {r}) \cup kept /\ kept \subseteq {q}
    BY DEF GoesOn
<1>2. \A x \in requests' : x \in requests \ {r} \/ x = q
    BY <1>1
<1>3. IsRequest(q) /\ IsRequest(r) /\ (q.latest => q.task = sel)
    BY DEF Asked, Onward
<1>4. \A x, y \in requests' : x.latest /\ y.latest => x = y
    BY <1>2 DEF Asked, Onward
<1>5. CASE ~r.latest
    <2>1. ~Live(r) /\ ~Live(q) /\ flying' = flying
        BY <1>5 DEF Live, Onward, GoesOn
    <2>2. (\E x \in requests' : Live(x)) <=> \E x \in requests : Live(x)
        BY <1>1, <2>1
    <2> QED BY <1>2, <1>3, <1>4, <2>1, <2>2 DEF Asked, Onward
<1>6. CASE r.latest
    <2>1. \A x \in requests \ {r} : ~Live(x)
        BY <1>6 DEF Asked, Live
    <2>2. Settled(q) => ~Live(q)
        BY DEF Live
    <2>3. ~Settled(q) => Live(q) /\ q \in requests' /\ ~Settled(r)
        <3>1. ~Settled(q) => kept = {q} /\ ~Settled(r)
            BY <1>3 DEF Settled, Onward, IsRequest
        <3> QED BY <1>1, <1>6, <3>1 DEF Live, Onward
    <2>4. flying' = ~Settled(q)
        <3>1. ~Settled(q) => flying
            BY <1>6, <2>3 DEF Asked, Live
        <3> QED BY <1>6, <3>1 DEF GoesOn, Asked
    <2> QED BY <1>2, <1>3, <1>4, <2>1, <2>2, <2>3, <2>4 DEF Asked, Onward
<1> QED BY <1>3, <1>5, <1>6 DEF IsRequest

\* A refresh that is not coalesced is the only one that counts.
LEMMA RefreshAsked ==
    ASSUME Asked, NEW t, NEW items, ~Coalesces(t), Refresh(t, items), sel' = t
    PROVE  /\ Asked'
           /\ \E r \in requests' : r.latest /\ r.get = "sent"
<1> DEFINE new == Request(t, items)
<1>1. token' = t /\ flying' = TRUE /\ requests' = Outdated(requests) \cup {new}
    BY DEF Refresh
<1>2. new.latest = TRUE /\ new.task = t /\ new.get = "sent" /\ IsRequest(new)
    BY DEF Request, IsRequest, Fields
<1> HIDE DEF new
<1>3. \A x \in Outdated(requests) : x.latest = FALSE /\ IsRequest(x)
    <2> SUFFICES ASSUME NEW r \in requests, NEW x, x = [r EXCEPT !.latest = FALSE]
                 PROVE  x.latest = FALSE /\ IsRequest(x)
        BY DEF Outdated
    <2>1. IsRequest(r)
        BY DEF Asked
    <2> QED BY <2>1 DEF IsRequest, Fields
<1>4. Live(new)
    BY <1>2 DEF Live, Settled
<1> QED BY <1>1, <1>2, <1>3, <1>4 DEF Asked

\* The answers a request gets.
LEMMA OnwardSteps ==
    ASSUME NEW r, IsRequest(r)
    PROVE  /\ \A v \in {"running", "ended", "over", "failed"} :
                  r.get \in {"sent", "running", "ended"} => Onward(r, [r EXCEPT !.get = v])
           /\ Onward(r, [r EXCEPT !.act = "over"])
           /\ \A v : [r EXCEPT !.get = v].get = v
           /\ [r EXCEPT !.act = "over"].get = r.get
<1>1. ASSUME NEW v \in {"running", "ended", "over", "failed"}, NEW x, x = [r EXCEPT !.get = v],
             r.get \in {"sent", "running", "ended"}
      PROVE  Onward(r, x)
    BY <1>1 DEF Onward, IsRequest, Fields
<1>2. ASSUME NEW x, x = [r EXCEPT !.act = "over"] PROVE Onward(r, x) /\ x.get = r.get
    BY <1>2 DEF Onward, IsRequest, Fields
<1>3. ASSUME NEW v, NEW x, x = [r EXCEPT !.get = v] PROVE x.get = v
    BY <1>3 DEF IsRequest, Fields
<1> QED BY <1>1, <1>2, <1>3

LEMMA StepAsked == Asked /\ [ViewNext]_viewVars => Asked'
<1> SUFFICES ASSUME Asked, [ViewNext]_viewVars PROVE Asked'
    OBVIOUS
<1>0. ASSUME UNCHANGED <<sel, token, flying, requests>> PROVE Asked'
    BY <1>0 DEF Asked, Live
<1>1. ASSUME NEW r \in requests,
             Serve(r) \/ Answered(r) \/ TaskFails(r) \/ ActivityFails(r)
      PROVE  Asked'
    <2>1. IsRequest(r) /\ sel' = sel /\ token' = token
        BY <1>1 DEF Asked, Serve, Answered, TaskAnswered, ActivityAnswered, TaskFails, ActivityFails
    <2>2. PICK q : GoesOn(r, q) /\ Onward(r, q)
        BY <1>1, <2>1, OnwardSteps
           DEF Serve, Answered, TaskAnswered, ActivityAnswered, TaskFails, ActivityFails
    <2> QED BY <2>1, <2>2, GoesOnAsked
<1>2. CASE Poll
    BY <1>2, RefreshAsked DEF Poll, Asked
<1>3. ASSUME NEW t \in Task, Select(t) PROVE Asked'
    <2>1. ~Coalesces(t) /\ Refresh(t, NoItems) /\ sel' = t
        BY <1>3 DEF Select, Coalesces, Asked
    <2> QED BY <2>1, RefreshAsked
<1>4. ASSUME NEW e \in Events, Emit(sel, e) PROVE Asked'
    BY <1>0, <1>4 DEF Emit
<1>5. CASE Finish(sel) \/ DeleteTask(sel) \/ LoadOlder \/ OlderAnswered \/ OlderFails
           \/ Connect \/ Drop \/ StreamEnds
    BY <1>0, <1>5 DEF Finish, DeleteTask, LoadOlder, OlderAnswered, OlderFails, Connect, Drop, StreamEnds, page
<1>6. CASE UNCHANGED viewVars
    BY <1>0, <1>6 DEF viewVars, page
<1> QED BY <1>1, <1>2, <1>3, <1>4, <1>5, <1>6 DEF ViewNext

\* A page that was told nothing yet goes on asking.
LEMMA StepOwed == Asked /\ Owed /\ [ViewNext]_viewVars => Owed'
<1> SUFFICES ASSUME Asked, Owed, [ViewNext]_viewVars, sel' # None, ~failed', known' = "null"
             PROVE  \E r \in requests' : r.latest /\ r.get \in {"sent", "running", "ended"}
    BY DEF Owed
<1>0. ASSUME UNCHANGED <<sel, known, failed, requests>>
      PROVE  \E r \in requests' : r.latest /\ r.get \in {"sent", "running", "ended"}
    BY <1>0 DEF Owed
<1>1. ASSUME NEW r \in requests,
             Serve(r) \/ Answered(r) \/ TaskFails(r) \/ ActivityFails(r)
      PROVE  \E x \in requests' : x.latest /\ x.get \in {"sent", "running", "ended"}
    <2>1. IsRequest(r) /\ sel' = sel
        BY <1>1 DEF Asked, Serve, Answered, TaskAnswered, ActivityAnswered, TaskFails, ActivityFails
    <2>2. TaskFails(r) => ~r.latest
        BY DEF TaskFails, Current
    <2>3. ~failed
        BY <1>1 DEF Serve, Answered, TaskAnswered, ActivityAnswered, ActivityFails, TaskFails, history
    <2>4. PICK q : /\ GoesOn(r, q) /\ Onward(r, q)
                   /\ \/ q.get \in {"sent", "running", "ended"}
                      \/ q.get = r.get \/ ~r.latest
                      \/ (TaskAnswered(r) /\ known' = IF r.latest THEN r.get ELSE known)
        <3>1. CASE TaskFails(r)
            BY <2>1, <2>2, <3>1, OnwardSteps DEF TaskFails
        <3>2. CASE Serve(r)
            <4>1. PICK v \in {"running", "ended"} : GoesOn(r, [r EXCEPT !.get = v])
                BY <3>2 DEF Serve
            <4>2. r.get \in {"sent", "running", "ended"} /\ v \in {"running", "ended", "over", "failed"}
                BY <3>2 DEF Serve
            <4>3. Onward(r, [r EXCEPT !.get = v]) /\ [r EXCEPT !.get = v].get = v
                BY <2>1, <4>2, OnwardSteps
            <4> QED BY <4>1, <4>2, <4>3
        <3>3. CASE TaskAnswered(r)
            BY <2>1, <3>3, OnwardSteps DEF TaskAnswered, Current
        <3>4. CASE ActivityAnswered(r) \/ ActivityFails(r)
            BY <2>1, <3>4, OnwardSteps DEF ActivityAnswered, ActivityFails
        <3> QED BY <1>1, <3>1, <3>2, <3>3, <3>4 DEF Answered
    <2>5. known' = known \/ (TaskAnswered(r) /\ known' = IF r.latest THEN r.get ELSE known)
        BY <1>1, <2>2 DEF Serve, Answered, TaskAnswered, ActivityAnswered, ActivityFails, TaskFails, Current
    <2>6. TaskAnswered(r) => r.get \in {"running", "ended"}
        BY DEF TaskAnswered
    <2>7. known = "null" /\ (r.latest => ~(TaskAnswered(r) /\ known' = IF r.latest THEN r.get ELSE known))
        BY <2>5, <2>6
    <2>8. PICK x \in requests : x.latest /\ x.get \in {"sent", "running", "ended"}
        BY <2>1, <2>3, <2>7 DEF Owed
    <2>9. CASE x # r
        BY <2>4, <2>8, <2>9 DEF GoesOn
    <2>10. CASE x = r
        <3>1. q.get \in {"sent", "running", "ended"} /\ q.latest
            BY <2>4, <2>7, <2>8, <2>10 DEF Onward
        <3> QED BY <2>4, <3>1 DEF GoesOn
    <2> QED BY <2>9, <2>10
<1>2. CASE Poll
    BY <1>2 DEF Poll
<1>3. ASSUME NEW t \in Task, Select(t)
      PROVE  \E x \in requests' : x.latest /\ x.get \in {"sent", "running", "ended"}
    <2>1. ~Coalesces(t) /\ Refresh(t, NoItems) /\ sel' = t
        BY <1>3 DEF Select, Coalesces, Asked
    <2> QED BY <2>1, RefreshAsked
<1>4. ASSUME NEW e \in Events, Emit(sel, e)
      PROVE  \E x \in requests' : x.latest /\ x.get \in {"sent", "running", "ended"}
    BY <1>0, <1>4 DEF Emit, history
<1>5. CASE Finish(sel) \/ DeleteTask(sel) \/ LoadOlder \/ OlderAnswered \/ OlderFails
           \/ Connect \/ Drop \/ StreamEnds
    BY <1>0, <1>5
       DEF Finish, DeleteTask, LoadOlder, OlderAnswered, OlderFails, Connect, Drop, StreamEnds, page, history
<1>6. CASE UNCHANGED viewVars
    BY <1>0, <1>6 DEF viewVars, page, history
<1> QED BY <1>1, <1>2, <1>3, <1>4, <1>5, <1>6 DEF ViewNext

LEMMA InitAsked == ViewInit => Asked /\ Owed
BY DEF ViewInit, Asked, Owed, Live

\* However quickly the user goes from task to task, and in whatever order the
\* answers come, a page that waits for nothing knows its task and is free to
\* ask again, unless a read of the task failed.
THEOREM QuietPagesKnow == ViewSpec => []QuietPageKnows
<1>1. ViewInit => Asked /\ Owed
    BY InitAsked
<1>2. Asked /\ Owed /\ [ViewNext]_viewVars => (Asked /\ Owed)'
    BY StepAsked, StepOwed
<1>3. Asked /\ Owed => QuietPageKnows
    BY DEF Asked, Owed, QuietPageKnows
<1> QED BY <1>1, <1>2, <1>3, PTL DEF ViewSpec

-----------------------------------------------------------------------------
(* What is shown. *)

AllOf(t, items) == \A s \in DOMAIN items : items[s].task = t

LEMMA OverAllOf ==
    ASSUME NEW t, NEW new, NEW old, AllOf(t, new), AllOf(t, old)
    PROVE  AllOf(t, Over(new, old))
BY DEF AllOf, Over

LEMMA OfAllOf ==
    ASSUME NEW t, NEW items, NEW sound
    PROVE  AllOf(t, Of(t, items, sound)) /\ AllOf(t, Pages(t, items))
BY DEF AllOf, Of, Pages

LEMMA StepNothingForeign == Asked /\ NothingForeign /\ [ViewNext]_viewVars => NothingForeign'
<1> SUFFICES ASSUME Asked, NothingForeign, [ViewNext]_viewVars, ~crossed', sel' # None
             PROVE  AllOf(sel', shown')
    BY DEF NothingForeign, NothingForeignAlways, AllOf
<1>0. ASSUME sel' = sel, ~crossed PROVE AllOf(sel, shown)
    BY <1>0 DEF NothingForeign, NothingForeignAlways, AllOf
<1>1. ASSUME UNCHANGED <<sel, shown, crossed>> PROVE AllOf(sel', shown')
    BY <1>0, <1>1 DEF AllOf
<1>2. ASSUME NEW e \in Events, Emit(sel, e) PROVE AllOf(sel', shown')
    <2>1. sel' = sel /\ crossed' = crossed
        BY <1>2 DEF Emit, history
    <2>2. CASE es.at = "open"
        <3>1. PICK items : shown' = Over(Of(sel, items, es.exact), shown)
            BY <1>2, <2>2 DEF Emit, Deliver
        <3> QED BY <1>0, <2>1, <3>1, OfAllOf, OverAllOf
    <2>3. CASE es.at # "open"
        BY <1>1, <1>2, <2>1, <2>3 DEF Emit
    <2> QED BY <2>2, <2>3
<1>3. ASSUME NEW r \in requests, ActivityAnswered(r) PROVE AllOf(sel', shown')
    <2>1. sel' = sel /\ crossed' = crossed
        BY <1>3 DEF ActivityAnswered, history
    <2>2. PICK items : shown' \in {shown, NoItems, Pages(r.task, items), Over(Pages(r.task, items), shown)}
        BY <1>3, Zenon DEF ActivityAnswered
    <2>3. shown' # shown => r.task = sel
        BY <1>3 DEF ActivityAnswered, Current, Asked
    <2>4. AllOf(sel, NoItems)
        BY DEF AllOf, NoItems
    <2> QED BY <1>0, <2>1, <2>2, <2>3, <2>4, OfAllOf, OverAllOf
<1>4. ASSUME NEW t \in Task, Select(t) PROVE AllOf(sel', shown')
    BY <1>4 DEF Select, AllOf, NoItems
<1>5. CASE OlderAnswered
    <2>1. sel' = sel /\ ~crossed
        <3>1. crossed' = crossed \/ crossed' = (crossed \/ older.task # sel)
            BY <1>5, Zenon DEF OlderAnswered
        <3>2. ~crossed
            BY <3>1, Zenon
        <3> QED BY <1>5, <3>2 DEF OlderAnswered
    <2>2. CASE shown' = shown
        BY <1>0, <2>1, <2>2
    <2>3. CASE shown' # shown
        <3>1. older.task = sel
            BY <1>5, <2>3 DEF OlderAnswered
        <3>2. PICK items : shown' = Over(shown, Pages(older.task, items))
            BY <1>5, <2>3 DEF OlderAnswered
        <3> QED BY <1>0, <2>1, <3>1, <3>2, OfAllOf, OverAllOf
    <2> QED BY <2>2, <2>3
<1>6. ASSUME NEW r \in requests, Serve(r) \/ TaskAnswered(r) \/ TaskFails(r) \/ ActivityFails(r)
      PROVE  AllOf(sel', shown')
    BY <1>1, <1>6 DEF Serve, TaskAnswered, TaskFails, ActivityFails, history
<1>7. CASE Finish(sel) \/ DeleteTask(sel) \/ Poll \/ LoadOlder \/ OlderFails \/ Connect \/ Drop \/ StreamEnds
    BY <1>1, <1>7 DEF Finish, DeleteTask, Poll, LoadOlder, OlderFails, Connect, Drop, StreamEnds, page, history
<1>8. CASE UNCHANGED viewVars
    BY <1>1, <1>8 DEF viewVars, page, history
<1> QED BY <1>2, <1>3, <1>4, <1>5, <1>6, <1>7, <1>8 DEF ViewNext, Answered

\* Whatever answers are late, the page shows items of the task selected only,
\* but for an older page that was asked for before a switch.
THEOREM OthersStayHidden == ViewSpec => []NothingForeign
<1>1. ViewInit => NothingForeign
    BY DEF ViewInit, NothingForeign, NothingForeignAlways
<1>2. Asked /\ NothingForeign /\ [ViewNext]_viewVars => NothingForeign'
    BY StepNothingForeign
<1> QED BY <1>1, <1>2, InitAsked, StepAsked, PTL DEF ViewSpec

-----------------------------------------------------------------------------
(* The parser.  Parse is a recursive function over the log: that there is    *)
(* one, and that it is the only one, goes by the least number for which it   *)
(* were not so.                                                             *)

LEMMA LeastNatural ==
    ASSUME NEW B \in SUBSET Nat, B # {}
    PROVE  \E n \in B : \A m \in B : n <= m
<1>1. PICK n \in B : \A m \in B : <<m, n>> \notin OpToRel(<, Nat)
    BY NatLessThanWellFounded, WFMin
<1>2. \A m \in B : ~(m < n)
    BY <1>1 DEF OpToRel
<1> QED BY <1>2

Event == [kind : Simple \cup {"done"}, call : Nat]

\* f parses the first n events of l.
Parses(f, l, n) == f = [i \in 0..n |-> IF i = 0 THEN Parser(0) ELSE ParseLine(f[i - 1], i, l[i])]

LEMMA ParserExists ==
    ASSUME NEW l, NEW n \in Nat
    PROVE  \E f : Parses(f, l, n)
<1> DEFINE B == {m \in Nat : ~ \E f : Parses(f, l, m)}
<1> SUFFICES ASSUME B # {} PROVE FALSE
    OBVIOUS
<1>1. PICK m \in B : \A k \in B : m <= k
    BY LeastNatural
<1>2. CASE m = 0
    <2>1. Parses([i \in 0..0 |-> Parser(0)], l, 0)
        BY DEF Parses
    <2> QED BY <1>2, <2>1
<1>3. CASE m # 0
    <2>1. m - 1 \in Nat /\ m - 1 \notin B /\ m \in Nat
        BY <1>1, <1>3
    <2>2. PICK f : Parses(f, l, m - 1)
        BY <2>1
    <2> DEFINE g == [i \in 0..m |-> IF i = m THEN ParseLine(f[m - 1], m, l[m]) ELSE f[i]]
    <2>3. \A i \in 0..m : g[i] = IF i = 0 THEN Parser(0) ELSE ParseLine(g[i - 1], i, l[i])
        <3> TAKE i \in 0..m
        <3>1. CASE i = m
            BY <1>3, <2>1, <3>1
        <3>2. CASE i # m
            <4>1. i \in 0..(m - 1) /\ g[i] = f[i] /\ (i # 0 => g[i - 1] = f[i - 1])
                BY <2>1, <3>2
            <4>2. f[i] = IF i = 0 THEN Parser(0) ELSE ParseLine(f[i - 1], i, l[i])
                BY <2>2, <4>1 DEF Parses
            <4> QED BY <4>1, <4>2
        <3> QED BY <3>1, <3>2
    <2>4. Parses(g, l, m)
        BY <2>3 DEF Parses
    <2> QED BY <1>1, <2>4
<1> QED BY <1>2, <1>3

\* It is the only one, on what two logs have in common.
LEMMA ParserUnique ==
    ASSUME NEW l, NEW k, NEW n \in Nat, NEW m \in Nat, n <= m, \A i \in 1..n : l[i] = k[i],
           NEW f, NEW g, Parses(f, l, n), Parses(g, k, m)
    PROVE  \A i \in 0..n : f[i] = g[i]
<1> DEFINE B == {i \in 0..n : f[i] # g[i]}
<1> SUFFICES ASSUME B # {} PROVE FALSE
    OBVIOUS
<1>1. PICK i \in B : \A j \in B : i <= j
    <2>1. B \in SUBSET Nat
        OBVIOUS
    <2> HIDE DEF B
    <2> QED BY <2>1, LeastNatural
<1>2. /\ i \in 0..n /\ i \in 0..m
      /\ f[i] = IF i = 0 THEN Parser(0) ELSE ParseLine(f[i - 1], i, l[i])
      /\ g[i] = IF i = 0 THEN Parser(0) ELSE ParseLine(g[i - 1], i, k[i])
    <2>1. i \in 0..n /\ i \in 0..m
        OBVIOUS
    <2> QED BY <2>1, Zenon DEF Parses
<1>3. i # 0
    BY <1>2
<1>4. i - 1 \in 0..n /\ i - 1 \notin B
    BY <1>1, <1>2, <1>3
<1>5. f[i - 1] = g[i - 1] /\ l[i] = k[i]
    BY <1>2, <1>3, <1>4
<1> QED BY <1>2, <1>3, <1>5

LEMMA ParseIs ==
    ASSUME NEW l, Len(l) \in Nat
    PROVE  \E f : Parses(f, l, Len(l)) /\ Parse(l) = f[Len(l)]
<1>1. PICK f : /\ f = CHOOSE g : g = [i \in 0..Len(l) |-> IF i = 0 THEN Parser(0)
                                            ELSE ParseLine(g[i - 1], i, l[i])]
               /\ Parse(l) = f[Len(l)]
    BY DEF Parse
<1>2. \E g : g = [i \in 0..Len(l) |-> IF i = 0 THEN Parser(0) ELSE ParseLine(g[i - 1], i, l[i])]
    BY ParserExists DEF Parses
<1>3. f = [i \in 0..Len(l) |-> IF i = 0 THEN Parser(0) ELSE ParseLine(f[i - 1], i, l[i])]
    BY <1>1, <1>2
<1> QED BY <1>1, <1>3 DEF Parses

\* Reading one more event is parsing one more line.
LEMMA ParseAppend ==
    ASSUME NEW l \in Seq(Event), NEW e \in Event
    PROVE  Parse(Append(l, e)) = ParseLine(Parse(l), Len(l) + 1, e)
<1> DEFINE k == Append(l, e)
           n == Len(l)
<1>1. n \in Nat /\ Len(k) = n + 1 /\ k[n + 1] = e /\ \A i \in 1..n : l[i] = k[i]
    OBVIOUS
<1>2. PICK f : Parses(f, l, n) /\ Parse(l) = f[n]
    BY <1>1, ParseIs
<1>3. PICK g : Parses(g, k, n + 1) /\ Parse(k) = g[n + 1]
    <2> Len(k) \in Nat /\ Len(k) = n + 1
        BY <1>1
    <2> HIDE DEF k
    <2> QED BY ParseIs
<1> HIDE DEF k, n
<1>4. f[n] = g[n]
    BY <1>1, <1>2, <1>3, ParserUnique
<1>5. g[n + 1] = ParseLine(g[n], n + 1, k[n + 1])
    <2>1. n + 1 \in 0..(n + 1) /\ n + 1 # 0 /\ (n + 1) - 1 = n
        BY <1>1
    <2>2. g[n + 1] = ParseLine(g[(n + 1) - 1], n + 1, k[n + 1])
        BY <1>3, <2>1, Zenon DEF Parses
    <2> QED BY <2>1, <2>2
<1> QED BY <1>1, <1>2, <1>3, <1>4, <1>5 DEF k, n

\* What a parser knows: items of the right shape under numbers it has passed.
ItemType == [at : Nat, part : {1, 2}, over : BOOLEAN]
ParserFields == {"seq", "items", "calls"}

Sound(p) ==
    /\ p = [f \in ParserFields |-> p[f]]
    /\ p.seq \in Nat
    /\ \A s \in DOMAIN p.items : s \in Nat /\ s < p.seq /\ p.items[s] \in ItemType

\* items shows only what all has under the same number, but for "over".
Agree(items, all) ==
    \A s \in DOMAIN items : s \in DOMAIN all /\ items[s].at = all[s].at /\ items[s].part = all[s].part

LEMMA ParserSound == ASSUME NEW n \in Nat PROVE Sound(Parser(n))
BY DEF Parser, NoItems, Sound, ParserFields

LEMMA CommitForm ==
    ASSUME NEW p, Sound(p), NEW item \in ItemType
    PROVE  /\ Sound(Commit(p, item))
           /\ Commit(p, item).seq = p.seq + 1
           /\ Commit(p, item).items = Put(p.items, p.seq, item)
           /\ Commit(p, item).calls = p.calls
<1> DEFINE q == Commit(p, item)
<1>0. q = [f \in ParserFields |-> q[f]]
    BY DEF Commit, Sound, ParserFields
<1>1. q.seq = p.seq + 1 /\ q.items = Put(p.items, p.seq, item) /\ q.calls = p.calls
    BY DEF Commit, Sound, ParserFields
<1> HIDE DEF q
<1>2. \A s \in DOMAIN q.items : s \in Nat /\ s < q.seq /\ q.items[s] \in ItemType
    <2> TAKE s \in DOMAIN q.items
    <2>1. s \in DOMAIN p.items \cup {p.seq} /\ q.items[s] = IF s = p.seq THEN item ELSE p.items[s]
        BY <1>1 DEF Put
    <2> QED BY <1>1, <2>1 DEF Sound
<1>3. Sound(q)
    BY <1>0, <1>1, <1>2 DEF Sound
<1> QED BY <1>1, <1>3 DEF q

LEMMA CommitGrows ==
    ASSUME NEW p, Sound(p), NEW item \in ItemType
    PROVE  Agree(p.items, Commit(p, item).items)
<1>1. \A s \in DOMAIN p.items : s # p.seq
    BY DEF Sound
<1>2. Commit(p, item).items = Put(p.items, p.seq, item)
    BY CommitForm
<1> QED BY <1>1, <1>2 DEF Agree, Put

LEMMA CommitAgree ==
    ASSUME NEW p, Sound(p), NEW w, Sound(w), NEW item \in ItemType,
           p.seq = w.seq, Agree(p.items, w.items)
    PROVE  /\ Commit(p, item).seq = Commit(w, item).seq
           /\ Agree(Commit(p, item).items, Commit(w, item).items)
<1>1. /\ Commit(p, item).seq = p.seq + 1 /\ Commit(p, item).items = Put(p.items, p.seq, item)
      /\ Commit(w, item).seq = w.seq + 1 /\ Commit(w, item).items = Put(w.items, w.seq, item)
    BY CommitForm
<1>2. Agree(Put(p.items, p.seq, item), Put(w.items, p.seq, item))
    BY DEF Agree, Put
<1> QED BY <1>1, <1>2

LEMMA AgreeTransitive ==
    ASSUME NEW a, NEW b, NEW c, Agree(a, b), Agree(b, c)
    PROVE  Agree(a, c)
BY DEF Agree

LEMMA ItemTyped ==
    ASSUME NEW i \in Nat
    PROVE  /\ Item(i, 1, TRUE) \in ItemType /\ Item(i, 2, TRUE) \in ItemType
           /\ Item(i, 2, FALSE) \in ItemType
BY DEF Item, ItemType

\* What a parser makes of each kind of event.
Asks(p, i) == Commit(Commit(p, Item(i, 1, TRUE)), Item(i, 2, FALSE))
Ends(p, c) == [p EXCEPT !.items[p.calls[c]].over = TRUE]

Remembers(p, i, n) == [p EXCEPT !.calls = Put(p.calls, i, n)]

LEMMA LineForms ==
    ASSUME NEW p, NEW i, NEW e \in Event
    PROVE  /\ e.kind = "note" => ParseLine(p, i, e) = p
           /\ e.kind = "message" \/ (e.kind = "done" /\ e.call \notin DOMAIN p.calls) =>
                  ParseLine(p, i, e) = Commit(p, Item(i, 1, TRUE))
           /\ e.kind = "thought" =>
                  ParseLine(p, i, e) = Commit(Commit(p, Item(i, 1, TRUE)), Item(i, 2, TRUE))
           /\ e.kind = "ask" =>
                  ParseLine(p, i, e) = Remembers(Asks(p, i), i, Commit(p, Item(i, 1, TRUE)).seq)
           /\ e.kind = "done" /\ e.call \in DOMAIN p.calls => ParseLine(p, i, e) = Ends(p, e.call)
<1>2. CASE e.kind = "note"
    BY <1>2 DEF ParseLine
<1>3. CASE e.kind = "message"
    BY <1>3 DEF ParseLine
<1>4. CASE e.kind = "thought"
    BY <1>4 DEF ParseLine
<1>5. CASE e.kind = "ask"
    BY <1>5 DEF ParseLine, Asks, Remembers
<1>6. CASE e.kind = "done" /\ e.call \in DOMAIN p.calls
    BY <1>6 DEF ParseLine, Ends
<1>7. CASE e.kind = "done" /\ e.call \notin DOMAIN p.calls
    BY <1>7 DEF ParseLine
<1> QED BY <1>2, <1>3, <1>4, <1>5, <1>6, <1>7 DEF Event, Simple

LEMMA EndsForm ==
    ASSUME NEW p, Sound(p), NEW c
    PROVE  /\ Sound(Ends(p, c)) /\ Ends(p, c).seq = p.seq /\ Ends(p, c).calls = p.calls
           /\ Agree(p.items, Ends(p, c).items) /\ Agree(Ends(p, c).items, p.items)
<1> DEFINE q == Ends(p, c)
           k == p.calls[c]
<1>1. /\ q = [f \in ParserFields |-> q[f]] /\ q.seq = p.seq /\ q.calls = p.calls
      /\ q.items = [p.items EXCEPT ![k].over = TRUE]
    BY DEF Ends, Sound, ParserFields
<1> HIDE DEF q, k
<1>2. DOMAIN q.items = DOMAIN p.items
    BY <1>1
<1>3. ASSUME NEW s \in DOMAIN p.items
      PROVE  q.items[s] \in ItemType /\ q.items[s].at = p.items[s].at /\ q.items[s].part = p.items[s].part
    <2>1. p.items[s] \in ItemType
        BY <1>3 DEF Sound
    <2>2. q.items[s] = IF s = k THEN [p.items[s] EXCEPT !.over = TRUE] ELSE p.items[s]
        BY <1>1, <1>3
    <2> QED BY <2>1, <2>2 DEF ItemType
<1>4. Sound(q)
    BY <1>1, <1>2, <1>3 DEF Sound
<1> QED BY <1>1, <1>2, <1>3, <1>4 DEF Agree, q

LEMMA AsksForm ==
    ASSUME NEW p, Sound(p), NEW i \in Nat, NEW n, NEW q, q = Remembers(Asks(p, i), i, n)
    PROVE  /\ Sound(q) /\ q.seq = Asks(p, i).seq /\ q.items = Asks(p, i).items
           /\ DOMAIN q.calls = DOMAIN p.calls \cup {i}
           /\ Agree(p.items, q.items)
<1> DEFINE r == Asks(p, i)
<1>1. Sound(r) /\ r.calls = p.calls /\ Agree(p.items, r.items)
    BY ItemTyped, CommitForm, CommitGrows, AgreeTransitive DEF Asks
<1>0. q = Remembers(r, i, n)
    OBVIOUS
<1> HIDE DEF r
<1>2. /\ q = [f \in ParserFields |-> q[f]]
      /\ q.seq = r.seq /\ q.items = r.items /\ q.calls = Put(r.calls, i, n)
    BY <1>0, <1>1 DEF Remembers, Sound, ParserFields
<1>3. Sound(q)
    BY <1>1, <1>2 DEF Sound
<1>4. DOMAIN q.calls = DOMAIN p.calls \cup {i}
    BY <1>1, <1>2 DEF Put
<1> QED BY <1>1, <1>2, <1>3, <1>4 DEF r

\* A line loses no item, and no call.
LEMMA LineSound ==
    ASSUME NEW p, Sound(p), NEW i \in Nat, NEW e \in Event
    PROVE  /\ Sound(ParseLine(p, i, e))
           /\ Agree(p.items, ParseLine(p, i, e).items)
           /\ DOMAIN p.calls \subseteq DOMAIN ParseLine(p, i, e).calls
           /\ e.kind = "ask" => i \in DOMAIN ParseLine(p, i, e).calls
<1> DEFINE q == ParseLine(p, i, e)
           a == Item(i, 1, TRUE)
           b == Item(i, 2, TRUE)
<1>0. a \in ItemType /\ b \in ItemType
    BY ItemTyped
<1> HIDE DEF a, b
<1>1. CASE e.kind = "note"
    <2>1. q = p
        BY <1>1, LineForms
    <2> QED BY <1>1, <2>1 DEF Agree
<1>2. CASE e.kind = "message" \/ (e.kind = "done" /\ e.call \notin DOMAIN p.calls)
    <2>1. q = Commit(p, a)
        BY <1>2, LineForms DEF a
    <2> QED BY <1>0, <1>2, <2>1, CommitForm, CommitGrows
<1>3. CASE e.kind = "thought"
    <2>1. q = Commit(Commit(p, a), b)
        BY <1>3, LineForms DEF a, b
    <2>2. Sound(Commit(p, a)) /\ Commit(p, a).calls = p.calls /\ Agree(p.items, Commit(p, a).items)
        BY <1>0, CommitForm, CommitGrows
    <2>3. /\ Sound(Commit(Commit(p, a), b)) /\ Commit(Commit(p, a), b).calls = p.calls
          /\ Agree(Commit(p, a).items, Commit(Commit(p, a), b).items)
        BY <1>0, <2>2, CommitForm, CommitGrows
    <2> QED BY <1>3, <2>1, <2>2, <2>3, AgreeTransitive
<1>4. CASE e.kind = "ask"
    <2> DEFINE n == Commit(p, Item(i, 1, TRUE)).seq
    <2>1. q = Remembers(Asks(p, i), i, n)
        BY <1>4, LineForms
    <2> HIDE DEF n, q
    <2>2. /\ Sound(q) /\ DOMAIN q.calls = DOMAIN p.calls \cup {i} /\ Agree(p.items, q.items)
        BY <2>1, AsksForm
    <2> QED BY <2>2 DEF q
<1>5. CASE e.kind = "done" /\ e.call \in DOMAIN p.calls
    <2>1. q = Ends(p, e.call)
        BY <1>5, LineForms
    <2> QED BY <1>5, <2>1, EndsForm
<1> QED BY <1>1, <1>2, <1>3, <1>4, <1>5 DEF Event, Simple

\* Two parsers that number alike go on numbering alike, if an event that ends
\* a call finds the call with both.
LEMMA LineAgree ==
    ASSUME NEW p, Sound(p), NEW w, Sound(w), NEW i \in Nat, NEW e \in Event,
           p.seq = w.seq, Agree(p.items, w.items),
           e.kind = "done" => e.call \in DOMAIN p.calls /\ e.call \in DOMAIN w.calls
    PROVE  /\ ParseLine(p, i, e).seq = ParseLine(w, i, e).seq
           /\ Agree(ParseLine(p, i, e).items, ParseLine(w, i, e).items)
<1> DEFINE q == ParseLine(p, i, e)
           v == ParseLine(w, i, e)
           a == Item(i, 1, TRUE)
           b == Item(i, 2, TRUE)
           c == Item(i, 2, FALSE)
<1>1. a \in ItemType /\ b \in ItemType /\ c \in ItemType
    BY ItemTyped
<1> HIDE DEF a, b, c
<1>2. /\ Sound(Commit(p, a)) /\ Sound(Commit(w, a))
      /\ Commit(p, a).seq = Commit(w, a).seq /\ Agree(Commit(p, a).items, Commit(w, a).items)
    BY <1>1, CommitForm, CommitAgree
<1>3. CASE e.kind = "note"
    BY <1>3, LineForms
<1>4. CASE e.kind = "message"
    <2>1. q = Commit(p, a) /\ v = Commit(w, a)
        BY <1>4, LineForms DEF a
    <2> QED BY <1>2, <2>1
<1>5. CASE e.kind = "thought"
    <2>1. q = Commit(Commit(p, a), b) /\ v = Commit(Commit(w, a), b)
        BY <1>5, LineForms DEF a, b
    <2> QED BY <1>1, <1>2, <2>1, CommitAgree
<1>6. CASE e.kind = "ask"
    <2> DEFINE n == Commit(p, Item(i, 1, TRUE)).seq
               m == Commit(w, Item(i, 1, TRUE)).seq
    <2>1. q = Remembers(Asks(p, i), i, n) /\ v = Remembers(Asks(w, i), i, m)
        BY <1>6, LineForms
    <2> HIDE DEF n, m, q, v
    <2>2. /\ Asks(p, i).seq = Asks(w, i).seq /\ Agree(Asks(p, i).items, Asks(w, i).items)
        <3>1. Asks(p, i) = Commit(Commit(p, a), c) /\ Asks(w, i) = Commit(Commit(w, a), c)
            BY DEF Asks, a, c
        <3> QED BY <1>1, <1>2, <3>1, CommitAgree
    <2>3. q.seq = Asks(p, i).seq /\ q.items = Asks(p, i).items
        BY <2>1, AsksForm
    <2>4. v.seq = Asks(w, i).seq /\ v.items = Asks(w, i).items
        BY <2>1, AsksForm
    <2> QED BY <2>2, <2>3, <2>4 DEF q, v
<1>7. CASE e.kind = "done"
    <2>1. q = Ends(p, e.call) /\ v = Ends(w, e.call)
        BY <1>7, LineForms
    <2> QED BY <2>1, EndsForm, AgreeTransitive
<1> QED BY <1>3, <1>4, <1>5, <1>6, <1>7 DEF Event, Simple

\* The parser of a whole log is sound and knows every call that was asked for.
LEMMA ParseSound ==
    ASSUME NEW l \in Seq(Event)
    PROVE  /\ Sound(Parse(l))
           /\ \A i \in DOMAIN l : l[i].kind = "ask" => i \in DOMAIN Parse(l).calls
<1> DEFINE n == Len(l)
<1>1. n \in Nat /\ DOMAIN l = 1..n /\ \A i \in 1..n : l[i] \in Event
    OBVIOUS
<1>2. PICK f : Parses(f, l, n) /\ Parse(l) = f[n]
    BY <1>1, ParseIs
<1> DEFINE Good(i) == Sound(f[i]) /\ \A j \in 1..i : l[j].kind = "ask" => j \in DOMAIN f[i].calls
           B == {i \in 0..n : ~Good(i)}
<1> HIDE DEF n
<1>3. CASE B = {}
    <2>1. Good(n)
        BY <1>1, <1>3
    <2> QED BY <1>1, <1>2, <2>1
<1>4. CASE B # {}
    <2>1. PICK i \in B : \A j \in B : i <= j
        <3>1. B \in SUBSET Nat
            BY <1>1
        <3> HIDE DEF B
        <3> QED BY <1>4, <3>1, LeastNatural
    <2>2. i \in 0..n /\ ~Good(i)
        OBVIOUS
    <2>3. f[i] = IF i = 0 THEN Parser(0) ELSE ParseLine(f[i - 1], i, l[i])
        BY <1>2, <2>2, Zenon DEF Parses
    <2>4. CASE i = 0
        <3>1. Sound(f[i])
            BY <2>3, <2>4, ParserSound
        <3> QED BY <2>2, <2>4, <3>1
    <2>5. CASE i # 0
        <3>1. i - 1 \in 0..n /\ i - 1 \notin B /\ i \in Nat /\ i \in 1..n /\ l[i] \in Event
            BY <1>1, <2>1, <2>2, <2>5
        <3>2. Good(i - 1)
            BY <3>1
        <3>3. /\ Sound(f[i]) /\ DOMAIN f[i - 1].calls \subseteq DOMAIN f[i].calls
              /\ l[i].kind = "ask" => i \in DOMAIN f[i].calls
            BY <2>3, <2>5, <3>1, <3>2, LineSound
        <3>4. \A j \in 1..i : j \in 1..(i - 1) \/ j = i
            BY <3>1
        <3> QED BY <2>2, <3>2, <3>3, <3>4
    <2> QED BY <2>4, <2>5
<1> QED BY <1>3, <1>4

-----------------------------------------------------------------------------
(* Numbers. *)

\* The item numbered s is, but for "over", the one the log has there.
Stands(s, item, l) ==
    s \in DOMAIN Items(l) /\ item.at = Items(l)[s].at /\ item.part = Items(l)[s].part

\* What is vouched for is what the log of its task has under its number.
Canonical(items, logs) ==
    \A s \in DOMAIN items :
        items[s].sound => items[s].task \in Task /\ Stands(s, items[s].item, logs[items[s].task])

\* A stream numbers as the log does, and knows the calls that are open.
Follows(p, l) ==
    /\ Sound(p) /\ p.seq = Count(l) /\ Agree(p.items, Items(l))
    /\ OpenCalls(l) \subseteq DOMAIN p.calls

EsFields == {"at", "after", "parser", "exact"}
IsEs(x) == x = [f \in EsFields |-> x[f]]

\* A stream that began where the log was goes on with the log.
Tailed ==
    /\ log \in [Task -> Seq(Event)]
    /\ sel \in Task \/ (sel = None /\ requests = {} /\ known = "null")
    /\ older = NoOlder \/ older.task \in Task
    /\ IsEs(es) /\ es.exact \in BOOLEAN
    /\ es.at = "open" /\ es.exact /\ sel # None => Follows(es.parser, log[sel])
    /\ Canonical(shown, log)

LEMMA CanonicalOver ==
    ASSUME NEW l, NEW new, NEW old, Canonical(new, l), Canonical(old, l)
    PROVE  Canonical(Over(new, old), l)
BY DEF Canonical, Over

LEMMA CanonicalOf ==
    ASSUME NEW t \in Task, NEW items, NEW sound, NEW logs,
           sound => \A s \in DOMAIN items : Stands(s, items[s], logs[t])
    PROVE  Canonical(Of(t, items, sound), logs)
BY DEF Canonical, Of

LEMMA CanonicalPage ==
    ASSUME NEW logs, NEW t \in Task, NEW from, NEW to
    PROVE  Canonical(Pages(t, Page(logs[t], from, to)), logs)
<1>1. \A s \in DOMAIN Page(logs[t], from, to) : Stands(s, Page(logs[t], from, to)[s], logs[t])
    BY DEF Stands, Page
<1> QED BY <1>1, CanonicalOf DEF Pages

LEMMA CanonicalPages ==
    ASSUME NEW logs, NEW t \in Task, NEW c, NEW limit
    PROVE  /\ Canonical(Pages(t, TailPage(logs[t], limit)), logs)
           /\ Canonical(Pages(t, AfterPage(logs[t], c, limit)), logs)
           /\ Canonical(Pages(t, BeforePage(logs[t], c, limit)), logs)
BY CanonicalPage DEF TailPage, AfterPage, BeforePage

LEMMA EventsAreEvents == Events \subseteq Event
BY BoundsAssumption DEF Events, Event, Simple

\* An event opens a call or closes one.
LEMMA OpenCallsAppend ==
    ASSUME NEW l \in Seq(Event), NEW e \in Event, NEW c \in OpenCalls(Append(l, e))
    PROVE  c \in OpenCalls(l) \/ (c = Len(l) + 1 /\ e.kind = "ask")
<1>1. /\ Len(Append(l, e)) = Len(l) + 1 /\ Append(l, e)[Len(l) + 1] = e
      /\ \A j \in 1..Len(l) : Append(l, e)[j] = l[j]
      /\ DOMAIN Append(l, e) = 1..(Len(l) + 1) /\ DOMAIN l = 1..Len(l) /\ Len(l) \in Nat
    OBVIOUS
<1>2. /\ c \in 1..(Len(l) + 1) /\ Append(l, e)[c].kind = "ask"
      /\ \A j \in 1..(Len(l) + 1) : Append(l, e)[j].call # c
    BY <1>1 DEF OpenCalls
<1> QED BY <1>1, <1>2 DEF OpenCalls

\* The whole log after one more event.
LEMMA LogGrows ==
    ASSUME NEW l \in Seq(Event), NEW e \in Event
    PROVE  /\ Sound(Parse(l)) /\ Agree(Items(l), Items(Append(l, e)))
           /\ Parse(Append(l, e)) = ParseLine(Parse(l), Len(l) + 1, e)
           /\ OpenCalls(l) \subseteq DOMAIN Parse(l).calls
<1>1. Sound(Parse(l)) /\ \A i \in DOMAIN l : l[i].kind = "ask" => i \in DOMAIN Parse(l).calls
    BY ParseSound
<1>2. Parse(Append(l, e)) = ParseLine(Parse(l), Len(l) + 1, e)
    BY ParseAppend
<1>3. Len(l) + 1 \in Nat
    OBVIOUS
<1>4. Agree(Parse(l).items, ParseLine(Parse(l), Len(l) + 1, e).items)
    BY <1>1, <1>3, LineSound
<1> QED BY <1>1, <1>2, <1>4 DEF Items, OpenCalls

\* A stream that follows the log follows it over the next event, and what it
\* yields is what the log has.
LEMMA StreamFollows ==
    ASSUME NEW l \in Seq(Event), NEW e \in Event, NEW p, Follows(p, l),
           e.kind = "done" => e.call \in OpenCalls(l)
    PROVE  /\ Follows(ParseLine(p, Len(l) + 1, e), Append(l, e))
           /\ \A s \in DOMAIN Yield(p, Len(l) + 1, e) :
                 Stands(s, Yield(p, Len(l) + 1, e)[s], Append(l, e))
<1> DEFINE i == Len(l) + 1
           k == Append(l, e)
           q == ParseLine(p, i, e)
<1>1. i \in Nat
    OBVIOUS
<1>2. /\ Sound(Parse(l)) /\ Parse(k) = ParseLine(Parse(l), i, e)
      /\ OpenCalls(l) \subseteq DOMAIN Parse(l).calls
    BY LogGrows
<1>3. \A c \in OpenCalls(k) : c \in OpenCalls(l) \/ (c = i /\ e.kind = "ask")
    BY OpenCallsAppend
<1> HIDE DEF i, k
<1>4. /\ Sound(q) /\ DOMAIN p.calls \subseteq DOMAIN q.calls
      /\ e.kind = "ask" => i \in DOMAIN q.calls
    BY <1>1, LineSound DEF Follows
<1>5. q.seq = Parse(k).seq /\ Agree(q.items, Parse(k).items)
    BY <1>1, <1>2, LineAgree DEF Follows, Count, Items
<1> HIDE DEF q
<1>6. Follows(q, k)
    BY <1>3, <1>4, <1>5 DEF Follows, Count, Items
<1>7. \A s \in DOMAIN Yield(p, i, e) : Stands(s, Yield(p, i, e)[s], k)
    <2>1. Yield(p, i, e) = [s \in {s \in DOMAIN q.items : s \notin DOMAIN p.items \/ p.items[s] # q.items[s]}
                               |-> q.items[s]]
        BY DEF Yield, q
    <2> QED BY <1>5, <2>1 DEF Stands, Agree, Items
<1> QED BY <1>6, <1>7 DEF i, k, q

\* An item the log has stays where it is.
LEMMA StandsGrows ==
    ASSUME NEW l \in Seq(Event), NEW e \in Event, NEW s, NEW item, Stands(s, item, l)
    PROVE  Stands(s, item, Append(l, e))
BY LogGrows DEF Stands, Agree

LEMMA StepTailed == Asked /\ Tailed /\ [ViewNext]_viewVars => Tailed'
<1> SUFFICES ASSUME Asked, Tailed, [ViewNext]_viewVars PROVE Tailed'
    OBVIOUS
<1>0. ASSUME UNCHANGED <<log, older>>, sel' = sel, sel \in Task \/ UNCHANGED <<requests, known>>,
             \/ es' = es
             \/ IsEs(es') /\ es'.exact \in BOOLEAN /\ es'.at # "open",
             Canonical(shown', log)
      PROVE  Tailed'
    BY <1>0 DEF Tailed
<1>1. ASSUME NEW e \in Events, Emit(sel, e) PROVE Tailed'
    <2> DEFINE l == log[sel]
    <2>1. /\ sel \in Task /\ l \in Seq(Event) /\ e \in Event
          /\ e.kind = "done" => e.call \in OpenCalls(l)
          /\ log' = [log EXCEPT ![sel] = Append(l, e)]
          /\ UNCHANGED <<sel, requests, known, older>>
        BY <1>1, EventsAreEvents DEF Emit, Tailed
    <2>2. log' \in [Task -> Seq(Event)] /\ log'[sel] = Append(l, e) /\ Len(log'[sel]) = Len(l) + 1
        BY <2>1 DEF Tailed
    <2>3. Canonical(shown, log')
        <3> SUFFICES ASSUME NEW s \in DOMAIN shown, shown[s].sound
                     PROVE  shown[s].task \in Task /\ Stands(s, shown[s].item, log'[shown[s].task])
            BY DEF Canonical
        <3>1. shown[s].task \in Task /\ Stands(s, shown[s].item, log[shown[s].task])
            BY DEF Tailed, Canonical
        <3>2. CASE shown[s].task = sel
            BY <2>1, <2>2, <3>1, <3>2, StandsGrows
        <3>3. CASE shown[s].task # sel
            BY <2>1, <3>1, <3>3 DEF Tailed
        <3> QED BY <3>2, <3>3
    <2> HIDE DEF l
    <2>4. CASE es.at # "open"
        BY <1>1, <2>1, <2>2, <2>3, <2>4 DEF Emit, Tailed
    <2>5. CASE es.at = "open"
        <3> DEFINE i == Len(l) + 1
                   yield == Yield(es.parser, i, e)
                   after == IF DOMAIN yield = {} THEN es.after ELSE Max(DOMAIN yield)
        <3>1. /\ shown' = Over(Of(sel, yield, es.exact), shown)
              /\ es' = [es EXCEPT !.parser = ParseLine(es.parser, i, e), !.after = after]
            BY <1>1, <2>2, <2>5 DEF Emit, Deliver
        <3>2. es.exact => /\ Follows(ParseLine(es.parser, i, e), Append(l, e))
                          /\ \A s \in DOMAIN yield : Stands(s, yield[s], Append(l, e))
            <4>1. es.exact /\ sel # None => Follows(es.parser, l)
                BY <2>5 DEF Tailed, l
            <4>2. sel # None
                BY <1>1 DEF Emit
            <4> QED BY <2>1, <4>1, <4>2, StreamFollows
        <3> HIDE DEF i, after, yield
        <3>3. IsEs(es') /\ es'.exact = es.exact /\ es'.parser = ParseLine(es.parser, i, e)
            BY <3>1 DEF Tailed, IsEs, EsFields
        <3>4. Canonical(shown', log')
            <4>1. es.exact => \A s \in DOMAIN yield : Stands(s, yield[s], log'[sel])
                BY <2>2, <3>2
            <4>2. Canonical(Of(sel, yield, es.exact), log')
                BY <2>1, <4>1, CanonicalOf
            <4>3. Canonical(Over(Of(sel, yield, es.exact), shown), log')
                BY <2>3, <4>2, CanonicalOver
            <4> QED BY <3>1, <4>3
        <3> QED BY <2>1, <2>2, <3>2, <3>3, <3>4 DEF Tailed
    <2> QED BY <2>4, <2>5
<1>2. \A r \in requests : sel \in Task
    BY DEF Tailed
<1>3. ASSUME NEW r \in requests, ActivityAnswered(r) PROVE Tailed'
    <2>1. UNCHANGED <<log, older, sel, es>> /\ sel \in Task
        BY <1>2, <1>3 DEF ActivityAnswered, agent
    <2>2. shown' # shown => r.task = sel
        BY <1>3 DEF ActivityAnswered, Current, Asked
    <2>3. \/ shown' = shown
          \/ shown' = NoItems
          \/ shown' = Pages(r.task, TailPage(log[r.task], Limit))
          \/ shown' = Over(Pages(r.task, AfterPage(log[r.task], r.after, Limit)), shown)
        BY <1>3 DEF ActivityAnswered
    <2>4. Canonical(NoItems, log)
        BY DEF Canonical, NoItems
    <2>5. r.task = sel => /\ Canonical(Pages(r.task, TailPage(log[r.task], Limit)), log)
                          /\ Canonical(Pages(r.task, AfterPage(log[r.task], r.after, Limit)), log)
        BY <2>1, CanonicalPages
    <2>6. r.task = sel => Canonical(Over(Pages(r.task, AfterPage(log[r.task], r.after, Limit)), shown), log)
        BY <2>5, CanonicalOver DEF Tailed
    <2>7. Canonical(shown', log)
        BY <2>2, <2>3, <2>4, <2>5, <2>6 DEF Tailed
    <2> QED BY <1>0, <2>1, <2>7
<1>4. CASE OlderAnswered
    <2>1. UNCHANGED <<log, sel, es, requests, known>> /\ older' = NoOlder /\ older.task \in Task
        BY <1>4 DEF OlderAnswered, agent, Tailed
    <2>2. \/ shown' = shown
          \/ shown' = Over(shown, Pages(older.task, BeforePage(log[older.task], older.before, Limit)))
        BY <1>4 DEF OlderAnswered
    <2>3. Canonical(Pages(older.task, BeforePage(log[older.task], older.before, Limit)), log)
        BY <2>1, CanonicalPages
    <2>4. Canonical(Over(shown, Pages(older.task, BeforePage(log[older.task], older.before, Limit))), log)
        BY <2>3, CanonicalOver DEF Tailed
    <2>5. Canonical(shown', log)
        BY <2>2, <2>4 DEF Tailed
    <2> QED BY <2>1, <2>5 DEF Tailed
<1>5. ASSUME NEW t \in Task, Select(t) PROVE Tailed'
    <2>1. log' = log /\ sel' = t /\ shown' = <<>> /\ es' = Closed /\ older' = older
        BY <1>5 DEF Select, agent, NoItems
    <2>2. Canonical(<<>>, log)
        BY DEF Canonical
    <2>3. IsEs(es') /\ es'.exact = FALSE /\ es'.at = "off"
        BY <2>1 DEF Closed, IsEs, EsFields
    <2> QED BY <2>1, <2>2, <2>3 DEF Tailed
<1>6. \A a : \A x \in {Closed, [Closed EXCEPT !.at = "closed"], Connecting(a)} :
          IsEs(x) /\ x.exact = FALSE /\ x.at # "open"
    BY DEF Closed, Connecting, IsEs, EsFields
<1>7. ASSUME NEW r \in requests, Serve(r) \/ TaskAnswered(r) \/ TaskFails(r) \/ ActivityFails(r)
      PROVE  Tailed'
    <2>1. UNCHANGED <<log, older, sel, shown>> /\ sel \in Task
        BY <1>2, <1>7 DEF Serve, TaskAnswered, TaskFails, ActivityFails, agent
    <2>2. es' \in {es, Closed, Connecting(Unknown)}
        BY <1>7 DEF Serve, TaskAnswered, TaskFails, ActivityFails, LiveTail
    <2>3. Canonical(shown', log)
        BY <2>1 DEF Tailed
    <2> QED BY <1>0, <1>6, <2>1, <2>2, <2>3
<1>8. CASE Connect
    <2>1. UNCHANGED <<log, older, sel, shown, requests, known>> /\ es.at = "connecting"
        BY <1>8 DEF Connect, agent, page
    <2>2. CASE over[sel]
        <3>1. es' = [Closed EXCEPT !.at = "closed"] /\ Canonical(shown', log)
            BY <1>8, <2>1, <2>2 DEF Connect, Tailed
        <3> QED BY <1>0, <1>6, <2>1, <3>1
    <2>3. CASE ~over[sel]
        <3> DEFINE p == Parser(StreamStart(es.after, log[sel]))
                   exact == Exact(es.after, log[sel])
        <3>1. es' = [es EXCEPT !.at = "open", !.parser = p, !.exact = exact]
            BY <1>8, <2>3 DEF Connect
        <3>2. ASSUME exact, sel # None PROVE Follows(p, log[sel])
            <4>1. /\ OpenCalls(log[sel]) = {} /\ Count(log[sel]) = StreamStart(es.after, log[sel])
                  /\ log[sel] \in Seq(Event)
                BY <3>2 DEF Exact, StreamStart, Tailed
            <4>2. Count(log[sel]) \in Nat
                BY <4>1, ParseSound DEF Count, Sound
            <4>3. Sound(p) /\ p.seq = Count(log[sel]) /\ p.items = <<>>
                BY <4>1, <4>2, ParserSound DEF Parser, NoItems
            <4> QED BY <4>1, <4>3 DEF Follows, Agree
        <3>3. exact \in BOOLEAN
            BY DEF Exact
        <3> HIDE DEF p, exact
        <3>4. IsEs(es') /\ es'.parser = p /\ es'.exact = exact
            BY <3>1 DEF Tailed, IsEs, EsFields
        <3> QED BY <2>1, <3>2, <3>3, <3>4 DEF Tailed
    <2> QED BY <2>2, <2>3
<1>9. CASE Drop \/ StreamEnds
    <2>1. UNCHANGED <<log, older, sel, shown, requests, known>>
        BY <1>9 DEF Drop, StreamEnds, agent, page
    <2>2. es' \in {[Closed EXCEPT !.at = "closed"], Connecting(es.after)}
        BY <1>9 DEF Drop, StreamEnds
    <2>3. Canonical(shown', log)
        BY <2>1 DEF Tailed
    <2> QED BY <1>0, <1>6, <2>1, <2>2, <2>3
<1>10. CASE Finish(sel) \/ DeleteTask(sel) \/ Poll \/ OlderFails \/ LoadOlder \/ UNCHANGED viewVars
    <2>1. UNCHANGED <<log, sel, shown, es, known>>
        BY <1>10 DEF Finish, DeleteTask, Poll, OlderFails, LoadOlder, viewVars, agent, page
    <2>2. older' \in {older, NoOlder} \/ (older'.task = sel /\ sel # None)
        BY <1>10 DEF Finish, DeleteTask, Poll, OlderFails, LoadOlder, viewVars
    <2>3. sel \in Task \/ requests' = requests
        BY <1>10 DEF Finish, DeleteTask, Poll, OlderFails, LoadOlder, viewVars, page, Tailed
    <2> QED BY <2>1, <2>2, <2>3 DEF Tailed
<1> QED BY <1>1, <1>3, <1>4, <1>5, <1>7, <1>8, <1>9, <1>10 DEF ViewNext, Answered

LEMMA InitTailed == ViewInit => Tailed
<1> SUFFICES ASSUME ViewInit PROVE Tailed
    OBVIOUS
<1>1. log \in [Task -> Seq(Event)]
    BY FirstAssumption DEF ViewInit, Event
<1>2. IsEs(es) /\ es.at = "off" /\ es.exact = FALSE
    BY DEF ViewInit, Closed, IsEs, EsFields
<1>3. Canonical(shown, log)
    BY DEF ViewInit, Canonical, NoItems
<1> QED BY <1>1, <1>2, <1>3 DEF Tailed, ViewInit

\* Every item that came with a page, or with a frame of a stream that began
\* where the log was, stands under the number the log of its task has it under,
\* over breaks of the stream, switches of the task, and whatever a stream that
\* began elsewhere shows beside it.
THEOREM NumbersAreExact == ViewSpec => []SeqIsExact
<1>1. Asked /\ Tailed /\ [ViewNext]_viewVars => Tailed'
    BY StepTailed
<1>2. Tailed => SeqIsExact
    BY DEF Tailed, SeqIsExact, NumberedAs, Canonical, Stands
<1> QED BY <1>1, <1>2, InitAsked, InitTailed, StepAsked, PTL DEF ViewSpec
==============================================================================
