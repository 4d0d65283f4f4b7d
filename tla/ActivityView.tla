---------------------------- MODULE ActivityView ----------------------------
(***************************************************************************)
(* The task detail of the dashboard (hooks/useTaskDetail.ts), the routes it  *)
(* reads (server/src/routes/tasks.ts) and the live tail of the runtime       *)
(* (CopilotRuntime.streamFromBuffer): a page that shows one task at a time,  *)
(* with answers that are late, a stream that breaks and reconnects, and a    *)
(* user who goes from task to task.                                          *)
(*                                                                         *)
(* Grain.  The two reads of a refresh are answered one by one.  The status   *)
(* of the task may be old when it arrives; a page of activity is read when   *)
(* it arrives (the log only grows: an older page has fewer items, under the  *)
(* same numbers), and a frame arrives with its event.  React runs the        *)
(* effects of a change with the change.                                      *)
(***************************************************************************)
EXTENDS ActivityLog, Integers, FiniteSets, FiniteSetsExt

CONSTANTS
    Task,
    First,         \* bound: the logs there are when the dashboard is opened
    Kinds,         \* bound: the kinds of events the agents produce
    Limit,         \* TASK_ACTIVITY_DEFAULT_LIMIT, 50 in the code
    MaxEvents,     \* bound: events of all agents together
    MaxSwitches,   \* bound: how often the user selects
    MaxRequests,   \* bound: refreshes whose answers are out when the user selects
    MaxDrops,      \* bound: how often the stream breaks
    ReadsMayFail   \* may a request fail

ASSUME KindsAssumption == Kinds \subseteq Simple \cup {"done"}
ASSUME FirstAssumption == First \subseteq Seq([kind : Simple \cup {"done"}, call : Nat])
ASSUME LimitAssumption == Limit \in Nat \ {0}
ASSUME BoundsAssumption == MaxEvents \in Nat /\ MaxSwitches \in Nat /\ MaxRequests \in Nat /\ MaxDrops \in Nat
ASSUME FailAssumption == ReadsMayFail \in BOOLEAN

VARIABLES
    log, over, gone, \* buffer.events of a task, whether it has ended, who is deleted
    sel,            \* taskId
    known,          \* the status shown
    shown,          \* activity: items by number; history: is the number vouched for
    token, flying,  \* taskTokenRef, inFlightRef
    requests,       \* refreshes whose answers are out
    older,          \* loadOlder, at most one (loadingOlderRef)
    es,             \* the EventSource and, once it is open, its server side;
                    \* history: did it begin where the log was
    crossed,        \* history, since the selection: an older page of another task arrived
    failed,         \* ... the last word of a read of the task was that it failed
    switches, drops

agent == <<log, over, gone>>
page == <<sel, known, shown, token, flying>>
history == <<crossed, failed, switches, drops>>
viewVars == <<agent, page, requests, older, es, history>>

None == "none"
Unknown == -1
NoOlder == [task |-> None, before |-> 0]
Closed == [at |-> "off", after |-> Unknown, parser |-> Parser(0), exact |-> FALSE]
Connecting(after) == [at |-> "connecting", after |-> after, parser |-> Parser(0), exact |-> FALSE]

\* mergeForward, mergePrev and mergeStreamItem: by number, and who wins.
Over(new, old) ==
    [s \in DOMAIN new \cup DOMAIN old |-> IF s \in DOMAIN new THEN new[s] ELSE old[s]]

ViewInit ==
    /\ log \in [Task -> First] /\ over = [t \in Task |-> FALSE] /\ gone = {}
    /\ sel = None /\ known = "null" /\ shown = NoItems
    /\ token = None /\ flying = FALSE
    /\ requests = {} /\ older = NoOlder
    /\ es = Closed
    /\ crossed = FALSE /\ failed = FALSE
    /\ switches = 0 /\ drops = 0

-----------------------------------------------------------------------------
(* The agents.  Bound: only the task that is shown moves on; a page that is  *)
(* opened anew reads what there is.                                          *)

Appended == MapThenSumSet(LAMBDA t : Len(log[t]), Task)

Of(t, items, sound) == [s \in DOMAIN items |-> [task |-> t, item |-> items[s], sound |-> sound]]
Pages(t, items) == Of(t, items, TRUE)

\* The items of an event go to the page that tails the log; Last-Event-ID is
\* the number of the last one.
Deliver(i, e) ==
    LET items == Yield(es.parser, i, e)
    IN  /\ shown' = Over(Of(sel, items, es.exact), shown)
        /\ es' = [es EXCEPT !.parser = ParseLine(es.parser, i, e),
                            !.after = IF DOMAIN items = {} THEN @ ELSE Max(DOMAIN items)]

Events == [kind : Simple, call : {0}] \cup [kind : {"done"}, call : 1..MaxEvents]

Emit(t, e) ==
    /\ t # None /\ ~over[t] /\ Appended < MaxEvents
    /\ e.kind \in Kinds
    /\ e.kind = "done" => e.call \in OpenCalls(log[t])
    /\ log' = [log EXCEPT ![t] = Append(@, e)]
    /\ IF es.at = "open" THEN Deliver(Len(log'[t]), e) ELSE UNCHANGED <<shown, es>>
    /\ UNCHANGED <<over, gone, sel, known, token, flying, requests, older, history>>

Finish(t) ==
    /\ t # None /\ ~over[t] /\ over' = [over EXCEPT ![t] = TRUE]
    /\ UNCHANGED <<log, gone, page, requests, older, es, history>>

\* Somebody deletes the task; only one that has ended can be deleted.
DeleteTask(t) ==
    /\ t # None /\ t \notin gone /\ over[t] /\ gone' = gone \cup {t}
    /\ UNCHANGED <<log, over, page, requests, older, es, history>>

-----------------------------------------------------------------------------
(* refresh *)

\* The cursor a refresh reads from: the newest item it knows.
Newest(items) == IF DOMAIN items = {} THEN Unknown ELSE Max(DOMAIN items)

Request(t, items) ==
    [task |-> t, after |-> Newest(items), latest |-> TRUE, get |-> "sent", act |-> "sent"]

\* A newer request makes the others stale (requestSeqRef).
Outdated(rs) == {[r EXCEPT !.latest = FALSE] : r \in rs}

\* Bug: a request under way is enough, whatever task it is for.
Coalesces_AnyTask(t) == flying

\* Overlapping polls of one task are one; a task switch is let through.
Coalesces(t) == flying /\ token = t

Refresh(t, items) ==
    IF Coalesces(t) THEN UNCHANGED <<token, flying, requests>>
    ELSE /\ token' = t /\ flying' = TRUE
         /\ requests' = Outdated(requests) \cup {Request(t, items)}

\* Bug: no answer is stale.
Current_Always(r) == TRUE

\* What every continuation asks before it sets anything.
Current(r) == r.latest

Settled(r) == r.get = "failed" \/ (r.get = "over" /\ r.act = "over")

\* r goes on as q; a request both of whose answers are in is forgotten.  Only
\* the latest one gives the flag back.
GoesOn(r, q) ==
    /\ requests' = (requests \ {r}) \cup (IF q.get \in {"over", "failed"} /\ q.act = "over" THEN {} ELSE {q})
    /\ flying' = IF r.latest /\ Settled(q) THEN FALSE ELSE flying

\* getTask is served ...
Serve(r) ==
    /\ r.get = "sent" /\ r.task \notin gone
    /\ GoesOn(r, [r EXCEPT !.get = IF over[r.task] THEN "ended" ELSE "running"])
    /\ UNCHANGED <<agent, sel, known, shown, token, older, es, history>>

\* The live tail is subscribed to while the task shown is running.
LiveTail(status) ==
    es' = IF status # "running" THEN Closed
          ELSE IF es.at = "off" THEN Connecting(Unknown) ELSE es

\* ... and answered.
TaskAnswered(r) ==
    /\ r.get \in {"running", "ended"}
    /\ GoesOn(r, [r EXCEPT !.get = "over"])
    /\ known' = IF Current(r) THEN r.get ELSE known
    /\ LiveTail(known')
    /\ UNCHANGED <<agent, sel, shown, token, older, history>>

\* Only a page that was asked for without a cursor replaces what is shown.  For
\* a task that is gone the answer is 404, read as null: nothing is shown.
ActivityAnswered(r) ==
    /\ r.act = "sent"
    /\ GoesOn(r, [r EXCEPT !.act = "over"])
    /\ shown' = IF ~Current(r) THEN shown
                ELSE IF r.task \in gone THEN NoItems
                ELSE IF r.after = Unknown THEN Pages(r.task, TailPage(log[r.task], Limit))
                ELSE Over(Pages(r.task, AfterPage(log[r.task], r.after, Limit)), shown)
    /\ UNCHANGED <<agent, sel, known, token, older, es, history>>

\* A getTask that fails, or finds no task, takes the task off the page, a failed
\* read of the activity leaves what is there.
TaskFails(r) ==
    /\ ReadsMayFail \/ (r.get = "sent" /\ r.task \in gone)
    /\ r.get \in {"sent", "running", "ended"}
    /\ GoesOn(r, [r EXCEPT !.get = "failed"])
    /\ known' = IF Current(r) THEN "null" ELSE known
    /\ LiveTail(known')
    /\ failed' = (failed \/ Current(r))
    /\ UNCHANGED <<agent, sel, shown, token, older, crossed, switches, drops>>

ActivityFails(r) ==
    /\ ReadsMayFail /\ r.act = "sent"
    /\ GoesOn(r, [r EXCEPT !.act = "over"])
    /\ UNCHANGED <<agent, sel, known, shown, token, older, es, history>>

\* usePollWithBackoff: while the task shown is running.
Poll ==
    /\ known = "running" /\ ~Coalesces(sel)
    /\ Refresh(sel, shown)
    /\ UNCHANGED <<agent, sel, known, shown, older, es, history>>

-----------------------------------------------------------------------------
(* The user.  A page without a task is not mounted: no component hands the   *)
(* hook a null while it lives.                                               *)

Select(t) ==
    /\ t # sel /\ switches < MaxSwitches /\ switches' = switches + 1
    /\ Cardinality(requests) < MaxRequests
    /\ sel' = t /\ known' = "null" /\ shown' = NoItems
    /\ es' = Closed
    /\ Refresh(t, NoItems)
    /\ crossed' = FALSE /\ failed' = FALSE
    /\ UNCHANGED <<agent, older, drops>>

LoadOlder ==
    /\ sel # None /\ older = NoOlder
    /\ DOMAIN shown # {} /\ Min(DOMAIN shown) > 0
    /\ older' = [task |-> sel, before |-> Min(DOMAIN shown)]
    /\ UNCHANGED <<agent, page, requests, es, history>>

\* The page is merged into whatever is shown now, unless the task is gone.
OlderAnswered ==
    /\ older # NoOlder /\ older' = NoOlder
    /\ \/ /\ older.task \in gone
          /\ UNCHANGED <<shown, crossed>>
       \/ /\ older.task \notin gone
          /\ shown' = Over(shown, Pages(older.task, BeforePage(log[older.task], older.before, Limit)))
          /\ crossed' = (crossed \/ older.task # sel)
    /\ UNCHANGED <<agent, sel, known, token, flying, requests, es, failed, switches, drops>>

OlderFails ==
    /\ ReadsMayFail /\ older # NoOlder /\ older' = NoOlder
    /\ UNCHANGED <<agent, page, requests, es, history>>

-----------------------------------------------------------------------------
(* The live tail *)

\* Bug: the item after the one the client has is numbered as that one.
StreamStart_Inclusive(after, events) == IF after # Unknown THEN after ELSE Len(events)

\* The number of the next item: the one after Last-Event-ID, or the number of
\* events in the buffer.
StreamStart(after, events) == IF after # Unknown THEN after + 1 ELSE Len(events)

\* Whether a stream that begins now gives its items the numbers of the log: its
\* first connection does where every event so far made one item, a reconnection
\* where no item was missed, and either where no call is open.
Exact(after, events) ==
    /\ OpenCalls(events) = {}
    /\ Count(events) = IF after # Unknown THEN after + 1 ELSE Len(events)

\* A stream begins at the end of the buffer; a task that has ended has none.
Connect ==
    /\ es.at = "connecting"
    /\ es' = IF over[sel] THEN [Closed EXCEPT !.at = "closed"]
             ELSE [es EXCEPT !.at = "open", !.parser = Parser(StreamStart(es.after, log[sel])),
                             !.exact = Exact(es.after, log[sel])]
    /\ UNCHANGED <<agent, page, requests, older, history>>

Drop ==
    /\ es.at = "open" /\ drops < MaxDrops /\ drops' = drops + 1
    /\ es' = Connecting(es.after)
    /\ UNCHANGED <<agent, page, requests, older, crossed, failed, switches>>

StreamEnds ==
    /\ es.at = "open" /\ over[sel]
    /\ es' = [Closed EXCEPT !.at = "closed"]
    /\ UNCHANGED <<agent, page, requests, older, history>>

-----------------------------------------------------------------------------
Answered(r) == TaskAnswered(r) \/ ActivityAnswered(r)

ViewNext ==
    \/ \E e \in Events : Emit(sel, e)
    \/ Finish(sel) \/ DeleteTask(sel)
    \/ \E r \in requests : Serve(r) \/ Answered(r) \/ TaskFails(r) \/ ActivityFails(r)
    \/ Poll
    \/ \E t \in Task : Select(t)
    \/ LoadOlder \/ OlderAnswered \/ OlderFails
    \/ Connect \/ Drop \/ StreamEnds

ViewSpec == ViewInit /\ [][ViewNext]_viewVars

-----------------------------------------------------------------------------
(* Properties *)

\* Only the task that is selected is shown: useTaskDetail.ts drops the answers
\* of earlier requests, but for an older page that was asked for before a switch.
NothingForeignAlways == sel # None => \A s \in DOMAIN shown : shown[s].task = sel
NothingForeign == ~crossed => NothingForeignAlways

\* What is shown under a number is the item that the log of its task has there.
\* readActivity (copilot-runtime.ts:428) says that its numbers are those of
\* streamActivity, which the dashboard merges by.
NumberedAs(s) ==
    LET items == Items(log[shown[s].task])
    IN  s \in DOMAIN items /\ shown[s].item.at = items[s].at /\ shown[s].item.part = items[s].part
SeqIsCanonical == \A s \in DOMAIN shown : NumberedAs(s)

\* That holds of every item that came with a page, or with a frame of a stream
\* that began where the log was, whatever was merged in whatever order, and
\* whatever wrong frames are shown beside it.
SeqIsExact == \A s \in DOMAIN shown : shown[s].sound => NumberedAs(s)

\* A page that waits for nothing shows its task, and polls as long as that is
\* running, however quickly the user went from task to task, unless a read of
\* the task failed or found none: no switch is lost to the request of another
\* task, and no answer that is dropped keeps the flag (inFlightRef, requestSeqRef).
QuietPageKnows == sel # None /\ requests = {} /\ ~failed => known # "null" /\ ~flying
=============================================================================
