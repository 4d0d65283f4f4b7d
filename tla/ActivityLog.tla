---------------------------- MODULE ActivityLog ----------------------------
(***************************************************************************)
(* The event log of an agent and the items that are read from it            *)
(* (packages/runtime/src/copilot/activity.ts, and the paging of             *)
(* CopilotRuntime.readActivity).  An event gives rise to no item, to one or *)
(* to two, or completes the item of an earlier tool call; items are         *)
(* numbered in the order they appear, and the number is their cursor.       *)
(***************************************************************************)
EXTENDS Naturals, Sequences

\* note: an event the timeline leaves out.  thought: thinking, then speech.
\* ask: speech that requests a tool.  done: the end of the call asked for by
\* event number "call".
Simple == {"note", "message", "thought", "ask"}

\* An item: the event it comes from, its place in it, and whether its call is over.
Item(at, part, over) == [at |-> at, part |-> part, over |-> over]
NoItems == <<>>

\* A parser that numbers from seq, with the items and the calls it knows.
Parser(seq) == [seq |-> seq, items |-> NoItems, calls |-> NoItems]

\* Map.set.
Put(map, key, value) ==
    [k \in DOMAIN map \cup {key} |-> IF k = key THEN value ELSE map[k]]

Commit(p, item) == [p EXCEPT !.items = Put(@, p.seq, item), !.seq = @ + 1]

ParseLine(p, i, e) ==
    CASE e.kind = "note" -> p
      [] e.kind = "message" -> Commit(p, Item(i, 1, TRUE))
      [] e.kind = "thought" -> Commit(Commit(p, Item(i, 1, TRUE)), Item(i, 2, TRUE))
      [] e.kind = "ask" ->
           LET q == Commit(p, Item(i, 1, TRUE))
           IN  [Commit(q, Item(i, 2, FALSE)) EXCEPT !.calls = Put(@, i, q.seq)]
      [] e.kind = "done" /\ e.call \in DOMAIN p.calls ->
           [p EXCEPT !.items[p.calls[e.call]].over = TRUE]
      [] OTHER -> Commit(p, Item(i, 1, TRUE))

\* What a line adds or changes, as the stream yields it.
Yield(p, i, e) ==
    LET q == ParseLine(p, i, e)
    IN  [s \in {s \in DOMAIN q.items : s \notin DOMAIN p.items \/ p.items[s] # q.items[s]}
            |-> q.items[s]]

\* The parser that has read the whole log.
Parse(log) ==
    LET upTo[i \in 0..Len(log)] == IF i = 0 THEN Parser(0) ELSE ParseLine(upTo[i - 1], i, log[i])
    IN  upTo[Len(log)]

Items(log) == Parse(log).items
Count(log) == Parse(log).seq

\* Calls that have been asked for and are not over.
OpenCalls(log) == {i \in DOMAIN log : /\ log[i].kind = "ask"
                                      /\ \A j \in DOMAIN log : log[j].call # i}

\* The pages of readActivity: the last items, the first ones after a cursor,
\* the last ones before it.
Page(log, from, to) == [s \in {s \in DOMAIN Items(log) : from <= s /\ s < to} |-> Items(log)[s]]
TailPage(log, limit) == Page(log, IF Count(log) > limit THEN Count(log) - limit ELSE 0, Count(log))
AfterPage(log, after, limit) == Page(log, after + 1, after + 1 + limit)
BeforePage(log, before, limit) == Page(log, IF before > limit THEN before - limit ELSE 0, before)
=============================================================================
