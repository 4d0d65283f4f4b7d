--------------------------- MODULE WorkflowProofs ---------------------------
(***************************************************************************)
(* Theorems about Workflow, for every value of its constants.  First what   *)
(* the graph helpers of WorkflowDag guarantee.  Then the rows: they are one *)
(* record, so most of the work is about functions from rows to rows:        *)
(* SoundRows says what every committed transaction leaves, Untouched what a *)
(* write leaves alone of the nodes that were started or are over.           *)
(***************************************************************************)
EXTENDS Workflow, FiniteSetTheorems, WellFoundedInduction, TLAPS

-----------------------------------------------------------------------------
(* The graph. *)

\* Removing edges closes no cycle (removeNode, removeEdge).
LEMMA FewerEdgesAcyclic ==
    ASSUME NEW E, NEW F, F \subseteq E, Acyclic(E)
    PROVE  Acyclic(F)
BY DEF Acyclic, ParentsOf

\* A new row with edges from existing rows only closes no cycle (addNode and
\* the two coordinator inserts).
LEMMA FreshNodeAcyclic ==
    ASSUME NEW P, NEW E \in SUBSET (P \X P), Acyclic(E),
           NEW n \in Node, n \notin P, NEW parents \in SUBSET P
    PROVE  Acyclic(E \cup (parents \X {n}))
<1> DEFINE F == E \cup (parents \X {n})
<1> SUFFICES ASSUME NEW S \in SUBSET Node, S # {},
                    \A m \in S : ParentsOf(F, m) \cap S # {}
             PROVE  FALSE
    BY DEF Acyclic
<1>1. \A m \in S \ {n} : ParentsOf(E, m) \cap (S \ {n}) # {}
    BY DEF ParentsOf
<1>2. S \ {n} # {}
    <2> SUFFICES ASSUME S = {n} PROVE FALSE
        OBVIOUS
    <2>1. ParentsOf(F, n) \cap {n} = {}
        BY DEF ParentsOf
    <2> QED BY <2>1
<1> QED BY <1>1, <1>2 DEF Acyclic

\* WouldCreateCycle is exact in the direction the code relies on: an edge it
\* lets through closes no cycle (addEdge).
THEOREM UnreachableEdgeAcyclic ==
    ASSUME NEW E, Acyclic(E), NEW from \in Node, NEW to \in Node,
           ~WouldCreateCycle(E, from, to)
    PROVE  Acyclic(E \cup {<<from, to>>})
<1> DEFINE F == E \cup {<<from, to>>}
<1> SUFFICES ASSUME NEW S \in SUBSET Node, S # {},
                    \A m \in S : ParentsOf(F, m) \cap S # {}
             PROVE  FALSE
    BY DEF Acyclic
<1>1. PICK C \in SUBSET Node : to \in C /\ Closed(E, C) /\ from \notin C
    BY DEF WouldCreateCycle, Reaches
<1>2. \A m \in S \ C : ParentsOf(E, m) \cap (S \ C) # {}
    <2> TAKE m \in S \ C
    <2>1. PICK p \in S : <<p, m>> \in F
        BY DEF ParentsOf
    <2>2. <<p, m>> \in E
        BY <1>1, <2>1
    <2>3. p \notin C
        BY <1>1, <2>2 DEF Closed
    <2> QED BY <2>1, <2>2, <2>3 DEF ParentsOf
<1>3. S \ C # {}
    <2>1. CASE to \notin S
        <3>1. \A m \in S : ParentsOf(E, m) \cap S # {}
            BY <2>1 DEF ParentsOf
        <3> QED BY <3>1 DEF Acyclic
    <2>2. CASE from \in S
        BY <2>2, <1>1
    <2>3. CASE to \in S /\ from \notin S
        <3>1. \A m \in S : ParentsOf(E, m) \cap S # {}
            BY <2>3 DEF ParentsOf
        <3> QED BY <3>1 DEF Acyclic
    <2> QED BY <2>1, <2>2, <2>3
<1> QED BY <1>2, <1>3 DEF Acyclic

\* Reachability by closed sets composes and follows edges.
LEMMA ReachesStep ==
    ASSUME NEW E \in SUBSET (Node \X Node), NEW a \in Node, NEW p \in Node, NEW n \in Node,
           <<p, n>> \in E, Reaches(E, n, a)
    PROVE  Reaches(E, p, a)
BY DEF Reaches, Closed

\* The last edge of a path: what a reaches, other than a, it reaches through
\* a parent.
LEMMA ReachesThroughParent ==
    ASSUME NEW E \in SUBSET (Node \X Node), NEW a \in Node, NEW n \in Node,
           Reaches(E, a, n), n # a
    PROVE  \E p \in ParentsOf(E, n) : Reaches(E, a, p)
<1> DEFINE R == {x \in Node : Reaches(E, a, x)}
<1> SUFFICES ASSUME \A p \in ParentsOf(E, n) : ~Reaches(E, a, p)
             PROVE  FALSE
    OBVIOUS
<1>1. a \in R \ {n}
    BY DEF Reaches
<1>2. Closed(E, R \ {n})
    <2> SUFFICES ASSUME NEW e \in E, e[1] \in R \ {n}
                 PROVE  e[2] \in R \ {n}
        BY DEF Closed
    <2>1. e = <<e[1], e[2]>> /\ e[1] \in Node /\ e[2] \in Node
        OBVIOUS
    <2>2. e[2] # n
        BY <2>1 DEF ParentsOf
    <2>3. Reaches(E, a, e[2])
        BY <2>1 DEF Reaches, Closed
    <2> QED BY <2>1, <2>2, <2>3
<1>3. R \ {n} \in SUBSET Node /\ n \notin R \ {n}
    OBVIOUS
<1> HIDE DEF R
<1> QED BY <1>1, <1>2, <1>3 DEF Reaches

\* The other direction of wouldCreateCycle: an edge it rejects would close a
\* cycle, so addEdge refuses no edge it could accept.
THEOREM RejectedEdgeCyclic ==
    ASSUME NEW E \in SUBSET (Node \X Node), NEW from \in Node, NEW to \in Node,
           WouldCreateCycle(E, from, to)
    PROVE  ~Acyclic(E \cup {<<from, to>>})
<1> DEFINE F == E \cup {<<from, to>>}
           S == {x \in Node : Reaches(E, to, x) /\ Reaches(E, x, from)}
<1>1. CASE from = to
    <2>1. from \in ParentsOf(F, from)
        BY <1>1 DEF ParentsOf
    <2>2. {from} \in SUBSET Node /\ \A n \in {from} : ParentsOf(F, n) \cap {from} # {}
        BY <2>1
    <2> QED BY <2>2 DEF Acyclic
<1>2. CASE Reaches(E, to, from)
    <2>1. \A x \in Node : Reaches(E, x, x)
        BY DEF Reaches
    <2>2. from \in S /\ to \in S
        BY <1>2, <2>1
    <2>3. ASSUME NEW n \in S PROVE ParentsOf(F, n) \cap S # {}
        <3>1. CASE n = to
            BY <2>2, <3>1 DEF ParentsOf
        <3>2. CASE n # to
            <4>1. PICK p \in ParentsOf(E, n) : Reaches(E, to, p)
                BY <3>2, ReachesThroughParent
            <4>2. p \in Node /\ <<p, n>> \in E
                BY DEF ParentsOf
            <4>3. p \in S
                BY <4>1, <4>2, ReachesStep
            <4> QED BY <4>2, <4>3 DEF ParentsOf
        <3> QED BY <3>1, <3>2
    <2>4. S \in SUBSET Node
        OBVIOUS
    <2> HIDE DEF S
    <2> QED BY <2>2, <2>3, <2>4 DEF Acyclic
<1> QED BY <1>1, <1>2 DEF WouldCreateCycle

\* A graph without a cycle has a leaf: of the sets of nodes that each have a
\* child in the set the smallest would have a node without a parent in it, and
\* be no smaller than itself without that node.
LEMMA LeafExists ==
    ASSUME NEW P \in SUBSET Node, P # {}, NEW E \in SUBSET (P \X P), Acyclic(E)
    PROVE  StructuralLeaves(P, E) # {}
<1> DEFINE Sinkless == {S \in FiniteSubsetsOf(Node) : S # {} /\ \A n \in S : ChildrenOf(E, n) \cap S # {}}
<1> SUFFICES ASSUME StructuralLeaves(P, E) = {} PROVE FALSE
    OBVIOUS
<1>1. IsFiniteSet(Node)
    BY FS_Interval, MaxNodesAssumption DEF Node
<1>2. P \in Sinkless
    <2>1. IsFiniteSet(P)
        BY <1>1, FS_Subset
    <2>2. \A n \in P : ChildrenOf(E, n) \cap P # {}
        BY DEF StructuralLeaves, ChildrenOf
    <2> QED BY <2>1, <2>2 DEF FiniteSubsetsOf
<1>3. PICK S \in Sinkless : \A T \in Sinkless : <<T, S>> \notin StrictSubsetOrdering(Node)
    <2>1. Sinkless \subseteq FiniteSubsetsOf(Node) /\ Sinkless # {}
        BY <1>2
    <2> HIDE DEF Sinkless
    <2> QED BY <2>1, FS_StrictSubsetOrderingWellFounded, WFMin
<1>4. PICK s \in S : ParentsOf(E, s) \cap S = {}
    BY <1>3 DEF Acyclic, FiniteSubsetsOf
<1> DEFINE T == S \ {s}
<1>5. \A n \in S : ChildrenOf(E, n) \cap T # {}
    <2> TAKE n \in S
    <2>1. PICK c \in S : <<n, c>> \in E
        BY <1>3 DEF ChildrenOf
    <2>2. c # s /\ c \in Node
        BY <1>3, <1>4, <2>1 DEF ParentsOf, FiniteSubsetsOf
    <2> QED BY <2>1, <2>2 DEF ChildrenOf
<1>6. T \in Sinkless
    <2>1. IsFiniteSet(T)
        BY <1>3, FS_RemoveElement DEF FiniteSubsetsOf
    <2> QED BY <1>3, <1>5, <2>1 DEF FiniteSubsetsOf
<1>7. <<T, S>> \in StrictSubsetOrdering(Node)
    BY <1>3 DEF StrictSubsetOrdering, FiniteSubsetsOf
<1> QED BY <1>3, <1>6, <1>7

-----------------------------------------------------------------------------
(* The rows. *)

\* TypeOK and RootedDag of rows d, and what the detector needs to know of
\* lastEnded to hang a retry below it.
SoundRows(d) ==
    /\ d \in Rows
    /\ \A n \in Node : n > d.lastId => d.status[n] = "absent"
    /\ d.lastEnded # 0 => d.lastEnded \in Coords(d) /\ IsOver(d, d.lastEnded)
    /\ \A e \in d.edges : {e[1], e[2]} \subseteq Present(d)
    /\ Acyclic(d.edges)
    /\ \A n \in Present(d) \ {1} : ParentsOf(d.edges, n) # {}

\* From rows d to rows e the nodes that have left not_started keep what
\* SealedStep says they keep.
Untouched(d, e) ==
    \A n \in Node : d.status[n] \in {"running"} \cup Terminal =>
         /\ d.status[n] # "cancelled" => ParentsOf(e.edges, n) = ParentsOf(d.edges, n)
         /\ e.kind[n] = d.kind[n] /\ e.agent[n] = d.agent[n]
         /\ e.attempt[n] = d.attempt[n] /\ e.retryOf[n] = d.retryOf[n]
         /\ IF IsOver(d, n) THEN e.status[n] = d.status[n]
                            ELSE e.status[n] \in {"running"} \cup Terminal

-----------------------------------------------------------------------------
(* The writes preserve soundness. *)

LEMMA NoRowsSound == SoundRows(NoRows)
<1>1. NoRows \in Rows
    BY MaxNodesAssumption, RetryAssumption
       DEF NoRows, Rows, WorkflowStatus, NodeKind, NodeStatus
<1>2. Acyclic({})
    BY DEF Acyclic, ParentsOf
<1> QED BY <1>1, <1>2 DEF SoundRows, NoRows, Present

LEMMA InsertSound ==
    ASSUME NEW d, SoundRows(d), NEW n \in Node, n = d.lastId + 1,
           NEW k \in NodeKind, NEW a \in Agents \cup {NoAgent},
           NEW parents \in SUBSET Present(d), parents # {} \/ n = 1
    PROVE  /\ SoundRows(Insert(d, n, k, a, parents))
           /\ d.status[n] = "absent"
<1> DEFINE e == Insert(d, n, k, a, parents)
<1>1. d.status[n] = "absent" /\ d.lastId \in Nat /\ n \notin Present(d)
    BY DEF SoundRows, Rows, Present, Node
<1>2. e \in Rows
    <2>1. n \in 0..MaxNodes /\ "not_started" \in NodeStatus
        BY MaxNodesAssumption DEF Node, NodeStatus
    <2>2. parents \X {n} \subseteq Node \X Node
        BY DEF Present
    <2>3. d \in Rows
        BY DEF SoundRows
    <2> HIDE DEF e
    <2> QED BY <2>1, <2>2, <2>3 DEF e, Rows, Insert
<1>3. /\ e.status = [d.status EXCEPT ![n] = "not_started"]
      /\ e.kind = [d.kind EXCEPT ![n] = k]
      /\ e.edges = d.edges \cup (parents \X {n})
      /\ e.lastId = n
      /\ e.lastEnded = d.lastEnded
    BY DEF SoundRows, Rows, Insert
<1>4. Present(e) = Present(d) \cup {n}
    BY <1>3 DEF SoundRows, Rows, Present
<1>5. \A m \in Node : m > e.lastId => e.status[m] = "absent"
    <2>1. \A m \in Node : m > n => m # n /\ m > d.lastId
        BY <1>1 DEF Node
    <2> QED BY <1>3, <2>1 DEF SoundRows, Rows
<1>6. e.lastEnded # 0 => e.lastEnded \in Coords(e) /\ IsOver(e, e.lastEnded)
    BY <1>1, <1>3, <1>4 DEF SoundRows, Rows, Coords, IsOver, Present, Terminal
<1>7. \A f \in e.edges : {f[1], f[2]} \subseteq Present(e)
    BY <1>3, <1>4 DEF SoundRows
<1>8. Acyclic(e.edges)
    <2>1. d.edges \in SUBSET (Node \X Node) /\ \A f \in d.edges : {f[1], f[2]} \subseteq Present(d)
        BY DEF SoundRows, Rows
    <2>2. d.edges \in SUBSET (Present(d) \X Present(d))
        BY <2>1
    <2>3. Acyclic(d.edges)
        BY DEF SoundRows
    <2>4. Acyclic(d.edges \cup (parents \X {n}))
        BY <1>1, <2>2, <2>3, FreshNodeAcyclic
    <2> QED BY <1>3, <2>4
<1>9. ASSUME NEW m \in Present(e) \ {1} PROVE ParentsOf(e.edges, m) # {}
    <2>1. CASE m \in Present(d)
        <3>1. PICK p \in ParentsOf(d.edges, m) : TRUE
            BY <2>1 DEF SoundRows
        <3>2. p \in ParentsOf(e.edges, m)
            BY <1>3, <3>1 DEF ParentsOf
        <3> QED BY <3>2
    <2>2. CASE m = n
        <3>1. PICK p \in parents : p \in Node
            BY <2>2 DEF Present
        <3>2. p \in ParentsOf(e.edges, m)
            BY <1>3, <2>2, <3>1 DEF ParentsOf
        <3> QED BY <3>2
    <2> QED BY <1>4, <2>1, <2>2
<1> HIDE DEF e
<1> QED BY <1>1, <1>2, <1>5, <1>6, <1>7, <1>8, <1>9 DEF SoundRows, e

\* Soundness is about the graph, the kinds and the statuses only.
LEMMA SameGraphSound ==
    ASSUME NEW f, SoundRows(f), NEW e \in Rows,
           e.lastId = f.lastId, e.lastEnded = f.lastEnded, e.edges = f.edges,
           e.kind = f.kind, e.status = f.status
    PROVE  SoundRows(e)
BY DEF SoundRows, Coords, IsOver, Present

\* insertCoordNodeInTx and insertCoordRetryNodeInTx.
LEMMA InsertCoordSound ==
    ASSUME NEW d, SoundRows(d), NEW n \in Node, n = d.lastId + 1,
           NEW a \in Agents \cup {NoAgent},
           NEW parents \in SUBSET Present(d), parents # {} \/ n = 1
    PROVE  SoundRows(InsertCoord(d, n, a, parents))
<1> DEFINE f == Insert(d, n, "coordinator", a, parents)
           e == InsertCoord(d, n, a, parents)
<1>1. SoundRows(f)
    BY InsertSound DEF NodeKind
<1>2. /\ e \in Rows
      /\ e.lastId = f.lastId /\ e.lastEnded = f.lastEnded /\ e.edges = f.edges
      /\ e.kind = f.kind /\ e.status = f.status
    <2> f \in Rows
        BY <1>1 DEF SoundRows
    <2> HIDE DEF f
    <2> e = [f EXCEPT !.coordAgent = a]
        BY DEF InsertCoord, f
    <2> HIDE DEF e
    <2> QED BY DEF Rows
<1> QED BY <1>1, <1>2, SameGraphSound

LEMMA InsertCoordRetrySound ==
    ASSUME NEW d, SoundRows(d), NEW n \in Node, n = d.lastId + 1,
           NEW of \in Node, NEW attempt \in 0..StuckRetryMaxAttempts,
           NEW parents \in SUBSET Present(d), parents # {} \/ n = 1
    PROVE  SoundRows(InsertCoordRetry(d, n, of, attempt, parents))
<1> DEFINE f == InsertCoord(d, n, d.agent[of], parents)
           e == InsertCoordRetry(d, n, of, attempt, parents)
<1>1. SoundRows(f)
    <2> d.agent[of] \in Agents \cup {NoAgent}
        BY DEF SoundRows, Rows
    <2> QED BY InsertCoordSound
<1>2. /\ e \in Rows
      /\ e.lastId = f.lastId /\ e.lastEnded = f.lastEnded /\ e.edges = f.edges
      /\ e.kind = f.kind /\ e.status = f.status
    <2> f \in Rows /\ of \in 0..MaxNodes
        BY <1>1, MaxNodesAssumption DEF SoundRows, Node
    <2> HIDE DEF f
    <2> e = [f EXCEPT !.attempt[n] = attempt, !.retryOf[n] = of]
        BY DEF InsertCoordRetry, f
    <2> HIDE DEF e
    <2> QED BY DEF Rows
<1> QED BY <1>1, <1>2, SameGraphSound

-----------------------------------------------------------------------------
(* The stuck detector adds to the rows and changes none but the header. *)

\* Every row of d is in e as it was, with the same edges into it.
Extends(d, e) ==
    \A n \in Present(d) :
        /\ ParentsOf(e.edges, n) = ParentsOf(d.edges, n)
        /\ e.status[n] = d.status[n] /\ e.kind[n] = d.kind[n] /\ e.agent[n] = d.agent[n]
        /\ e.attempt[n] = d.attempt[n] /\ e.retryOf[n] = d.retryOf[n]

LEMMA InsertExtends ==
    ASSUME NEW d \in Rows, NEW n \in Node, n \notin Present(d),
           NEW k, NEW a, NEW parents
    PROVE  Extends(d, Insert(d, n, k, a, parents))
BY DEF Extends, Insert, Rows, Present, ParentsOf

LEMMA InsertCoordExtends ==
    ASSUME NEW d \in Rows, NEW n \in Node, n \notin Present(d), NEW a, NEW parents
    PROVE  Extends(d, InsertCoord(d, n, a, parents))
<1> DEFINE f == Insert(d, n, "coordinator", a, parents)
<1>1. Extends(d, f)
    BY InsertExtends
<1> DEFINE g == InsertCoord(d, n, a, parents)
<1>2. /\ g.edges = f.edges /\ g.status = f.status /\ g.kind = f.kind
      /\ g.agent = f.agent /\ g.attempt = f.attempt /\ g.retryOf = f.retryOf
    BY DEF InsertCoord, Insert, Rows
<1> HIDE DEF f, g
<1>3. Extends(d, g)
    BY <1>1, <1>2 DEF Extends
<1> QED BY <1>3 DEF g

\* What the detector needs of its input to insert a retry.
LEMMA StuckFacts ==
    ASSUME NEW d, SoundRows(d), Stuck(d), ~CapReached(d), RetryNode(d) <= MaxNodes
    PROVE  /\ RetryNode(d) \in Node /\ RetryNode(d) = d.lastId + 1
           /\ d.lastEnded \in Coords(d) /\ d.lastEnded \in Node
           /\ NextAttempt(d) \in 1..StuckRetryMaxAttempts
           /\ {d.lastEnded} \cup Leaves(d) \in SUBSET Present(d)
<1>1. d.lastId \in 0..MaxNodes /\ d.attempt \in [Node -> 0..StuckRetryMaxAttempts]
    BY DEF SoundRows, Rows
<1>2. RetryNode(d) = d.lastId + 1
    BY DEF RetryNode
<1>3. RetryNode(d) \in Node
    BY <1>1, <1>2, MaxNodesAssumption DEF Node
<1>4. d.lastEnded \in Coords(d)
    BY DEF SoundRows, Stuck
<1>5. d.lastEnded \in Node /\ d.lastEnded \in Present(d)
    BY <1>4 DEF Coords, Present
<1>6. NextAttempt(d) \in 1..StuckRetryMaxAttempts
    BY <1>1, <1>5, RetryAssumption DEF NextAttempt, CapReached
<1> QED BY <1>2, <1>3, <1>4, <1>5, <1>6 DEF Leaves, StructuralLeaves

LEMMA DetectorSound ==
    ASSUME NEW d, SoundRows(d), RetryNode(d) <= MaxNodes
    PROVE  SoundRows(CheckStuckAndRecover(d))
<1>1. CASE ~Stuck(d)
    BY <1>1 DEF CheckStuckAndRecover
<1>2. CASE Stuck(d) /\ CapReached(d)
    <2>1. CheckStuckAndRecover(d) = [d EXCEPT !.wf = "failed"]
        BY <1>2 DEF CheckStuckAndRecover
    <2> DEFINE e == [d EXCEPT !.wf = "failed"]
    <2>2. /\ e \in Rows
          /\ e.lastId = d.lastId /\ e.lastEnded = d.lastEnded /\ e.edges = d.edges
          /\ e.kind = d.kind /\ e.status = d.status
        BY DEF SoundRows, Rows, WorkflowStatus
    <2> HIDE DEF e
    <2>3. SoundRows(e)
        BY <2>2, SameGraphSound
    <2> QED BY <2>1, <2>3 DEF e
<1>3. CASE Stuck(d) /\ ~CapReached(d)
    <2>1. CheckStuckAndRecover(d) = InsertCoordRetry(d, RetryNode(d), d.lastEnded,
                                        NextAttempt(d), {d.lastEnded} \cup Leaves(d))
        BY <1>3 DEF CheckStuckAndRecover
    <2>2. NextAttempt(d) \in 0..StuckRetryMaxAttempts
        BY <1>3, StuckFacts, RetryAssumption
    <2> QED BY <1>3, <2>1, <2>2, StuckFacts, InsertCoordRetrySound
<1> QED BY <1>1, <1>2, <1>3

LEMMA DetectorExtends ==
    ASSUME NEW d, SoundRows(d), RetryNode(d) <= MaxNodes
    PROVE  /\ Extends(d, CheckStuckAndRecover(d))
           /\ CheckStuckAndRecover(d).lastEnded = d.lastEnded
<1> d \in Rows
    BY DEF SoundRows
<1>1. CASE ~Stuck(d)
    BY <1>1 DEF CheckStuckAndRecover, Extends
<1>2. CASE Stuck(d) /\ CapReached(d)
    BY <1>2 DEF CheckStuckAndRecover, Extends, Rows
<1>3. CASE Stuck(d) /\ ~CapReached(d)
    <2> DEFINE n == RetryNode(d)
               f == InsertCoord(d, n, d.agent[d.lastEnded], {d.lastEnded} \cup Leaves(d))
    <2>1. n \in Node /\ n \notin Present(d)
        <3>1. n \in Node /\ n = d.lastId + 1 /\ d.lastId \in 0..MaxNodes
            BY <1>3, StuckFacts DEF Rows
        <3>2. n > d.lastId
            BY <3>1
        <3> QED BY <3>1, <3>2 DEF SoundRows, Present
    <2>2. Extends(d, f)
        BY <2>1, InsertCoordExtends
    <2>3. f \in Rows
        <3> d.agent[d.lastEnded] \in Agents \cup {NoAgent}
            BY <1>3, StuckFacts DEF Rows
        <3> QED BY <1>3, StuckFacts, InsertCoordSound DEF SoundRows
    <2>4. CheckStuckAndRecover(d) = [f EXCEPT !.attempt[n] = NextAttempt(d),
                                              !.retryOf[n] = d.lastEnded]
        BY <1>3 DEF CheckStuckAndRecover, InsertCoordRetry
    <2>5. f.lastEnded = d.lastEnded
        BY DEF InsertCoord, Insert, Rows
    <2> HIDE DEF f, n
    <2> QED BY <2>1, <2>2, <2>3, <2>4, <2>5 DEF Extends, Rows, Present
<1> QED BY <1>1, <1>2, <1>3

-----------------------------------------------------------------------------
(* What every transaction but a dispatch keeps. *)

Started == {"running", "succeeded", "failed"}

Justified(d) ==
    \A n \in Node : d.status[n] \in Started
        => ParentsReadyForKind(d.kind, d.status, d.edges, n)

\* Ids are not used again, and a new one is that of a node not yet started.
Grows(d, e) ==
    /\ d.lastId <= e.lastId
    /\ \A n \in Node : IF n <= d.lastId THEN d.status[n] = "absent" => e.status[n] = "absent"
                       ELSE n <= e.lastId => e.status[n] = "not_started"

\* RetryChain of rows d; a row that is gone has no retry data.
Chained(d) ==
    /\ \A m, n \in {r \in Node : d.attempt[r] > 0 /\ IsPending(d, r)} : m = n
    /\ \A n \in Node : d.attempt[n] > 0 =>
          /\ d.status[n] # "absent"
          /\ d.retryOf[n] \in Coords(d) /\ IsOver(d, d.retryOf[n])
          /\ d.attempt[n] = d.attempt[d.retryOf[n]] + 1

\* A write that makes no retry keeps the chain.
LEMMA RetriesChain ==
    ASSUME NEW d \in Rows, NEW e \in Rows, Untouched(d, e),
           \A n \in Node : e.attempt[n] > 0 =>
               /\ e.attempt[n] = d.attempt[n] /\ e.retryOf[n] = d.retryOf[n]
               /\ d.status[n] # "absent" => e.status[n] # "absent"
    PROVE  Chained(d) => Chained(e)
<1> SUFFICES ASSUME Chained(d) PROVE Chained(e)
    OBVIOUS
<1>1. ASSUME NEW n \in Node, e.attempt[n] > 0
      PROVE  /\ d.attempt[n] > 0 /\ e.status[n] # "absent"
             /\ e.retryOf[n] \in Coords(e) /\ IsOver(e, e.retryOf[n])
             /\ e.attempt[n] = e.attempt[e.retryOf[n]] + 1
             /\ IsPending(e, n) => IsPending(d, n)
    <2>1. /\ e.attempt[n] = d.attempt[n] /\ e.retryOf[n] = d.retryOf[n]
          /\ d.attempt[n] > 0
        BY <1>1
    <2>2. /\ d.status[n] # "absent" /\ e.status[n] # "absent"
          /\ d.retryOf[n] \in Coords(d) /\ IsOver(d, d.retryOf[n])
          /\ d.attempt[n] = d.attempt[d.retryOf[n]] + 1
        BY <1>1, <2>1 DEF Chained
    <2> DEFINE of == d.retryOf[n]
    <2>3. of \in Node /\ d.kind[of] = "coordinator" /\ d.status[of] \in Terminal
        BY <2>2 DEF Coords, Present, IsOver
    <2> HIDE DEF of
    <2>4. e.kind[of] = d.kind[of] /\ e.status[of] = d.status[of] /\ e.attempt[of] = d.attempt[of]
        BY <2>3 DEF Untouched, IsOver
    <2>5. of \in Coords(e) /\ IsOver(e, of)
        BY <2>3, <2>4 DEF Coords, Present, IsOver, Terminal
    <2>6. IsPending(e, n) => IsPending(d, n)
        <3>1. d.status[n] \in NodeStatus
            BY DEF Rows
        <3> QED BY <2>2, <3>1 DEF Untouched, IsPending, IsOver, NodeStatus, Terminal
    <2> QED BY <2>1, <2>2, <2>4, <2>5, <2>6 DEF of
<1> QED BY <1>1 DEF Chained

\* Nor does one that leaves the retry data alone and removes no row.
LEMMA SameRetriesChain ==
    ASSUME NEW d \in Rows, NEW e \in Rows, Untouched(d, e),
           e.attempt = d.attempt, e.retryOf = d.retryOf,
           \A n \in Node : d.status[n] # "absent" => e.status[n] # "absent"
    PROVE  Chained(d) => Chained(e)
BY RetriesChain

\* The detector adds the next link: every row is over, so no retry is pending.
LEMMA DetectorChain ==
    ASSUME NEW d, SoundRows(d), RetryNode(d) <= MaxNodes
    PROVE  Chained(d) => Chained(CheckStuckAndRecover(d))
<1> SUFFICES ASSUME Chained(d) PROVE Chained(CheckStuckAndRecover(d))
    OBVIOUS
<1> DEFINE e == CheckStuckAndRecover(d)
<1> d \in Rows
    BY DEF SoundRows
<1>1. CASE ~Stuck(d)
    BY <1>1 DEF CheckStuckAndRecover
<1>2. CASE Stuck(d) /\ CapReached(d)
    <2>1. /\ e.attempt = d.attempt /\ e.retryOf = d.retryOf /\ e.status = d.status
          /\ e.kind = d.kind
        BY <1>2 DEF CheckStuckAndRecover, Rows
    <2> HIDE DEF e
    <2>2. Coords(e) = Coords(d) /\ \A n \in Node : IsPending(e, n) <=> IsPending(d, n)
        BY <2>1 DEF Coords, Present, IsPending
    <2>3. \A n : IsOver(e, n) <=> IsOver(d, n)
        BY <2>1 DEF IsOver
    <2>4. Chained(e)
        BY <2>1, <2>2, <2>3, Zenon DEF Chained
    <2> QED BY <2>4 DEF e
<1>3. CASE Stuck(d) /\ ~CapReached(d)
    <2> DEFINE n == RetryNode(d)
    <2>1. n \in Node /\ n = d.lastId + 1 /\ d.lastId \in Nat
        BY <1>3, StuckFacts DEF Rows
    <2>2. n > d.lastId
        BY <2>1
    <2>3. d.status[n] = "absent"
        BY <2>1, <2>2 DEF SoundRows
    <2>4. /\ e.attempt = [d.attempt EXCEPT ![n] = d.attempt[d.lastEnded] + 1]
          /\ e.retryOf = [d.retryOf EXCEPT ![n] = d.lastEnded]
          /\ e.status = [d.status EXCEPT ![n] = "not_started"]
          /\ e.kind = [d.kind EXCEPT ![n] = "coordinator"]
        BY <1>3 DEF CheckStuckAndRecover, InsertCoordRetry, InsertCoord, Insert, NextAttempt, Rows
    <2>5. /\ d.lastEnded \in Coords(d) /\ d.lastEnded \in Node /\ IsOver(d, d.lastEnded)
          /\ \A m \in Present(d) : IsOver(d, m)
        BY <1>3, StuckFacts DEF Stuck, SoundRows
    <2> HIDE DEF e, n
    <2>6. ASSUME NEW m \in Node, m # n
          PROVE  /\ e.attempt[m] = d.attempt[m] /\ e.retryOf[m] = d.retryOf[m]
                 /\ e.status[m] = d.status[m] /\ e.kind[m] = d.kind[m]
        BY <2>4, <2>6 DEF Rows
    <2>7. /\ e.attempt[n] = d.attempt[d.lastEnded] + 1 /\ e.retryOf[n] = d.lastEnded
          /\ e.status[n] = "not_started"
        BY <2>1, <2>4 DEF Rows
    <2>8. ASSUME NEW c \in Coords(d), IsOver(d, c)
          PROVE  c # n /\ c \in Coords(e) /\ IsOver(e, c) /\ e.attempt[c] = d.attempt[c]
        <3>1. c \in Node /\ c # n
            BY <2>3, <2>8 DEF Coords, Present
        <3> QED BY <2>6, <2>8, <3>1 DEF Coords, Present, IsOver
    <2>9. \A m \in Node : m # n => ~IsPending(e, m)
        <3> SUFFICES ASSUME NEW m \in Node, m # n PROVE ~IsPending(e, m)
            OBVIOUS
        <3> QED BY <2>5, <2>6 DEF IsPending, IsOver, Present, Terminal
    <2>10. \A m \in Node : e.attempt[m] > 0 =>
              /\ e.status[m] # "absent"
              /\ e.retryOf[m] \in Coords(e) /\ IsOver(e, e.retryOf[m])
              /\ e.attempt[m] = e.attempt[e.retryOf[m]] + 1
        <3> TAKE m \in Node
        <3>1. CASE m = n
            BY <2>5, <2>7, <2>8, <3>1
        <3>2. CASE m # n
            BY <2>6, <2>8, <3>2 DEF Chained
        <3> QED BY <3>1, <3>2
    <2>11. \A i, j \in Node : IsPending(e, i) /\ IsPending(e, j) => i = j
        BY <2>9
    <2>12. Chained(e)
        BY <2>10, <2>11, Zenon DEF Chained
    <2> QED BY <2>12 DEF e
<1> QED BY <1>1, <1>2, <1>3

\* Nothing that was started or is over is touched, and nothing is started.
Keeps(d, e) ==
    /\ Untouched(d, e)
    /\ Grows(d, e)
    /\ Chained(d) => Chained(e)
    /\ \A n \in Node : e.status[n] \in Started => d.status[n] \in Started

LEMMA ExtendsKeeps ==
    ASSUME NEW d \in Rows, NEW e, Extends(d, e), Grows(d, e), Chained(d) => Chained(e),
           \A n \in Node \ Present(d) : e.status[n] \in {"absent", "not_started"}
    PROVE  Keeps(d, e)
BY DEF Keeps, Untouched, Extends, Present, Started, Terminal, IsOver

LEMMA KeepsJustified ==
    ASSUME NEW d, Justified(d), NEW e, Keeps(d, e)
    PROVE  Justified(e)
<1> SUFFICES ASSUME NEW n \in Node, e.status[n] \in Started, NEW p \in ParentsOf(e.edges, n)
             PROVE  IF e.kind[n] = "worker" THEN e.status[p] = "succeeded"
                                            ELSE e.status[p] \in Terminal
    BY DEF Justified, ParentsReadyForKind
<1>1. d.status[n] \in Started /\ d.status[n] # "cancelled"
    BY DEF Keeps, Started
<1>2. p \in ParentsOf(d.edges, n) /\ e.kind[n] = d.kind[n] /\ p \in Node
    BY <1>1 DEF Keeps, Untouched, Started, Terminal, ParentsOf
<1>3. IF d.kind[n] = "worker" THEN d.status[p] = "succeeded" ELSE d.status[p] \in Terminal
    BY <1>1, <1>2 DEF Justified, ParentsReadyForKind
<1>4. d.status[p] \in Terminal /\ e.status[p] = d.status[p]
    BY <1>2, <1>3 DEF Keeps, Untouched, Terminal, IsOver
<1> QED BY <1>2, <1>3, <1>4

\* The detector's additions to rows it is given.
LEMMA DetectorAdds ==
    ASSUME NEW d, SoundRows(d), RetryNode(d) <= MaxNodes
    PROVE  \A n \in Node \ Present(d) :
               CheckStuckAndRecover(d).status[n] \in {"absent", "not_started"}
<1> d \in Rows
    BY DEF SoundRows
<1>1. CASE ~Stuck(d) \/ CapReached(d)
    BY <1>1 DEF CheckStuckAndRecover, Present, Rows
<1>2. CASE Stuck(d) /\ ~CapReached(d)
    <2> DEFINE n == RetryNode(d)
    <2>1. n \in Node
        BY <1>2, StuckFacts
    <2>2. CheckStuckAndRecover(d).status = [d.status EXCEPT ![n] = "not_started"]
        BY <1>2 DEF CheckStuckAndRecover, InsertCoordRetry, InsertCoord, Insert, Rows
    <2> HIDE DEF n
    <2> QED BY <2>1, <2>2 DEF Present, Rows
<1> QED BY <1>1, <1>2

\* Writes that insert one node.
LEMMA OneMoreGrows ==
    ASSUME NEW d \in Rows, NEW e, NEW n \in Node, n = d.lastId + 1,
           e.status = [d.status EXCEPT ![n] = "not_started"], e.lastId = n
    PROVE  Grows(d, e)
<1>1. d.lastId \in Nat /\ d.status \in [Node -> NodeStatus]
    BY DEF Rows
<1>2. \A m \in Node : m <= d.lastId \/ ~(m <= n) \/ m = n
    BY <1>1 DEF Node
<1>3. ~(n <= d.lastId) /\ d.lastId <= n
    BY <1>1
<1>4. \A m \in Node : e.status[m] = IF m = n THEN "not_started" ELSE d.status[m]
    BY <1>1
<1> HIDE DEF Node
<1> QED BY <1>2, <1>3, <1>4 DEF Grows

LEMMA DetectorGrows ==
    ASSUME NEW d, SoundRows(d), RetryNode(d) <= MaxNodes
    PROVE  Grows(d, CheckStuckAndRecover(d))
<1> d \in Rows /\ d.lastId \in Nat
    BY DEF SoundRows, Rows
<1>1. CASE ~Stuck(d) \/ CapReached(d)
    <2>1. CheckStuckAndRecover(d).status = d.status /\ CheckStuckAndRecover(d).lastId = d.lastId
        BY <1>1 DEF CheckStuckAndRecover, Rows
    <2> QED BY <2>1 DEF Grows, Node
<1>2. CASE Stuck(d) /\ ~CapReached(d)
    <2> DEFINE n == RetryNode(d)
               e == CheckStuckAndRecover(d)
    <2>1. n \in Node /\ n = d.lastId + 1
        BY <1>2, StuckFacts
    <2>2. e.status = [d.status EXCEPT ![n] = "not_started"] /\ e.lastId = n
        BY <1>2 DEF CheckStuckAndRecover, InsertCoordRetry, InsertCoord, Insert, Rows
    <2> HIDE DEF e, n
    <2>3. Grows(d, e)
        BY <2>1, <2>2, OneMoreGrows
    <2> QED BY <2>3 DEF e
<1> QED BY <1>1, <1>2

\* A transaction that keeps what it must still does after the detector.
LEMMA CommitKeeps ==
    ASSUME NEW d, SoundRows(d), Keeps(db, d), Commit(d), db \in Rows
    PROVE  SoundRows(db') /\ Keeps(db, db')
<1>1. RetryNode(d) <= MaxNodes /\ db' = CheckStuckAndRecover(d)
    BY DEF Commit
<1>2. SoundRows(db')
    BY <1>1, DetectorSound
<1>3. Extends(d, db')
    BY <1>1, DetectorExtends
<1>4. \A n \in Node \ Present(d) : db'.status[n] \in {"absent", "not_started"}
    BY <1>1, DetectorAdds
<1>5. Keeps(d, db')
    BY <1>1, <1>3, <1>4, ExtendsKeeps, DetectorGrows, DetectorChain DEF SoundRows
<1>6. ASSUME NEW n \in Node, db'.status[n] \in Started
      PROVE  db.status[n] \in Started
    BY <1>5, <1>6 DEF Keeps
<1>7. Untouched(db, db')
    <2> SUFFICES ASSUME NEW n \in Node, db.status[n] \in {"running"} \cup Terminal
                 PROVE  /\ db.status[n] # "cancelled"
                              => ParentsOf(db'.edges, n) = ParentsOf(db.edges, n)
                        /\ db'.kind[n] = db.kind[n] /\ db'.agent[n] = db.agent[n]
                        /\ db'.attempt[n] = db.attempt[n] /\ db'.retryOf[n] = db.retryOf[n]
                        /\ IF IsOver(db, n) THEN db'.status[n] = db.status[n]
                                            ELSE db'.status[n] \in {"running"} \cup Terminal
        BY DEF Untouched
    <2>1. d.status[n] \in {"running"} \cup Terminal
        BY DEF Keeps, Untouched, IsOver
    <2>2. n \in Present(d)
        BY <2>1 DEF Present, Terminal
    <2> QED BY <1>3, <2>1, <2>2 DEF Keeps, Untouched, Extends, IsOver
<1>8. Grows(db, db')
    <2>1. /\ Grows(db, d) /\ Grows(d, db')
          /\ db.lastId \in Nat /\ d.lastId \in Nat /\ db'.lastId \in Nat
        BY <1>2, <1>5 DEF Keeps, SoundRows, Rows
    <2>2. \A n \in Node : d.status[n] = "not_started" => db'.status[n] = "not_started"
        BY <1>3 DEF Extends, Present
    <2> QED BY <2>1, <2>2 DEF Grows, Node
<1>9. Chained(db) => Chained(db')
    BY <1>5 DEF Keeps
<1> QED BY <1>2, <1>6, <1>7, <1>8, <1>9 DEF Keeps

-----------------------------------------------------------------------------
(* One lemma per mutation: the rows stay sound and keep what they must. *)

LEMMA CreateRows ==
    ASSUME SoundRows(db), db = NoRows, NEW a \in Agents, CreateWorkflow(a)
    PROVE  SoundRows(db') /\ Keeps(db, db')
<1> DEFINE f == InsertCoord(db, 1, a, {})
<1>1. 1 \in Node /\ 1 = db.lastId + 1
    BY MaxNodesAssumption DEF Node, NoRows
<1>2. SoundRows(f)
    BY <1>1, InsertCoordSound
<1>3. db' = [f EXCEPT !.wf = "running"]
    BY DEF CreateWorkflow
<1>4. /\ db' \in Rows
      /\ db'.lastId = f.lastId /\ db'.lastEnded = f.lastEnded /\ db'.edges = f.edges
      /\ db'.kind = f.kind /\ db'.status = f.status
    <2> f \in Rows
        BY <1>2 DEF SoundRows
    <2> HIDE DEF f
    <2> QED BY <1>3 DEF Rows, WorkflowStatus
<1>5. SoundRows(db')
    BY <1>2, <1>4, SameGraphSound
<1>6. \A n \in Node : db'.status[n] \in {"absent", "not_started"} /\ db.status[n] = "absent"
    BY <1>4 DEF InsertCoord, Insert, NoRows
<1>7. db'.status[1] = "not_started" /\ db'.lastId = 1 /\ db.lastId = 0
    BY <1>1, <1>4 DEF InsertCoord, Insert, NoRows
<1>8. Grows(db, db')
    BY <1>6, <1>7 DEF Grows, Node
<1>9. Chained(db')
    <2>1. \A n \in Node : ~(db'.attempt[n] > 0)
        BY <1>3 DEF InsertCoord, Insert, NoRows
    <2> QED BY <2>1, Zenon DEF Chained
<1> QED BY <1>5, <1>6, <1>8, <1>9 DEF Keeps, Untouched, Started, Terminal

LEMMA InsertKeeps ==
    ASSUME NEW d \in Rows, NEW e \in Rows, NEW n \in Node, n = d.lastId + 1, n \notin Present(d),
           Extends(d, e), e.status = [d.status EXCEPT ![n] = "not_started"], e.lastId = n,
           e.attempt = d.attempt, e.retryOf = d.retryOf
    PROVE  Keeps(d, e)
<1>1. d.lastId \in Nat /\ d.status \in [Node -> NodeStatus]
    BY DEF Rows
<1>2. \A m \in Node \ Present(d) : e.status[m] \in {"absent", "not_started"}
    BY <1>1 DEF Present
<1>3. Grows(d, e)
    BY OneMoreGrows
<1>4. Untouched(d, e)
    BY DEF Untouched, Extends, Present, Terminal, IsOver
<1>5. Chained(d) => Chained(e)
    BY <1>1, <1>4, SameRetriesChain
<1> QED BY <1>2, <1>3, <1>5, ExtendsKeeps

LEMMA AddNodeRows ==
    ASSUME SoundRows(db), NEW k \in NodeKind, NEW a \in Agents \cup {NoAgent},
           NEW parents \in SUBSET Node, AddNode(k, a, parents)
    PROVE  SoundRows(db') /\ Keeps(db, db')
<1> DEFINE n == db.lastId + 1
<1>1. db \in Rows /\ db.lastId \in 0..MaxNodes
    BY DEF SoundRows, Rows
<1>2. /\ parents \in SUBSET Present(db) /\ parents # {}
      /\ n <= CallerNodes
      /\ Commit(Insert(db, n, k, a, parents)) \/ Commit(InsertCoord(db, n, a, parents))
    BY DEF AddNode
<1>3. n \in Node
    <2>1. n <= CallerNodes
        BY <1>2
    <2> HIDE <1>2
    <2> QED BY <2>1, <1>1, CallerAssumption, MaxNodesAssumption DEF Node
<1>4. n \notin Present(db)
    BY <1>3, InsertSound, <1>2 DEF Present
<1>5. CASE Commit(Insert(db, n, k, a, parents))
    <2> DEFINE d == Insert(db, n, k, a, parents)
    <2>1. SoundRows(d)
        BY <1>2, <1>3, InsertSound
    <2>2. Extends(db, d)
        BY <1>1, <1>3, <1>4, InsertExtends
    <2>3. /\ d.status = [db.status EXCEPT ![n] = "not_started"] /\ d.lastId = n
          /\ d.attempt = db.attempt /\ d.retryOf = db.retryOf
        BY <1>1 DEF Insert, Rows
    <2> HIDE DEF d
    <2>4. Keeps(db, d)
        BY <1>1, <1>3, <1>4, <2>1, <2>2, <2>3, InsertKeeps DEF SoundRows
    <2> QED BY <1>1, <1>5, <2>1, <2>4, CommitKeeps DEF d
<1>6. CASE Commit(InsertCoord(db, n, a, parents))
    <2> DEFINE d == InsertCoord(db, n, a, parents)
    <2>1. SoundRows(d)
        BY <1>2, <1>3, InsertCoordSound
    <2>2. Extends(db, d)
        BY <1>1, <1>3, <1>4, InsertCoordExtends
    <2>3. /\ d.status = [db.status EXCEPT ![n] = "not_started"] /\ d.lastId = n
          /\ d.attempt = db.attempt /\ d.retryOf = db.retryOf
        BY <1>1 DEF InsertCoord, Insert, Rows
    <2> HIDE DEF d
    <2>4. Keeps(db, d)
        BY <1>1, <1>3, <1>4, <2>1, <2>2, <2>3, InsertKeeps DEF SoundRows
    <2> QED BY <1>1, <1>6, <2>1, <2>4, CommitKeeps DEF d
<1> QED BY <1>2, <1>5, <1>6

\* Writes that insert nothing.
LEMMA SameIdsGrow ==
    ASSUME NEW d, NEW e, d.lastId \in Nat, e.lastId = d.lastId,
           \A n \in Node : d.status[n] = "absent" => e.status[n] = "absent"
    PROVE  Grows(d, e)
BY DEF Grows, Node

\* A write that changes only the edges into nodes not yet started.
LEMMA EdgesKeep ==
    ASSUME NEW d \in Rows, NEW F \in SUBSET (Node \X Node),
           \A n \in Node : d.status[n] \in Started => ParentsOf(F, n) = ParentsOf(d.edges, n)
    PROVE  Keeps(d, [d EXCEPT !.edges = F])
<1> DEFINE e == [d EXCEPT !.edges = F]
<1>1. /\ e.edges = F /\ e.status = d.status /\ e.kind = d.kind /\ e.agent = d.agent
      /\ e.attempt = d.attempt /\ e.retryOf = d.retryOf
    BY DEF Rows
<1>2. e \in Rows /\ e.lastId = d.lastId /\ d.lastId \in Nat
    BY DEF Rows
<1> HIDE DEF e
<1>3. Grows(d, e)
    BY <1>1, <1>2, SameIdsGrow
<1>4. Untouched(d, e)
    BY <1>1 DEF Untouched, Started, Terminal, IsOver
<1>5. Chained(d) => Chained(e)
    BY <1>1, <1>2, <1>4, SameRetriesChain
<1>6. Keeps(d, e)
    BY <1>1, <1>3, <1>4, <1>5 DEF Keeps
<1> QED BY <1>6 DEF e

\* A write that changes the edges only, to a sound graph.
LEMMA EdgesSound ==
    ASSUME NEW d, SoundRows(d), NEW F \in SUBSET (Node \X Node), Acyclic(F),
           \A e \in F : {e[1], e[2]} \subseteq Present(d),
           \A n \in Present(d) \ {1} : ParentsOf(F, n) # {}
    PROVE  SoundRows([d EXCEPT !.edges = F])
<1> DEFINE g == [d EXCEPT !.edges = F]
<1>1. /\ g \in Rows /\ g.edges = F /\ g.status = d.status /\ g.kind = d.kind
      /\ g.lastId = d.lastId /\ g.lastEnded = d.lastEnded
    BY DEF SoundRows, Rows
<1> HIDE DEF g
<1>2. SoundRows(g)
    BY <1>1 DEF SoundRows, Present, Coords, IsOver
<1> QED BY <1>2 DEF g

LEMMA AddEdgeRows ==
    ASSUME SoundRows(db), NEW from \in Node, NEW to \in Node, AddEdge(from, to)
    PROVE  SoundRows(db') /\ Keeps(db, db')
<1> DEFINE F == db.edges \cup {<<from, to>>}
           d == [db EXCEPT !.edges = F]
<1>1. db \in Rows /\ F \in SUBSET (Node \X Node)
    BY DEF SoundRows, Rows
<1>2. Acyclic(F)
    BY UnreachableEdgeAcyclic DEF SoundRows, AddEdge
<1>3. SoundRows(d)
    <2>1. \A e \in F : {e[1], e[2]} \subseteq Present(db)
        BY DEF SoundRows, AddEdge
    <2>2. \A n \in Present(db) \ {1} : ParentsOf(F, n) # {}
        BY DEF SoundRows, ParentsOf
    <2> HIDE DEF F
    <2> QED BY <1>1, <1>2, <2>1, <2>2, EdgesSound
<1>4. Keeps(db, d)
    <2>1. \A n \in Node : db.status[n] \in Started => ParentsOf(F, n) = ParentsOf(db.edges, n)
        BY DEF AddEdge, Started, ParentsOf
    <2> HIDE DEF F
    <2> QED BY <1>1, <2>1, EdgesKeep
<1>5. Commit(d)
    BY DEF AddEdge
<1> QED BY <1>1, <1>3, <1>4, <1>5, CommitKeeps

LEMMA RemoveEdgeRows ==
    ASSUME SoundRows(db), NEW from \in Node, NEW to \in Node, RemoveEdge(from, to)
    PROVE  SoundRows(db') /\ Keeps(db, db')
<1> DEFINE F == db.edges \ {<<from, to>>}
           d == [db EXCEPT !.edges = F]
<1>1. db \in Rows /\ F \in SUBSET (Node \X Node)
    BY DEF SoundRows, Rows
<1>2. Acyclic(F)
    BY FewerEdgesAcyclic DEF SoundRows
<1>3. SoundRows(d)
    <2>1. \A e \in F : {e[1], e[2]} \subseteq Present(db)
        BY DEF SoundRows
    <2>2. \A n \in Present(db) \ {1} : ParentsOf(F, n) # {}
        <3> TAKE n \in Present(db) \ {1}
        <3>1. CASE n # to
            BY <3>1 DEF SoundRows, ParentsOf
        <3>2. CASE n = to
            <4>1. PICK p \in ParentsOf(db.edges, to) : p # from
                BY <3>2 DEF RemoveEdge, SoundRows
            <4> QED BY <3>2, <4>1 DEF ParentsOf
        <3> QED BY <3>1, <3>2
    <2> HIDE DEF F
    <2> QED BY <1>1, <1>2, <2>1, <2>2, EdgesSound
<1>4. Keeps(db, d)
    <2>1. \A n \in Node : db.status[n] \in Started => ParentsOf(F, n) = ParentsOf(db.edges, n)
        BY DEF RemoveEdge, Started, ParentsOf
    <2> HIDE DEF F
    <2> QED BY <1>1, <2>1, EdgesKeep
<1>5. Commit(d)
    BY DEF RemoveEdge
<1> QED BY <1>1, <1>3, <1>4, <1>5, CommitKeeps

LEMMA CancelNodeRows ==
    ASSUME SoundRows(db), NEW n \in Node, CancelNode(n)
    PROVE  SoundRows(db') /\ Keeps(db, db')
<1> DEFINE d == [db EXCEPT !.status[n] = "cancelled"]
<1>1. db \in Rows /\ db.status[n] \in {"not_started", "running"} /\ db.kind[n] = "worker"
    BY DEF SoundRows, CancelNode, IsPending
<1>2. /\ d \in Rows /\ d.status = [db.status EXCEPT ![n] = "cancelled"]
      /\ d.lastId = db.lastId /\ d.lastEnded = db.lastEnded /\ d.edges = db.edges
      /\ d.kind = db.kind /\ d.agent = db.agent
      /\ d.attempt = db.attempt /\ d.retryOf = db.retryOf
    BY <1>1 DEF Rows, NodeStatus, Terminal
<1>3. Commit(d)
    BY DEF CancelNode
<1> HIDE DEF d
<1>4. Present(d) = Present(db)
    BY <1>1, <1>2 DEF Present, Rows
<1>5. SoundRows(d)
    <2>1. d.lastEnded # 0 => d.lastEnded \in Coords(d) /\ IsOver(d, d.lastEnded)
        BY <1>1, <1>2, <1>4 DEF SoundRows, Coords, IsOver, Rows, Terminal, Present
    <2> QED BY <1>1, <1>2, <1>4, <2>1 DEF SoundRows, Rows, Present
<1>6. Grows(db, d)
    BY <1>1, <1>2, SameIdsGrow DEF Rows
<1>7. Untouched(db, d)
    BY <1>1, <1>2 DEF Untouched, Started, Terminal, IsOver, Rows
<1>8. Chained(db) => Chained(d)
    BY <1>1, <1>2, <1>7, SameRetriesChain DEF Rows
<1>9. Keeps(db, d)
    BY <1>1, <1>2, <1>6, <1>7, <1>8 DEF Keeps, Started, Rows
<1> QED BY <1>1, <1>3, <1>5, <1>9, CommitKeeps

LEMMA RemoveNodeRows ==
    ASSUME SoundRows(db), Justified(db), NEW n \in Node, RemoveNode(n)
    PROVE  SoundRows(db') /\ Keeps(db, db')
<1> DEFINE d == DeleteNode(db, n)
           F == {e \in db.edges : e[1] # n /\ e[2] # n}
<1>1. /\ db \in Rows /\ db.status[n] = "not_started"
      /\ \A c \in ChildrenOf(db.edges, n) : ParentsOf(db.edges, c) # {n}
    BY DEF SoundRows, RemoveNode
<1>2. /\ d \in Rows /\ d.lastId = db.lastId /\ d.lastEnded = db.lastEnded
      /\ d.edges = F
      /\ d.status = [db.status EXCEPT ![n] = "absent"]
      /\ d.kind = [db.kind EXCEPT ![n] = "worker"]
      /\ d.agent = [db.agent EXCEPT ![n] = NoAgent]
      /\ d.attempt = [db.attempt EXCEPT ![n] = 0]
      /\ d.retryOf = [db.retryOf EXCEPT ![n] = 0]
    <2>1. /\ "worker" \in NodeKind /\ "absent" \in NodeStatus
          /\ 0 \in 0..MaxNodes /\ 0 \in 0..StuckRetryMaxAttempts
        BY MaxNodesAssumption, RetryAssumption DEF NodeStatus, NodeKind
    <2>2. F \in SUBSET (Node \X Node)
        BY <1>1 DEF Rows
    <2> HIDE DEF F
    <2>3. d = [db EXCEPT !.kind[n] = "worker", !.status[n] = "absent", !.agent[n] = NoAgent,
                         !.attempt[n] = 0, !.retryOf[n] = 0, !.edges = F]
        BY DEF DeleteNode, F
    <2> HIDE DEF d
    <2> QED BY <1>1, <2>1, <2>2, <2>3 DEF Rows
<1>3. Commit(d)
    BY DEF RemoveNode
<1> HIDE DEF d
<1>4. Present(d) = Present(db) \ {n}
    BY <1>1, <1>2 DEF Present, Rows
<1>5. SoundRows(d)
    <2>1. d.lastEnded # 0 => d.lastEnded \in Coords(d) /\ IsOver(d, d.lastEnded)
        BY <1>1, <1>2, <1>4 DEF SoundRows, Coords, IsOver, Rows, Terminal, Present
    <2>2. Acyclic(d.edges)
        BY <1>2, FewerEdgesAcyclic DEF SoundRows
    <2>3. \A e \in d.edges : {e[1], e[2]} \subseteq Present(d)
        BY <1>2, <1>4 DEF SoundRows
    <2>4. ASSUME NEW m \in Present(d) \ {1}
          PROVE  ParentsOf(d.edges, m) # {}
        <3>1. m \in Node /\ m # n /\ ParentsOf(db.edges, m) # {}
            BY <1>4 DEF SoundRows, Present
        <3>2. ParentsOf(db.edges, m) # {n}
            BY <1>1, <3>1 DEF ParentsOf, ChildrenOf
        <3>3. PICK p \in ParentsOf(db.edges, m) : p # n
            BY <3>1, <3>2
        <3> QED BY <1>2, <3>1, <3>3 DEF ParentsOf
    <2>5. \A m \in Node : m > d.lastId => d.status[m] = "absent"
        BY <1>1, <1>2 DEF SoundRows, Rows
    <2> QED BY <1>2, <2>1, <2>2, <2>3, <2>4, <2>5 DEF SoundRows
<1>6. ASSUME NEW m \in Node, db.status[m] \in Started
      PROVE  ParentsOf(d.edges, m) = ParentsOf(db.edges, m)
    <2>1. n \notin ParentsOf(db.edges, m)
        BY <1>1, <1>6 DEF Justified, ParentsReadyForKind, Terminal
    <2>2. m # n
        BY <1>1, <1>6 DEF Started
    <2> QED BY <1>2, <2>1, <2>2 DEF ParentsOf
<1>7. Grows(db, d)
    BY <1>1, <1>2, SameIdsGrow DEF Rows
<1>8. Untouched(db, d)
    BY <1>1, <1>2, <1>6 DEF Untouched, Started, Terminal, IsOver, Rows
<1>9. \A m \in Node : d.attempt[m] > 0 => /\ d.attempt[m] = db.attempt[m]
                                          /\ d.retryOf[m] = db.retryOf[m]
                                          /\ d.status[m] = db.status[m]
    BY <1>1, <1>2 DEF Rows
<1>10. Chained(db) => Chained(d)
    BY <1>1, <1>2, <1>8, <1>9, RetriesChain
<1>11. Keeps(db, d)
    BY <1>1, <1>2, <1>7, <1>8, <1>10 DEF Keeps, Started, Rows
<1> QED BY <1>1, <1>3, <1>5, <1>11, CommitKeeps

LEMMA ReplaceNodeSpecRows ==
    ASSUME SoundRows(db), NEW n \in Node, NEW a \in Agents \cup {NoAgent}, ReplaceNodeSpec(n, a)
    PROVE  SoundRows(db') /\ Keeps(db, db')
<1> DEFINE youngest == \A m \in Coords(db) : m <= n
           d == IF db.kind[n] = "worker" THEN db
                ELSE [db EXCEPT !.agent[n] = a,
                                !.coordAgent = IF youngest THEN a ELSE db.coordAgent]
<1>1. db \in Rows /\ db.status[n] = "not_started"
    BY DEF SoundRows, ReplaceNodeSpec
<1>2. Commit(d)
    BY DEF ReplaceNodeSpec
<1>3. /\ d \in Rows /\ d.status = db.status
      /\ d.lastId = db.lastId /\ d.lastEnded = db.lastEnded /\ d.edges = db.edges
      /\ d.kind = db.kind /\ \A m \in Node \ {n} : d.agent[m] = db.agent[m]
      /\ d.attempt = db.attempt /\ d.retryOf = db.retryOf
    <2> HIDE DEF youngest
    <2> QED BY <1>1 DEF Rows
<1> HIDE DEF d
<1>4. SoundRows(d)
    BY <1>3, SameGraphSound
<1>5. Grows(db, d)
    BY <1>1, <1>3, SameIdsGrow DEF Rows
<1>6. Keeps(db, d)
    <2>1. Untouched(db, d)
        BY <1>1, <1>3 DEF Untouched, Terminal, IsOver
    <2>2. Chained(db) => Chained(d)
        BY <1>1, <1>3, <2>1, SameRetriesChain
    <2> QED BY <1>3, <1>5, <2>1, <2>2 DEF Keeps
<1> QED BY <1>1, <1>2, <1>4, <1>6, CommitKeeps

LEMMA AddSubgraphRows ==
    ASSUME SoundRows(db), NEW size \in 1..MaxBatch,
           NEW kinds \in [(db.lastId + 1)..(db.lastId + size) -> NodeKind],
           NEW via \in [(db.lastId + 1)..(db.lastId + size) -> SUBSET Present(db)],
           NEW X \in SUBSET (Node \X Node), NEW a \in Agents,
           AddSubgraph(size, kinds, via, X, a)
    PROVE  SoundRows(db') /\ Keeps(db, db')
<1> DEFINE temps == (db.lastId + 1)..(db.lastId + size)
           d == WithSubgraph(size, temps, kinds, via, X, a)
           new == UNION {via[t] \X {t} : t \in temps}
<1>1. db \in Rows /\ db.lastId \in 0..MaxNodes /\ size \in Nat
    BY BatchAssumption DEF SoundRows, Rows
<1>2. /\ db.lastId + size <= CallerNodes
      /\ ValidShape(temps, kinds, via, X)
      /\ SubgraphGates(temps, kinds, via, X)
      /\ Acyclic(d.edges)
      /\ Commit(d)
    BY DEF AddSubgraph
<1>3. db.lastId + size \in 0..MaxNodes /\ \A t \in temps : t \in Node /\ t > db.lastId
    <2>1. CallerNodes \in 1..MaxNodes /\ MaxNodes \in Nat
        BY CallerAssumption, MaxNodesAssumption DEF Node
    <2>2. db.lastId + size <= CallerNodes
        BY <1>2
    <2> HIDE <1>2
    <2> QED BY <1>1, <2>1, <2>2 DEF Node
<1>4. \A t \in temps : db.status[t] = "absent" /\ t \notin Present(db)
    BY <1>3 DEF SoundRows, Present
<1>5. new \in SUBSET (Node \X Node)
    BY <1>3 DEF Present
<1>6. /\ d \in Rows
      /\ d.lastId = db.lastId + size /\ d.lastEnded = db.lastEnded
      /\ d.edges = db.edges \cup X \cup new
      /\ \A m \in Node : d.status[m] = IF m \in temps THEN "not_started" ELSE db.status[m]
      /\ \A m \in Node : m \notin temps => d.kind[m] = db.kind[m] /\ d.agent[m] = db.agent[m]
      /\ d.attempt = db.attempt /\ d.retryOf = db.retryOf
    <2>1. "not_started" \in NodeStatus
        BY DEF NodeStatus
    <2> HIDE DEF temps, new
    <2>2. kinds \in [temps -> NodeKind]
        BY DEF temps
    <2> HIDE DEF d
    <2> DEFINE hasCoord == \E t \in temps : kinds[t] = "coordinator"
               K == [n \in Node |-> IF n \in temps THEN kinds[n] ELSE db.kind[n]]
               S == [n \in Node |-> IF n \in temps THEN "not_started" ELSE db.status[n]]
               A == [n \in Node |-> IF n \in temps /\ kinds[n] = "coordinator"
                                    THEN a ELSE db.agent[n]]
               c == IF hasCoord THEN a ELSE db.coordAgent
               F == db.edges \cup X \cup new
    <2>3. d = [db EXCEPT !.lastId = db.lastId + size, !.kind = K, !.status = S,
                         !.agent = A, !.coordAgent = c, !.edges = F]
        BY <1>1 DEF d, WithSubgraph, new, Rows
    <2>4. /\ K \in [Node -> NodeKind] /\ S \in [Node -> NodeStatus]
          /\ A \in [Node -> Agents \cup {NoAgent}]
          /\ F \in SUBSET (Node \X Node)
        BY <1>1, <1>5, <2>1, <2>2 DEF Rows
    <2>5. c \in Agents \cup {NoAgent}
        <3> HIDE DEF hasCoord
        <3> QED BY <1>1 DEF Rows
    <2>6. /\ \A m \in Node : S[m] = IF m \in temps THEN "not_started" ELSE db.status[m]
          /\ \A m \in Node : m \notin temps => K[m] = db.kind[m] /\ A[m] = db.agent[m]
        OBVIOUS
    <2> HIDE DEF K, S, A, c, F
    <2> QED BY <1>1, <1>3, <2>3, <2>4, <2>5, <2>6 DEF Rows, F
<1>7. \A m \in Node : m > db.lastId + size => m \notin temps /\ m > db.lastId
    BY <1>1 DEF Node
<1> HIDE DEF d
<1>8. Present(d) = Present(db) \cup temps
    BY <1>3, <1>6 DEF Present
<1>9. SoundRows(d)
    <2>1. d.lastEnded # 0 => d.lastEnded \in Coords(d) /\ IsOver(d, d.lastEnded)
        <3> SUFFICES ASSUME d.lastEnded # 0
                     PROVE  d.lastEnded \in Coords(d) /\ IsOver(d, d.lastEnded)
            OBVIOUS
        <3>1. d.lastEnded \in Coords(db) /\ IsOver(db, d.lastEnded)
            BY <1>6 DEF SoundRows
        <3>2. d.lastEnded \notin temps /\ d.lastEnded \in Node
            BY <1>4, <3>1 DEF Coords, Present
        <3> QED BY <1>6, <1>8, <3>1, <3>2 DEF Coords, IsOver
    <2>2. \A e \in d.edges : {e[1], e[2]} \subseteq Present(d)
        <3>1. \A e \in db.edges : {e[1], e[2]} \subseteq Present(db)
            BY DEF SoundRows
        <3>2. \A e \in X : {e[1], e[2]} \subseteq Present(db) \cup temps
            BY <1>2 DEF ValidShape
        <3>3. \A e \in new : e[1] \in Present(db) /\ e[2] \in temps
            OBVIOUS
        <3> HIDE DEF temps, new
        <3> QED BY <1>6, <1>8, <3>1, <3>2, <3>3
    <2>3. ASSUME NEW m \in Present(d) \ {1}
          PROVE  ParentsOf(d.edges, m) # {}
        <3>1. CASE m \in temps
            <4>1. via[m] # {} \/ ParentsOf(X, m) \cap temps # {}
                BY <1>2, <3>1 DEF ValidShape
            <4>2. \A p \in via[m] : p \in Node /\ <<p, m>> \in new
                BY <3>1 DEF Present
            <4> HIDE DEF temps, new
            <4> QED BY <1>6, <4>1, <4>2 DEF ParentsOf
        <3>2. CASE m \in Present(db)
            <4> HIDE DEF temps, new
            <4> QED BY <1>6, <3>2 DEF SoundRows, ParentsOf
        <3> QED BY <1>8, <3>1, <3>2
    <2>4. \A m \in Node : m > d.lastId => d.status[m] = "absent"
        <3> HIDE DEF temps
        <3> QED BY <1>6, <1>7 DEF SoundRows
    <2> QED BY <1>2, <1>6, <2>1, <2>2, <2>3, <2>4 DEF SoundRows
<1>10. ASSUME NEW m \in Node, db.status[m] \in Started
       PROVE  ParentsOf(d.edges, m) = ParentsOf(db.edges, m)
    <2>1. m \notin temps
        BY <1>4, <1>10 DEF Started
    <2>2. \A e \in X : e[2] # m
        BY <1>2, <1>10, <2>1 DEF SubgraphGates, Started
    <2>3. \A e \in new : e[2] # m
        BY <2>1
    <2> HIDE DEF temps, new
    <2> QED BY <1>6, <2>2, <2>3 DEF ParentsOf
<1>11. Keeps(db, d)
    <2>1. Grows(db, d)
        <3>1. \A m \in Node : IF m <= db.lastId THEN m \notin temps
                              ELSE m <= db.lastId + size => m \in temps
            BY <1>1 DEF Node
        <3>2. db.lastId <= d.lastId
            BY <1>1, <1>6
        <3> HIDE DEF temps
        <3> QED BY <1>6, <3>1, <3>2 DEF Grows
    <2> HIDE DEF temps
    <2>2. Untouched(db, d)
        BY <1>4, <1>6, <1>10 DEF Untouched, Started, Terminal, IsOver
    <2>3. Chained(db) => Chained(d)
        BY <1>1, <1>6, <2>2, SameRetriesChain
    <2> QED BY <1>4, <1>6, <2>1, <2>2, <2>3 DEF Keeps, Started
<1> QED BY <1>1, <1>2, <1>9, <1>11, CommitKeeps

LEMMA MarkNodeTerminalRows ==
    ASSUME SoundRows(db), NEW n \in Node, NEW outcome \in Terminal,
           db.status[n] \in {"running"} \cup Terminal,
           MarkNodeTerminal(n, outcome)
    PROVE  SoundRows(db') /\ Keeps(db, db')
<1> db \in Rows
    BY DEF SoundRows
<1>1. CASE ~IsPending(db, n)
    <2>1. db' = db
        BY <1>1 DEF MarkNodeTerminal
    <2> QED BY <2>1, SameIdsGrow DEF Keeps, Untouched, Rows
<1>2. CASE IsPending(db, n)
    <2>1. db.status[n] = "running"
        BY <1>2 DEF IsPending, Terminal
    <2>2. PICK last \in EndedOrders(db, n) :
              Commit([db EXCEPT !.status[n] = outcome, !.lastEnded = last])
        BY <1>2 DEF MarkNodeTerminal
    <2> DEFINE d == [db EXCEPT !.status[n] = outcome, !.lastEnded = last]
    <2>3. last = db.lastEnded \/ (last = n /\ db.kind[n] = "coordinator")
        BY DEF EndedOrders
    <2>4. last \in 0..MaxNodes
        BY <2>3, MaxNodesAssumption DEF Rows, Node
    <2>5. /\ d \in Rows /\ d.status = [db.status EXCEPT ![n] = outcome] /\ d.lastEnded = last
          /\ d.lastId = db.lastId /\ d.edges = db.edges
          /\ d.kind = db.kind /\ d.agent = db.agent
          /\ d.attempt = db.attempt /\ d.retryOf = db.retryOf
        BY <2>4 DEF Rows, NodeStatus
    <2>6. Commit(d)
        BY <2>2
    <2> HIDE DEF d
    <2>7. Present(d) = Present(db)
        BY <2>1, <2>5 DEF Present, Rows, Terminal
    <2>8. d.lastEnded # 0 => d.lastEnded \in Coords(d) /\ IsOver(d, d.lastEnded)
        BY <2>1, <2>3, <2>5, <2>7 DEF SoundRows, Coords, IsOver, Rows, Present
    <2>9. SoundRows(d)
        BY <2>1, <2>5, <2>7, <2>8 DEF SoundRows, Rows, Present
    <2>10. Keeps(db, d)
        <3>1. Grows(db, d)
            BY <2>1, <2>5, SameIdsGrow DEF Rows
        <3>2. Untouched(db, d)
            BY <2>1, <2>5 DEF Untouched, Terminal, IsOver, Rows
        <3>3. Chained(db) => Chained(d)
            BY <2>1, <2>5, <3>2, SameRetriesChain DEF Rows, Terminal
        <3> QED BY <2>1, <2>5, <3>1, <3>2, <3>3 DEF Keeps, Started, Rows
    <2> QED BY <2>6, <2>9, <2>10, CommitKeeps
<1> QED BY <1>1, <1>2

LEMMA ReconcileNodeRows ==
    ASSUME SoundRows(db), NEW n \in Node, ReconcileNode(n)
    PROVE  SoundRows(db') /\ Keeps(db, db')
<1> db \in Rows
    BY DEF SoundRows
<1>1. CASE ~IsPending(db, n)
    <2>1. db' = db
        BY <1>1 DEF ReconcileNode
    <2> QED BY <2>1, SameIdsGrow DEF Keeps, Untouched, Rows
<1>2. CASE IsPending(db, n)
    <2>1. db' = [db EXCEPT !.status[n] = "cancelled"]
        BY <1>2 DEF ReconcileNode
    <2>2. db.status[n] \in {"not_started", "running"}
        BY <1>2 DEF IsPending
    <2>3. /\ db' \in Rows /\ db'.status = [db.status EXCEPT ![n] = "cancelled"]
          /\ db'.lastId = db.lastId /\ db'.lastEnded = db.lastEnded /\ db'.edges = db.edges
          /\ db'.kind = db.kind /\ db'.agent = db.agent
          /\ db'.attempt = db.attempt /\ db'.retryOf = db.retryOf
        BY <2>1 DEF Rows, NodeStatus, Terminal
    <2>4. Present(db') = Present(db)
        BY <2>2, <2>3 DEF Present, Rows
    <2>5. db'.lastEnded # 0 => db'.lastEnded \in Coords(db') /\ IsOver(db', db'.lastEnded)
        BY <2>2, <2>3, <2>4 DEF SoundRows, Coords, IsOver, Rows, Terminal, Present
    <2>6. SoundRows(db')
        BY <2>2, <2>3, <2>4, <2>5 DEF SoundRows, Rows, Present
    <2>7. Keeps(db, db')
        <3>1. Grows(db, db')
            BY <2>2, <2>3, SameIdsGrow DEF Rows
        <3>2. Untouched(db, db')
            BY <2>2, <2>3 DEF Untouched, Terminal, IsOver, Rows
        <3>3. Chained(db) => Chained(db')
            BY <2>2, <2>3, <3>2, SameRetriesChain DEF Rows
        <3> QED BY <2>2, <2>3, <3>1, <3>2, <3>3 DEF Keeps, Started, Rows
    <2> QED BY <2>6, <2>7
<1> QED BY <1>1, <1>2

LEMMA EndWorkflowRows ==
    ASSUME SoundRows(db), NEW outcome \in Terminal, EndWorkflow(outcome)
    PROVE  SoundRows(db') /\ Keeps(db, db')
<1>1. /\ db' \in Rows
      /\ db'.lastId = db.lastId /\ db'.lastEnded = db.lastEnded /\ db'.edges = db.edges
      /\ db'.kind = db.kind /\ db'.status = db.status /\ db'.agent = db.agent
      /\ db'.attempt = db.attempt /\ db'.retryOf = db.retryOf
    BY DEF EndWorkflow, SoundRows, Rows, WorkflowStatus, Terminal
<1>2. SoundRows(db')
    BY <1>1, SameGraphSound
<1>3. Keeps(db, db')
    <2>1. Grows(db, db')
        BY <1>1, SameIdsGrow DEF Rows, SoundRows
    <2>2. Untouched(db, db')
        BY <1>1 DEF Untouched, IsOver
    <2>3. Chained(db) => Chained(db')
        BY <1>1, <2>2, SameRetriesChain DEF SoundRows
    <2> QED BY <1>1, <2>1, <2>2, <2>3 DEF Keeps
<1> QED BY <1>2, <1>3

\* A dispatch starts one node, and only one whose parents allow it.
LEMMA DispatchRows ==
    ASSUME SoundRows(db), Justified(db), Chained(db), NEW n \in Node, DispatchTx(n)
    PROVE  SoundRows(db') /\ Untouched(db, db') /\ Grows(db, db') /\ Justified(db') /\ Chained(db')
<1> db \in Rows
    BY DEF SoundRows
<1>1. CASE ~Eligible(db, n)
    <2>1. db' = db
        BY <1>1 DEF DispatchTx
    <2> QED BY <2>1, SameIdsGrow DEF Untouched, Rows
<1>2. CASE Eligible(db, n)
    <2>1. db' = [db EXCEPT !.status[n] = "running"]
        BY <1>2 DEF DispatchTx
    <2>2. db.status[n] = "not_started" /\ ParentsReadyForKind(db.kind, db.status, db.edges, n)
        BY <1>2 DEF Eligible
    <2>3. /\ db' \in Rows /\ db'.status = [db.status EXCEPT ![n] = "running"]
          /\ db'.lastId = db.lastId /\ db'.lastEnded = db.lastEnded /\ db'.edges = db.edges
          /\ db'.kind = db.kind /\ db'.agent = db.agent
          /\ db'.attempt = db.attempt /\ db'.retryOf = db.retryOf
        BY <2>1 DEF Rows, NodeStatus
    <2>4. Present(db') = Present(db)
        BY <2>2, <2>3 DEF Present, Rows
    <2>5. db'.lastEnded # 0 => db'.lastEnded \in Coords(db') /\ IsOver(db', db'.lastEnded)
        BY <2>2, <2>3, <2>4 DEF SoundRows, Coords, IsOver, Rows, Terminal, Present
    <2>6. SoundRows(db')
        BY <2>2, <2>3, <2>4, <2>5 DEF SoundRows, Rows, Present
    <2>7. Untouched(db, db')
        BY <2>2, <2>3 DEF Untouched, Terminal, IsOver, Rows
    <2>8. \A p \in Node : db.status[p] \in Terminal => db'.status[p] = db.status[p]
        BY <2>2, <2>3 DEF Terminal, Rows
    <2>9. Justified(db')
        <3> SUFFICES ASSUME NEW m \in Node, db'.status[m] \in Started
                     PROVE  ParentsReadyForKind(db'.kind, db'.status, db'.edges, m)
            BY DEF Justified
        <3>1. ParentsReadyForKind(db.kind, db.status, db.edges, m)
            BY <2>2, <2>3 DEF Justified, Rows
        <3> QED BY <2>3, <2>8, <3>1 DEF ParentsReadyForKind, ParentsOf, Terminal
    <2>10. Grows(db, db')
        BY <2>2, <2>3, SameIdsGrow DEF Rows
    <2>11. Chained(db')
        BY <2>2, <2>3, <2>7, SameRetriesChain DEF Rows
    <2> QED BY <2>6, <2>7, <2>9, <2>10, <2>11
<1> QED BY <1>1, <1>2

-----------------------------------------------------------------------------
(* The inductive invariant.  StartJustified is part of it because removeNode *)
(* drops edges into nodes it does not look at: that none of them has been    *)
(* started follows from StartJustified only.                                 *)

IInv ==
    /\ TypeOK
    /\ SoundRows(db)
    /\ Justified(db)
    /\ Chained(db)
    /\ \A n \in watch : db.status[n] \in {"running"} \cup Terminal
    /\ db.wf = "none" => db = NoRows

\* What a step of any kind does to the rows.
LEMMA StepRows ==
    ASSUME IInv, [Next]_vars
    PROVE  SoundRows(db') /\ Untouched(db, db') /\ Grows(db, db') /\ Justified(db') /\ Chained(db')
<1> USE DEF IInv
<1>0. ASSUME Keeps(db, db'), SoundRows(db')
      PROVE  SoundRows(db') /\ Untouched(db, db') /\ Grows(db, db') /\ Justified(db') /\ Chained(db')
    <2>1. Justified(db')
        BY <1>0, KeepsJustified
    <2> QED BY <1>0, <2>1 DEF Keeps
<1>1. ASSUME db' = db
      PROVE  SoundRows(db') /\ Untouched(db, db') /\ Grows(db, db') /\ Justified(db') /\ Chained(db')
    BY <1>1, SameIdsGrow DEF Untouched, SoundRows, Rows
<1>2. ASSUME NEW a \in Agents, CreateWorkflow(a) PROVE Keeps(db, db') /\ SoundRows(db')
    BY <1>2, CreateRows DEF CreateWorkflow
<1>3. ASSUME Edit PROVE Keeps(db, db') /\ SoundRows(db')
    BY <1>3, AddNodeRows, AddEdgeRows, RemoveEdgeRows, RemoveNodeRows, CancelNodeRows,
       ReplaceNodeSpecRows DEF Edit
<1>4. ASSUME Batch PROVE Keeps(db, db') /\ SoundRows(db')
    BY <1>4, AddSubgraphRows, BatchAssumption DEF Batch
<1>5. ASSUME End PROVE Keeps(db, db') /\ SoundRows(db')
    <2>1. ASSUME NEW outcome \in {"succeeded", "failed"}, FinishWorkflow(outcome)
          PROVE  Keeps(db, db') /\ SoundRows(db')
        BY <2>1, EndWorkflowRows DEF FinishWorkflow, Terminal
    <2>2. ASSUME CancelWorkflow PROVE Keeps(db, db') /\ SoundRows(db')
        BY <2>2, EndWorkflowRows DEF CancelWorkflow, Terminal
    <2> QED BY <1>5, <2>1, <2>2, ReconcileNodeRows DEF End
<1>6. ASSUME Engine PROVE SoundRows(db') /\ Untouched(db, db') /\ Grows(db, db') /\ Justified(db') /\ Chained(db')
    <2>1. CASE DispatchTurn
        <3>1. turn \in Node
            BY <2>1, MaxNodesAssumption DEF DispatchTurn, TypeOK, Node
        <3> QED BY <2>1, <3>1, DispatchRows DEF DispatchTurn
    <2>2. CASE Tick
        BY <2>2, <1>1 DEF Tick
    <2>3. ASSUME NEW n \in Node, DispatchAtomic(n)
          PROVE  SoundRows(db') /\ Untouched(db, db') /\ Grows(db, db') /\ Justified(db') /\ Chained(db')
        BY <2>3, DispatchRows DEF DispatchAtomic
    <2> QED BY <1>6, <2>1, <2>2, <2>3 DEF Engine
<1>7. ASSUME Report PROVE Keeps(db, db') /\ SoundRows(db')
    <2>1. PICK n \in Node, outcome \in Terminal : MarkNodeTerminal(n, outcome)
        BY <1>7 DEF Report
    <2>2. n \in watch
        BY <2>1 DEF MarkNodeTerminal
    <2> QED BY <2>1, <2>2, MarkNodeTerminalRows
<1>8. CASE Crash
    BY <1>8, <1>1 DEF Crash
<1>9. CASE UNCHANGED vars
    BY <1>9, <1>1 DEF vars
<1> QED BY <1>0, <1>2, <1>3, <1>4, <1>5, <1>6, <1>7, <1>8, <1>9 DEF Next

-----------------------------------------------------------------------------
(* The header's status and the variables in memory. *)

\* d need only be some record with a lastId.
LEMMA CommitHeader ==
    ASSUME NEW d, d = [f \in DOMAIN d |-> d[f]], d.lastId \in Nat, Commit(d)
    PROVE  /\ db'.wf \in {d.wf, "failed"}
           /\ db'.wf # d.wf => d.wf = "running"
           /\ db'.wf # d.wf => \A n \in Node : ~IsPending(db', n)
           /\ RetryNode(d) \in 0..MaxNodes
<1>1. RetryNode(d) \in 0..MaxNodes
    BY DEF RetryNode, Commit
<1>2. CASE ~Stuck(d)
    BY <1>1, <1>2 DEF Commit, CheckStuckAndRecover
<1>3. CASE Stuck(d)
    <2>1. \A n \in Node : ~IsPending(d, n)
        BY <1>3 DEF Stuck, Present, IsPending, IsOver, Terminal
    <2> QED BY <1>1, <1>3, <2>1 DEF Commit, IsPending, CheckStuckAndRecover, Stuck, InsertCoordRetry, InsertCoord, Insert
<1> QED BY <1>2, <1>3

\* The type of what a mutation leaves in memory.
MemoryOK ==
    /\ turn \in 0..MaxNodes /\ calls \subseteq Node /\ nudged \in BOOLEAN
    /\ watch \subseteq Node /\ targets \subseteq Node /\ crashes \in 0..MaxCrashes

LEMMA ReactMemory ==
    ASSUME MemoryOK, NEW retry \in 0..MaxNodes, NEW eager \in SUBSET Node, React(retry, eager)
    PROVE  MemoryOK' /\ watch' = watch
BY DEF MemoryOK, React

\* The header after a step: a workflow is created once, ends once, and the
\* variables in memory keep their types.
LEMMA StepHeader ==
    ASSUME IInv, Next
    PROVE  /\ MemoryOK'
           /\ db.wf \in Terminal => db'.wf = db.wf
           /\ db.wf = "running" => db'.wf # "none"
           /\ db.wf = "none" => db' = db \/ db'.wf = "running"
           /\ db.wf = "running" /\ db'.wf # "running" =>
                  \/ \A n \in Node : ~IsPending(db', n)
                  \/ \E outcome \in Terminal : EndWorkflow(outcome)
<1> DEFINE Header == /\ db.wf \in Terminal => db'.wf = db.wf
                     /\ db.wf = "running" => db'.wf # "none"
                     /\ db.wf = "none" => db' = db \/ db'.wf = "running"
                     /\ db.wf = "running" /\ db'.wf # "running" =>
                          \/ \A n \in Node : ~IsPending(db', n)
                          \/ \E outcome \in Terminal : EndWorkflow(outcome)
<1> db \in Rows /\ db.lastId \in Nat /\ MemoryOK
    BY DEF IInv, SoundRows, Rows, TypeOK, MemoryOK
<1>1. ASSUME db' = db PROVE Header
    BY <1>1 DEF Terminal
<1>2. ASSUME NEW d, d = [f \in DOMAIN d |-> d[f]], d.lastId \in Nat, Commit(d),
             d.wf = db.wf, db.wf = "running"
      PROVE  Header /\ RetryNode(d) \in 0..MaxNodes
    <2>1. /\ db'.wf \in {d.wf, "failed"} /\ RetryNode(d) \in 0..MaxNodes
          /\ db'.wf # d.wf => \A n \in Node : ~IsPending(db', n)
        BY <1>2, CommitHeader
    <2> QED BY <1>2, <2>1 DEF Terminal
<1>3. ASSUME NEW a \in Agents, CreateWorkflow(a) PROVE MemoryOK' /\ Header
    <2>1. db'.wf = "running" /\ db.wf = "none"
        BY <1>3 DEF CreateWorkflow, InsertCoord, Insert, Rows
    <2>2. React(1, {}) /\ 1 \in 0..MaxNodes
        BY <1>3, MaxNodesAssumption DEF CreateWorkflow
    <2> QED BY <2>1, <2>2, ReactMemory DEF Terminal
<1>4. ASSUME NEW k \in NodeKind, NEW a \in Agents \cup {NoAgent}, NEW parents \in SUBSET Node,
             AddNode(k, a, parents)
      PROVE  MemoryOK' /\ Header
    <2> DEFINE n == db.lastId + 1
    <2>1. React(0, {n}) /\ db.wf = "running" /\ n <= CallerNodes
        BY <1>4 DEF AddNode, Mutation
    <2>2. n \in Node
        <3>1. n <= CallerNodes
            BY <2>1
        <3> QED BY <3>1, CallerAssumption, MaxNodesAssumption DEF Node
    <2>3. CASE Commit(Insert(db, n, k, a, parents))
        <3> DEFINE d == Insert(db, n, k, a, parents)
        <3>1. d = [f \in DOMAIN d |-> d[f]] /\ d.lastId = n /\ d.wf = db.wf
            BY DEF Insert, Rows
        <3> HIDE DEF d
        <3>2. Commit(d) /\ n \in Nat
            BY <2>2, <2>3 DEF d, Node
        <3>3. Header
            BY <1>2, <2>1, <3>1, <3>2
        <3>4. MemoryOK'
            BY <2>1, <2>2, ReactMemory, MaxNodesAssumption
        <3> QED BY <3>3, <3>4
    <2>4. CASE Commit(InsertCoord(db, n, a, parents))
        <3> DEFINE d == InsertCoord(db, n, a, parents)
        <3>1. d = [f \in DOMAIN d |-> d[f]] /\ d.lastId = n /\ d.wf = db.wf
            <4>1. d = [f \in DOMAIN d |-> d[f]]
                BY DEF InsertCoord, Insert
            <4>2. d.lastId = n /\ d.wf = db.wf
                BY DEF InsertCoord, Insert, Rows
            <4> QED BY <4>1, <4>2
        <3> HIDE DEF d
        <3>2. Commit(d) /\ n \in Nat
            BY <2>2, <2>4 DEF d, Node
        <3>3. Header
            BY <1>2, <2>1, <3>1, <3>2
        <3>4. MemoryOK'
            BY <2>1, <2>2, ReactMemory, MaxNodesAssumption
        <3> QED BY <3>3, <3>4
    <2> QED BY <1>4, <2>3, <2>4 DEF AddNode
<1>5. ASSUME NEW from \in Node, NEW to \in Node, AddEdge(from, to) PROVE MemoryOK' /\ Header
    <2> DEFINE d == [db EXCEPT !.edges = db.edges \cup {<<from, to>>}]
    <2>1. d = [f \in DOMAIN d |-> d[f]] /\ d.lastId = db.lastId /\ d.wf = db.wf
        BY DEF Rows
    <2>2. React(0, NotStartedBelow(d, {to})) /\ db.wf = "running" /\ Commit(d)
        BY <1>5 DEF AddEdge, Mutation
    <2>3. NotStartedBelow(d, {to}) \subseteq Node
        BY DEF NotStartedBelow
    <2> HIDE DEF d
    <2>4. Header
        BY <1>2, <2>1, <2>2
    <2>5. MemoryOK'
        BY <2>2, <2>3, ReactMemory, MaxNodesAssumption
    <2> QED BY <2>4, <2>5
<1>6. ASSUME NEW from \in Node, NEW to \in Node, RemoveEdge(from, to) PROVE MemoryOK' /\ Header
    <2> DEFINE d == [db EXCEPT !.edges = db.edges \ {<<from, to>>}]
    <2>1. d = [f \in DOMAIN d |-> d[f]] /\ d.lastId = db.lastId /\ d.wf = db.wf
        BY DEF Rows
    <2>2. React(RetryNode(d), {}) /\ db.wf = "running" /\ Commit(d)
        BY <1>6 DEF RemoveEdge, Mutation
    <2> HIDE DEF d
    <2>3. Header /\ RetryNode(d) \in 0..MaxNodes
        BY <1>2, <2>1, <2>2
    <2>4. MemoryOK'
        BY <2>2, <2>3, ReactMemory
    <2> QED BY <2>3, <2>4
<1>7. ASSUME NEW n \in Node, RemoveNode(n) PROVE MemoryOK' /\ Header
    <2> DEFINE d == DeleteNode(db, n)
    <2>1. d = [f \in DOMAIN d |-> d[f]] /\ d.lastId = db.lastId /\ d.wf = db.wf
        <3>1. d = [f \in DOMAIN d |-> d[f]]
            BY DEF DeleteNode
        <3>2. d.lastId = db.lastId /\ d.wf = db.wf
            BY DEF DeleteNode, Rows
        <3> QED BY <3>1, <3>2
    <2>2. React(RetryNode(d), {}) /\ db.wf = "running" /\ Commit(d)
        BY <1>7 DEF RemoveNode, Mutation
    <2> HIDE DEF d
    <2>3. Header /\ RetryNode(d) \in 0..MaxNodes
        BY <1>2, <2>1, <2>2
    <2>4. MemoryOK'
        BY <2>2, <2>3, ReactMemory
    <2> QED BY <2>3, <2>4
<1>8. ASSUME NEW n \in Node, CancelNode(n) PROVE MemoryOK' /\ Header
    <2> DEFINE d == [db EXCEPT !.status[n] = "cancelled"]
    <2>1. d = [f \in DOMAIN d |-> d[f]] /\ d.lastId = db.lastId /\ d.wf = db.wf
        BY DEF Rows
    <2>2. /\ db.wf = "running" /\ Commit(d)
          /\ React(0, {RetryNode(d)} \ {0}) \/ React(RetryNode(d), {})
        BY <1>8 DEF CancelNode, Mutation
    <2> HIDE DEF d
    <2>3. Header /\ RetryNode(d) \in 0..MaxNodes
        BY <1>2, <2>1, <2>2, MaxNodesAssumption
    <2>4. {RetryNode(d)} \ {0} \subseteq Node /\ 0 \in 0..MaxNodes
        BY <2>3, MaxNodesAssumption DEF Node
    <2> QED BY <2>2, <2>3, <2>4, ReactMemory
<1>9. ASSUME NEW n \in Node, NEW a \in Agents \cup {NoAgent}, ReplaceNodeSpec(n, a)
      PROVE  MemoryOK' /\ Header
    <2> DEFINE youngest == \A m \in Coords(db) : m <= n
               d == IF db.kind[n] = "worker" THEN db
                    ELSE [db EXCEPT !.agent[n] = a,
                                    !.coordAgent = IF youngest THEN a ELSE db.coordAgent]
    <2>1. d = [f \in DOMAIN d |-> d[f]] /\ d.lastId = db.lastId /\ d.wf = db.wf
        <3> HIDE DEF youngest
        <3> QED BY DEF Rows
    <2>2. React(RetryNode(d), {}) /\ db.wf = "running" /\ Commit(d)
        BY <1>9 DEF ReplaceNodeSpec, Mutation
    <2> HIDE DEF d
    <2>3. Header /\ RetryNode(d) \in 0..MaxNodes
        BY <1>2, <2>1, <2>2
    <2>4. MemoryOK'
        BY <2>2, <2>3, ReactMemory
    <2> QED BY <2>3, <2>4
<1>10. ASSUME Batch PROVE MemoryOK' /\ Header
    <2>1. PICK size \in 1..MaxBatch, X \in BatchEdges, a \in Agents :
            \E kinds \in [(db.lastId + 1)..(db.lastId + size) -> NodeKind],
               via \in [(db.lastId + 1)..(db.lastId + size) -> SUBSET Present(db)] :
                AddSubgraph(size, kinds, via, X, a)
        BY <1>10 DEF Batch
    <2>2. PICK kinds, via : AddSubgraph(size, kinds, via, X, a)
        BY <2>1
    <2> DEFINE d == WithSubgraph(size, (db.lastId + 1)..(db.lastId + size), kinds, via, X, a)
    <2>3. d = [f \in DOMAIN d |-> d[f]] /\ d.lastId = db.lastId + size /\ d.wf = db.wf
        <3>1. d = [f \in DOMAIN d |-> d[f]]
            BY DEF WithSubgraph
        <3>2. d.lastId = db.lastId + size /\ d.wf = db.wf
            BY DEF WithSubgraph, Rows
        <3> QED BY <3>1, <3>2
    <2>4. React(RetryNode(d), {}) /\ db.wf = "running" /\ Commit(d)
        BY <2>2 DEF AddSubgraph, Mutation
    <2>5. d.lastId \in Nat
        BY <2>3, BatchAssumption
    <2> HIDE DEF d
    <2>6. Header /\ RetryNode(d) \in 0..MaxNodes
        BY <1>2, <2>3, <2>4, <2>5
    <2>7. MemoryOK'
        BY <2>4, <2>6, ReactMemory
    <2> QED BY <2>6, <2>7
<1>11. ASSUME End PROVE MemoryOK' /\ Header
    <2>1. ASSUME NEW outcome \in Terminal, EndWorkflow(outcome) PROVE MemoryOK' /\ Header
        <3>1. db'.wf = outcome /\ db.wf = "running"
            BY <2>1 DEF EndWorkflow, Mutation, Rows
        <3>2. MemoryOK'
            BY <2>1 DEF EndWorkflow, MemoryOK, CancelTargets
        <3> QED BY <2>1, <3>1, <3>2 DEF Terminal
    <2>2. ASSUME NEW n \in Node, ReconcileNode(n) PROVE MemoryOK' /\ Header
        <3>1. db'.wf = db.wf /\ (db.wf = "none" => db' = db)
            BY <2>2 DEF ReconcileNode, IsPending, IInv, NoRows, Rows
        <3>2. MemoryOK'
            BY <2>2 DEF ReconcileNode, MemoryOK
        <3> QED BY <3>1, <3>2 DEF Terminal
    <2> QED BY <1>11, <2>1, <2>2 DEF End, FinishWorkflow, CancelWorkflow, Terminal
<1>12. ASSUME Engine PROVE MemoryOK' /\ Header
    <2>1. ASSUME NEW n \in Node, DispatchTx(n)
          PROVE  Header /\ watch' \subseteq Node
        BY <2>1 DEF DispatchTx, Eligible, Rows, MemoryOK, Terminal
    <2>2. CASE DispatchTurn
        <3>1. turn \in Node
            BY <2>2, MaxNodesAssumption DEF DispatchTurn, MemoryOK, Node
        <3> QED BY <2>1, <2>2, <3>1, MaxNodesAssumption DEF DispatchTurn, MemoryOK
    <2>3. CASE Tick
        BY <1>1, <2>3 DEF Tick, MemoryOK
    <2>4. ASSUME NEW n \in Node, DispatchAtomic(n) PROVE MemoryOK' /\ Header
        BY <2>1, <2>4 DEF DispatchAtomic, MemoryOK
    <2> QED BY <1>12, <2>2, <2>3, <2>4 DEF Engine
<1>13. ASSUME Report PROVE MemoryOK' /\ Header
    <2>1. PICK n \in Node, outcome \in Terminal : MarkNodeTerminal(n, outcome)
        BY <1>13 DEF Report
    <2>2. CASE ~IsPending(db, n)
        BY <1>1, <2>1, <2>2 DEF MarkNodeTerminal, MemoryOK
    <2>3. CASE IsPending(db, n)
        <3>1. PICK last \in EndedOrders(db, n) :
                  /\ Commit([db EXCEPT !.status[n] = outcome, !.lastEnded = last])
                  /\ turn' = RetryNode([db EXCEPT !.status[n] = outcome, !.lastEnded = last])
                  /\ nudged' = TRUE
            BY <2>1, <2>3 DEF MarkNodeTerminal
        <3> DEFINE d == [db EXCEPT !.status[n] = outcome, !.lastEnded = last]
        <3>2. d = [f \in DOMAIN d |-> d[f]] /\ d.lastId = db.lastId /\ d.wf = db.wf
            BY DEF Rows
        <3>3. Commit(d) /\ turn' = RetryNode(d) /\ nudged' = TRUE
            BY <3>1
        <3> HIDE DEF d
        <3>4. /\ RetryNode(d) \in 0..MaxNodes /\ db'.wf \in {d.wf, "failed"}
              /\ db'.wf # d.wf => d.wf = "running"
              /\ db'.wf # d.wf => \A m \in Node : ~IsPending(db', m)
            BY <3>2, <3>3, CommitHeader, MaxNodesAssumption
        <3>5. db.wf # "none"
            BY <2>3 DEF IInv, NoRows, IsPending
        <3>6. MemoryOK'
            BY <2>1, <3>3, <3>4 DEF MarkNodeTerminal, MemoryOK
        <3> QED BY <3>2, <3>4, <3>5, <3>6 DEF Terminal
    <2> QED BY <2>2, <2>3
<1>14. ASSUME Crash PROVE MemoryOK' /\ Header
    <2>1. Header
        BY <1>1, <1>14 DEF Crash
    <2>2. crashes' \in 0..MaxCrashes
        BY <1>14, CrashAssumption DEF Crash, MemoryOK
    <2>3. 0 \in 0..MaxNodes
        BY MaxNodesAssumption
    <2> QED BY <1>14, <2>1, <2>2, <2>3 DEF Crash, MemoryOK
<1>15. ASSUME Edit PROVE MemoryOK' /\ Header
    BY <1>4, <1>5, <1>6, <1>7, <1>8, <1>9, <1>15 DEF Edit
<1>16. MemoryOK' /\ Header
    BY <1>3, <1>10, <1>11, <1>12, <1>13, <1>14, <1>15 DEF Next
<1> QED BY <1>16

\* A runner watches only nodes that were started.
LEMMA StepWatch ==
    ASSUME IInv, Next
    PROVE  \A n \in watch' : db'.status[n] \in {"running"} \cup Terminal
<1>1. Untouched(db, db')
    BY StepRows
<1>2. \A n \in watch : db'.status[n] \in {"running"} \cup Terminal
    BY <1>1 DEF IInv, Untouched, TypeOK, IsOver
<1>3. CASE watch' \subseteq watch
    BY <1>2, <1>3
<1>4. ASSUME NEW n \in Node, DispatchTx(n), ~(watch' \subseteq watch)
      PROVE  watch' = watch \cup {n} /\ db'.status[n] = "running"
    BY <1>4 DEF DispatchTx, IInv, SoundRows, Rows
<1>5. CASE Engine /\ ~(watch' \subseteq watch)
    <2>1. PICK n \in Node : DispatchTx(n)
        BY <1>5, MaxNodesAssumption DEF Engine, DispatchTurn, DispatchAtomic, Tick, IInv, TypeOK, Node
    <2> QED BY <1>2, <1>4, <1>5, <2>1
<1>6. ASSUME Next, ~Engine PROVE watch' \subseteq watch
    <2>1. ASSUME NEW retry, NEW eager, React(retry, eager) PROVE watch' = watch
        BY <2>1 DEF React
    <2>2. ASSUME NEW a \in Agents, CreateWorkflow(a) PROVE watch' = watch
        BY <2>1, <2>2 DEF CreateWorkflow
    <2>3. ASSUME Edit PROVE watch' = watch
        BY <2>1, <2>3 DEF Edit, AddNode, AddEdge, RemoveEdge, RemoveNode, CancelNode,
           ReplaceNodeSpec
    <2>4. ASSUME Batch PROVE watch' = watch
        BY <2>1, <2>4 DEF Batch, AddSubgraph
    <2>5. ASSUME End PROVE watch' = watch
        BY <2>5 DEF End, FinishWorkflow, CancelWorkflow, EndWorkflow, ReconcileNode
    <2>6. ASSUME Report PROVE watch' \subseteq watch
        BY <2>6 DEF Report, MarkNodeTerminal
    <2>7. ASSUME Crash PROVE watch' \subseteq watch
        BY <2>7 DEF Crash
    <2> QED BY <1>6, <2>2, <2>3, <2>4, <2>5, <2>6, <2>7 DEF Next
<1> QED BY <1>3, <1>5, <1>6

LEMMA InitIInv == Init => IInv
<1> SUFFICES ASSUME Init PROVE IInv
    OBVIOUS
<1>1. SoundRows(db)
    BY NoRowsSound DEF Init
<1>2. Justified(db)
    BY DEF Init, Justified, NoRows, Started
<1>4. Chained(db)
    <2>1. \A n \in Node : ~(db.attempt[n] > 0)
        BY DEF Init, NoRows
    <2> QED BY <2>1, Zenon DEF Chained
<1>3. TypeOK
    <2>1. 0 \in 0..MaxNodes /\ 0 \in 0..MaxCrashes
        BY MaxNodesAssumption, CrashAssumption
    <2> QED BY <1>1, <2>1 DEF Init, TypeOK, SoundRows
<1> QED BY <1>1, <1>2, <1>3, <1>4 DEF Init, IInv

LEMMA StepIInv == IInv /\ [Next]_vars => IInv'
<1> SUFFICES ASSUME IInv, [Next]_vars PROVE IInv'
    OBVIOUS
<1>1. SoundRows(db') /\ Justified(db') /\ Chained(db')
    BY StepRows
<1>2. CASE Next
    <2>1. MemoryOK'
        BY <1>2, StepHeader
    <2>2. TypeOK'
        BY <1>1, <2>1 DEF TypeOK, MemoryOK, SoundRows
    <2>3. \A n \in watch' : db'.status[n] \in {"running"} \cup Terminal
        BY <1>2, StepWatch
    <2>4. db'.wf = "none" => db' = NoRows
        <3>1. db.wf \in {"none", "running"} \cup Terminal
            BY DEF IInv, SoundRows, Rows, WorkflowStatus, Terminal
        <3> QED BY <1>2, <3>1, StepHeader DEF IInv, Terminal
    <2> QED BY <1>1, <2>2, <2>3, <2>4 DEF IInv
<1>3. CASE UNCHANGED vars
    BY <1>1, <1>3 DEF vars, memory, IInv, TypeOK
<1> QED BY <1>2, <1>3

\* IInv holds in every reachable state.
THEOREM Invariance == Spec => []IInv
<1>1. Init => IInv
    BY InitIInv
<1>2. IInv /\ [Next]_vars => IInv'
    BY StepIInv
<1> QED BY <1>1, <1>2, PTL DEF Spec

\* Every variable keeps its type, for every size of workflow.
THEOREM TypeCorrect == Spec => []TypeOK
<1>1. IInv => TypeOK
    BY DEF IInv
<1> QED BY <1>1, Invariance, PTL

\* No sequence of edits, batches, retries and crashes leaves a cycle, an edge
\* to a missing row or a row without parents.
THEOREM GraphStaysRooted == Spec => []RootedDag
<1>1. IInv => RootedDag
    BY DEF IInv, SoundRows, RootedDag
<1> QED BY <1>1, Invariance, PTL

\* The parents that justified the start of a node stay under it.
THEOREM StartsStayJustified == Spec => []StartJustified
<1>1. IInv => StartJustified
    BY DEF IInv, Justified, Started, StartJustified
<1> QED BY <1>1, Invariance, PTL

\* Retry coordinators hang below one another, one at a time, and count to the
\* cap, whatever is edited or removed between them and wherever the process dies.
THEOREM RetriesCount == Spec => []RetryChain
<1>1. IInv => RetryChain
    <2> SUFFICES ASSUME IInv PROVE RetryChain
        OBVIOUS
    <2>1. Chained(db) /\ \A n \in Node : db.attempt[n] <= StuckRetryMaxAttempts
        BY RetryAssumption DEF IInv, SoundRows, Rows
    <2> QED BY <2>1 DEF Chained, RetryChain
<1> QED BY <1>1, Invariance, PTL

\* The sealing rule, as a property of steps.
THEOREM SealingHolds == Spec => Sealed
<1>1. IInv /\ [Next]_vars => [SealedStep]_vars
    <2> SUFFICES ASSUME IInv, [Next]_vars PROVE [SealedStep]_vars
        OBVIOUS
    <2>1. CASE Next
        <3>1. Untouched(db, db')
            BY StepRows
        <3>2. db.wf \in Terminal => db'.wf = db.wf
            BY <2>1, StepHeader
        <3> QED BY <3>1, <3>2 DEF SealedStep, Untouched
    <2>2. CASE UNCHANGED vars
        BY <2>2
    <2> QED BY <2>1, <2>2
<1> QED BY <1>1, Invariance, PTL DEF Spec, Sealed

-----------------------------------------------------------------------------
(* The contract: the history of each node. *)

\* A dispatch starts one node of a running workflow; no other step starts one.
LEMMA StepStarts ==
    ASSUME IInv, Next
    PROVE  \/ \A n \in Node : db'.status[n] \in Started => db.status[n] \in Started
           \/ \E n \in Node :
                /\ db.wf = "running" /\ db'.wf = "running"
                /\ db.status[n] = "not_started" /\ db'.status[n] = "running"
                /\ db'.lastId = db.lastId
                /\ \A m \in Node \ {n} : db'.status[m] = db.status[m]
<1> USE DEF IInv
<1> DEFINE Quiet1 == \A n \in Node : db'.status[n] \in Started => db.status[n] \in Started
           Start1 == \E n \in Node :
                /\ db.wf = "running" /\ db'.wf = "running"
                /\ db.status[n] = "not_started" /\ db'.status[n] = "running"
                /\ db'.lastId = db.lastId
                /\ \A m \in Node \ {n} : db'.status[m] = db.status[m]
<1>1. ASSUME NEW a \in Agents, CreateWorkflow(a) PROVE Quiet1
    BY <1>1, CreateRows DEF CreateWorkflow, Keeps
<1>2. ASSUME Edit PROVE Quiet1
    BY <1>2, AddNodeRows, AddEdgeRows, RemoveEdgeRows, RemoveNodeRows, CancelNodeRows,
       ReplaceNodeSpecRows DEF Edit, Keeps
<1>3. ASSUME Batch PROVE Quiet1
    BY <1>3, AddSubgraphRows, BatchAssumption DEF Batch, Keeps
<1>4. ASSUME End PROVE Quiet1
    BY <1>4, EndWorkflowRows, ReconcileNodeRows
       DEF End, FinishWorkflow, CancelWorkflow, Terminal, Keeps
<1>5. ASSUME Engine PROVE Quiet1 \/ Start1
    <2>1. ASSUME NEW n \in Node, DispatchTx(n) PROVE Quiet1 \/ Start1
        <3>1. CASE ~Eligible(db, n)
            BY <2>1, <3>1 DEF DispatchTx
        <3>2. CASE Eligible(db, n)
            <4>1. /\ db'.status = [db.status EXCEPT ![n] = "running"]
                  /\ db'.wf = db.wf /\ db'.lastId = db.lastId
                BY <2>1, <3>2 DEF DispatchTx, SoundRows, Rows
            <4>2. /\ db.wf = "running" /\ db.status[n] = "not_started"
                  /\ db'.status[n] = "running"
                  /\ \A m \in Node \ {n} : db'.status[m] = db.status[m]
                BY <3>2, <4>1 DEF Eligible, SoundRows, Rows
            <4> QED BY <4>1, <4>2
        <3> QED BY <3>1, <3>2
    <2>2. CASE DispatchTurn
        <3>1. turn \in Node
            BY <2>2, MaxNodesAssumption DEF DispatchTurn, TypeOK, Node
        <3> QED BY <2>1, <2>2, <3>1 DEF DispatchTurn
    <2>3. CASE Tick
        BY <2>3 DEF Tick
    <2>4. ASSUME NEW n \in Node, DispatchAtomic(n) PROVE Quiet1 \/ Start1
        BY <2>1, <2>4 DEF DispatchAtomic
    <2> HIDE DEF Quiet1, Start1
    <2> QED BY <1>5, <2>2, <2>3, <2>4 DEF Engine
<1>6. ASSUME Report PROVE Quiet1
    <2>1. PICK n \in Node, outcome \in Terminal : MarkNodeTerminal(n, outcome)
        BY <1>6 DEF Report
    <2>2. n \in watch
        BY <2>1 DEF MarkNodeTerminal
    <2> QED BY <2>1, <2>2, MarkNodeTerminalRows DEF Keeps
<1>7. ASSUME Crash PROVE Quiet1
    BY <1>7 DEF Crash
<1> HIDE DEF Quiet1, Start1
<1>8. Quiet1 \/ Start1
    BY <1>1, <1>2, <1>3, <1>4, <1>5, <1>6, <1>7 DEF Next
<1> QED BY <1>8 DEF Quiet1, Start1

\* Once the workflow is over no node is created or removed.
LEMMA StepOver ==
    ASSUME IInv, Next, db.wf \in Terminal
    PROVE  /\ db'.lastId = db.lastId
           /\ \A n \in Node : db'.status[n] = "absent" => db.status[n] = "absent"
<1> db \in Rows /\ db.wf \notin {"none", "running"}
    BY DEF IInv, SoundRows, Terminal
<1> DEFINE Same == /\ db'.lastId = db.lastId
                   /\ \A n \in Node : db'.status[n] = "absent" => db.status[n] = "absent"
<1>1. ~Edit
    BY DEF Edit, AddNode, AddEdge, RemoveEdge, RemoveNode, CancelNode, ReplaceNodeSpec, Mutation
<1>2. ~Batch /\ \A a \in Agents : ~CreateWorkflow(a)
    BY DEF Batch, Mutation, CreateWorkflow
<1>3. ASSUME End PROVE Same
    <2>1. PICK n \in Node : ReconcileNode(n)
        BY <1>3 DEF End, FinishWorkflow, CancelWorkflow, EndWorkflow, Mutation
    <2> QED BY <2>1 DEF ReconcileNode, Rows
<1>4. ASSUME Engine PROVE Same
    <2>1. db' = db
        BY <1>4 DEF Engine, DispatchTurn, Tick, DispatchAtomic, DispatchTx, Eligible
    <2> QED BY <2>1
<1>5. ASSUME Report PROVE Same
    <2>1. PICK n \in Node, outcome \in Terminal : MarkNodeTerminal(n, outcome)
        BY <1>5 DEF Report
    <2>2. CASE ~IsPending(db, n)
        BY <2>1, <2>2 DEF MarkNodeTerminal
    <2>3. CASE IsPending(db, n)
        <3>1. PICK last \in EndedOrders(db, n) :
                  Commit([db EXCEPT !.status[n] = outcome, !.lastEnded = last])
            BY <2>1, <2>3 DEF MarkNodeTerminal
        <3> DEFINE d == [db EXCEPT !.status[n] = outcome, !.lastEnded = last]
        <3>2. d.wf = db.wf /\ d.lastId = db.lastId /\ d.status = [db.status EXCEPT ![n] = outcome]
            BY DEF Rows
        <3>3. Commit(d)
            BY <3>1
        <3> HIDE DEF d
        <3>4. db' = d
            BY <3>2, <3>3 DEF Commit, CheckStuckAndRecover, Stuck
        <3> QED BY <3>2, <3>4 DEF Rows, Terminal
    <2> QED BY <2>2, <2>3
<1>6. ASSUME Crash PROVE Same
    BY <1>6 DEF Crash
<1> QED BY <1>1, <1>2, <1>3, <1>4, <1>5, <1>6 DEF Next

\* The life of each node moves as the contract says.
Moves(n) ==
    \/ Life'[n] = Life[n]
    \/ Contract!Born(Life[n], Life'[n])
    \/ Contract!Removed(Life[n], Life'[n])
    \/ Contract!Ends(Life[n], Life'[n])

LEMMA LifeMoves ==
    ASSUME IInv, SoundRows(db'), Untouched(db, db'), Grows(db, db'), NEW n \in Node,
           db'.status[n] \in Started => db.status[n] \in Started
    PROVE  Moves(n)
<1>1. /\ db.status[n] \in NodeStatus /\ db'.status[n] \in NodeStatus
      /\ db.lastId \in Nat /\ db'.lastId \in Nat
      /\ n > db.lastId => db.status[n] = "absent"
      /\ n > db'.lastId => db'.status[n] = "absent"
    BY DEF IInv, SoundRows, Rows
<1>2. /\ Life[n] = IF db.status[n] # "absent" THEN db.status[n]
                   ELSE IF n <= db.lastId THEN "removed" ELSE "unborn"
      /\ Life'[n] = IF db'.status[n] # "absent" THEN db'.status[n]
                    ELSE IF n <= db'.lastId THEN "removed" ELSE "unborn"
    BY DEF Life
<1>3. n \in Nat /\ (n <= db.lastId => n <= db'.lastId) /\ (n > db.lastId <=> ~(n <= db.lastId))
      /\ (n > db'.lastId <=> ~(n <= db'.lastId))
    BY <1>1 DEF Grows, Node
<1>4. IF n <= db.lastId THEN db.status[n] = "absent" => db'.status[n] = "absent"
      ELSE n <= db'.lastId => db'.status[n] = "not_started"
    BY DEF Grows
<1>5. db.status[n] \in {"running"} \cup Terminal =>
         IF IsOver(db, n) THEN db'.status[n] = db.status[n]
                          ELSE db'.status[n] \in {"running"} \cup Terminal
    BY DEF Untouched
<1>6. CASE db.status[n] = "absent"
    BY <1>1, <1>2, <1>3, <1>4, <1>6 DEF Moves, Contract!Born
<1>7. CASE db.status[n] = "not_started"
    BY <1>1, <1>2, <1>3, <1>7 DEF Moves, Contract!Removed, Contract!Ends, Contract!Ended, NodeStatus, Terminal, Started
<1>8. CASE db.status[n] \in {"running"} \cup Terminal
    BY <1>2, <1>5, <1>8 DEF Moves, Contract!Ends, Contract!Ended, IsOver, Terminal
<1> QED BY <1>1, <1>6, <1>7, <1>8 DEF NodeStatus

LEMMA LifeType ==
    ASSUME NEW d, d.status \in [Node -> NodeStatus], NEW n \in Node
    PROVE  (IF d.status[n] # "absent" THEN d.status[n] ELSE IF n <= d.lastId THEN "removed" ELSE "unborn")
              \in {"unborn", "not_started", "running", "removed"} \cup Contract!Ended
BY DEF NodeStatus, Terminal, Contract!Ended

LEMMA StepContract ==
    ASSUME IInv, [Next]_vars
    PROVE  [Contract!Next]_<<db.wf, Life>>
<1>1. CASE UNCHANGED vars
    BY <1>1 DEF vars, Life
<1>2. CASE Next
    <2>1. SoundRows(db') /\ Untouched(db, db') /\ Grows(db, db')
        BY <1>2, StepRows
    <2>2. /\ db.wf \in WorkflowStatus /\ db'.wf \in WorkflowStatus
          /\ db.lastId \in Nat /\ db'.lastId \in 0..MaxNodes
          /\ db'.status \in [Node -> NodeStatus]
        BY <2>1 DEF IInv, SoundRows, Rows
    <2>3. Life' \in [Node -> {"unborn", "not_started", "running", "removed"} \cup Contract!Ended]
        BY <2>2, LifeType DEF Life
    <2>4. /\ db.wf \in Terminal => db'.wf = db.wf
          /\ db.wf = "running" => db'.wf # "none"
          /\ db.wf = "none" => db' = db \/ db'.wf = "running"
          /\ db.wf = "running" /\ db'.wf # "running" =>
                 \/ \A n \in Node : ~IsPending(db', n)
                 \/ \E outcome \in Terminal : EndWorkflow(outcome)
        BY <1>2, StepHeader
    <2>5. CASE \E n \in Node :
                /\ db.wf = "running" /\ db'.wf = "running"
                /\ db.status[n] = "not_started" /\ db'.status[n] = "running"
                /\ db'.lastId = db.lastId
                /\ \A m \in Node \ {n} : db'.status[m] = db.status[m]
        <3>1. Contract!Start
            BY <2>5 DEF Contract!Start, Contract!Started, Life
        <3> QED BY <2>3, <3>1 DEF Contract!Next
    <2>6. CASE \A n \in Node : db'.status[n] \in Started => db.status[n] \in Started
        <3>1. \A n \in Node : Moves(n)
            BY <2>1, <2>6, LifeMoves
        <3>2. CASE db.wf = "running" /\ db'.wf = "running"
            BY <2>3, <3>1, <3>2 DEF Moves, Contract!Next, Contract!Edit
        <3>3. CASE db.wf = "running" /\ db'.wf \in Terminal
            <4>1. \A n \in Node : ~Contract!Born(Life[n], Life'[n])
                <5> SUFFICES ASSUME NEW n \in Node, Contract!Born(Life[n], Life'[n]) PROVE FALSE
                    OBVIOUS
                <5>1. db.status[n] = "absent" /\ ~(n <= db.lastId) /\ db'.status[n] = "not_started"
                    BY <2>2 DEF Contract!Born, Life, IInv, SoundRows, Rows, NodeStatus, Terminal
                <5>2. db'.lastId = db.lastId
                    <6>1. IsPending(db', n)
                        BY <5>1 DEF IsPending
                    <6>2. PICK outcome \in Terminal : EndWorkflow(outcome)
                        BY <2>4, <3>3, <6>1 DEF Terminal
                    <6> QED BY <6>2 DEF EndWorkflow, IInv, SoundRows, Rows
                <5>3. n > db'.lastId
                    BY <2>2, <5>1, <5>2 DEF Node
                <5> QED BY <2>1, <5>1, <5>3 DEF SoundRows
            <4> QED BY <2>3, <3>1, <3>3, <4>1 DEF Moves, Contract!Next, Contract!Close, Contract!Ended, Terminal
        <3>4. CASE db.wf \in Terminal
            <4>1. /\ db'.lastId = db.lastId
                  /\ \A n \in Node : db'.status[n] = "absent" => db.status[n] = "absent"
                BY <1>2, <3>4, StepOver
            <4>2. \A n \in Node : /\ ~Contract!Born(Life[n], Life'[n])
                                  /\ ~Contract!Removed(Life[n], Life'[n])
                <5> TAKE n \in Node
                <5>1. db.status[n] \in NodeStatus /\ db'.status[n] \in NodeStatus
                    BY <2>2 DEF IInv, SoundRows, Rows
                <5>2. n > db.lastId => db'.status[n] = "absent"
                    BY <2>1, <4>1 DEF SoundRows
                <5>3. n > db.lastId \/ n <= db.lastId
                    BY <2>2 DEF Node
                <5> QED BY <4>1, <5>1, <5>2, <5>3 DEF Contract!Born, Contract!Removed, Life, NodeStatus, Terminal
            <4> QED BY <2>3, <2>4, <3>1, <3>4, <4>2 DEF Moves, Contract!Next, Contract!WindDown, Contract!Ended, Terminal
        <3>5. CASE db.wf = "none"
            <4>1. db = NoRows
                BY <3>5 DEF IInv
            <4>2. CASE db' = db
                BY <4>2 DEF Life
            <4>3. CASE db'.wf = "running"
                <5>1. \A n \in Node : Life[n] = "unborn"
                    BY <4>1, MaxNodesAssumption DEF Life, NoRows, Node
                <5>2. \A n \in Node : Life'[n] = Life[n] \/ Contract!Born(Life[n], Life'[n])
                    BY <3>1, <5>1 DEF Moves, Contract!Removed, Contract!Ends
                <5> QED BY <2>3, <3>5, <4>3, <5>2 DEF Contract!Next, Contract!Create
            <4> QED BY <2>4, <3>5, <4>2, <4>3
        <3> QED BY <2>2, <2>4, <3>2, <3>3, <3>4, <3>5 DEF WorkflowStatus, Terminal
    <2> QED BY <1>2, <2>5, <2>6, StepStarts
<1> QED BY <1>1, <1>2

\* WorkflowService keeps the contract: whatever is edited, dispatched,
\* reported, retried and reconciled, and wherever the process dies, the header
\* ends once, and each node is started at most once, in a running workflow.
THEOREM ContractIsKept == Spec => KeepsContract
<1>1. Init => Contract!Init
    <2> SUFFICES ASSUME Init PROVE Contract!Init
        OBVIOUS
    <2>1. db = NoRows
        BY DEF Init
    <2>2. \A n \in Node : Life[n] = "unborn"
        BY <2>1, MaxNodesAssumption DEF Life, NoRows, Node
    <2>3. Life = [n \in Node |-> "unborn"]
        BY <2>2 DEF Life
    <2> QED BY <2>1, <2>3 DEF Contract!Init, NoRows
<1>2. IInv /\ [Next]_vars => [Contract!Next]_<<db.wf, Life>>
    BY StepContract
<1> QED BY <1>1, <1>2, Invariance, PTL DEF Spec, KeepsContract, Contract!Spec

-----------------------------------------------------------------------------
(* What a workflow leaves behind. *)

\* Without a crash, a pending node of a workflow that is over is on the list
\* of the reconciliation, or it is a running coordinator that was spared.
Pursued ==
    crashes = 0 /\ db.wf \in Terminal =>
        \A n \in Node : IsPending(db, n) =>
            n \in targets \/ (db.kind[n] = "coordinator" /\ db.status[n] = "running" /\ db.wf # "cancelled")

\* The list loses a node only when the node is over.
LEMMA StepTargets ==
    ASSUME IInv, Next, crashes' = 0, db.wf \in Terminal, NEW n \in targets
    PROVE  n \in targets' \/ ~IsPending(db', n)
<1> db \in Rows /\ n \in Node /\ db.wf \notin {"none", "running"} /\ crashes \in Nat
    BY CrashAssumption DEF IInv, SoundRows, Terminal, TypeOK
<1>1. ~Edit /\ ~Batch /\ \A a \in Agents : ~CreateWorkflow(a)
    BY DEF Edit, AddNode, AddEdge, RemoveEdge, RemoveNode, CancelNode, ReplaceNodeSpec,
           Batch, CreateWorkflow, Mutation
<1>2. ASSUME End PROVE n \in targets' \/ ~IsPending(db', n)
    <2>1. PICK m \in Node : ReconcileNode(m)
        BY <1>2 DEF End, FinishWorkflow, CancelWorkflow, EndWorkflow, Mutation
    <2>2. CASE m # n
        BY <2>1, <2>2 DEF ReconcileNode
    <2>3. CASE m = n
        BY <2>1, <2>3 DEF ReconcileNode, IsPending, Rows
    <2> QED BY <2>2, <2>3
<1>3. ASSUME Engine PROVE targets' = targets
    BY <1>3 DEF Engine, DispatchTurn, Tick, DispatchAtomic
<1>4. ASSUME Report PROVE targets' = targets
    BY <1>4 DEF Report, MarkNodeTerminal
<1>5. ~Crash
    BY DEF Crash
<1> QED BY <1>1, <1>2, <1>3, <1>4, <1>5 DEF Next

\* Only a crash is counted.
LEMMA StepCrashes ==
    ASSUME Next
    PROVE  crashes' = crashes \/ crashes' = crashes + 1
<1>1. ASSUME NEW retry, NEW eager, React(retry, eager) PROVE crashes' = crashes
    BY <1>1 DEF React
<1>2. ASSUME Edit PROVE crashes' = crashes
    BY <1>1, <1>2 DEF Edit, AddNode, AddEdge, RemoveEdge, RemoveNode, CancelNode, ReplaceNodeSpec
<1>4. ASSUME Batch PROVE crashes' = crashes
    BY <1>1, <1>4 DEF Batch, AddSubgraph
<1>5. ASSUME NEW a \in Agents, CreateWorkflow(a) PROVE crashes' = crashes
    BY <1>1, <1>5 DEF CreateWorkflow
<1>3. ASSUME End \/ Engine \/ Report PROVE crashes' = crashes
    BY <1>3 DEF End, FinishWorkflow, CancelWorkflow, EndWorkflow, ReconcileNode,
                Engine, DispatchTurn, Tick, DispatchAtomic, Report, MarkNodeTerminal
<1> QED BY <1>2, <1>3, <1>4, <1>5 DEF Next, Crash

LEMMA OverAddsNothing ==
    ASSUME IInv, Next, db.wf \in Terminal, NEW n \in Node, db'.status[n] # "absent"
    PROVE  db.status[n] # "absent"
<1>1. SoundRows(db') /\ Grows(db, db') /\ db'.lastId = db.lastId /\ db.lastId \in Nat
    BY StepRows, StepOver DEF IInv, SoundRows, Rows
<1>2. n <= db.lastId \/ n > db'.lastId
    BY <1>1 DEF Node
<1> QED BY <1>1, <1>2 DEF Grows, SoundRows

LEMMA StepPursued == IInv /\ Pursued /\ [Next]_vars => Pursued'
<1> SUFFICES ASSUME IInv, Pursued, [Next]_vars, crashes' = 0, db'.wf \in Terminal,
                    NEW n \in Node, IsPending(db', n)
             PROVE  n \in targets' \/ (/\ db'.kind[n] = "coordinator"
                                       /\ db'.status[n] = "running"
                                       /\ db'.wf # "cancelled")
    BY DEF Pursued
<1>1. CASE UNCHANGED vars
    <2>1. db' = db /\ targets' = targets /\ crashes' = crashes
        BY <1>1 DEF vars, memory
    <2> QED BY <2>1 DEF Pursued, IsPending
<1>2. CASE Next
    <2>1. crashes = 0
        <3>1. crashes \in Nat
            BY CrashAssumption DEF IInv, TypeOK
        <3>2. crashes' = crashes \/ crashes' = crashes + 1
            BY <1>2, StepCrashes
        <3> QED BY <3>1, <3>2
    <2>2. /\ db.wf \in Terminal => db'.wf = db.wf
          /\ db.wf = "none" => db' = db \/ db'.wf = "running"
          /\ db.wf = "running" => \E outcome \in Terminal : EndWorkflow(outcome)
        BY <1>2, StepHeader DEF Terminal
    <2>3. CASE db.wf = "running"
        <3>1. PICK outcome \in Terminal : EndWorkflow(outcome)
            BY <2>2, <2>3
        <3>2. /\ db'.status = db.status /\ db'.kind = db.kind /\ db'.wf = outcome
              /\ targets' = CancelTargets(outcome # "cancelled")
            BY <3>1 DEF EndWorkflow, IInv, SoundRows, Rows
        <3> QED BY <3>2 DEF CancelTargets, IsPending
    <2>4. CASE db.wf \in Terminal
        <3>1. /\ Untouched(db, db') /\ SoundRows(db')
              /\ db'.status[n] = "absent" => db.status[n] = "absent"
              /\ n \in targets => n \in targets'
            BY <1>2, <2>4, StepRows, StepOver, StepTargets
        <3>2. db.status[n] \in NodeStatus /\ db'.status[n] \in NodeStatus
            BY <3>1 DEF IInv, SoundRows, Rows
        <3>3. db'.status[n] = "running" => db.status[n] = "running"
            <4>1. db'.status[n] = "running" => db.status[n] \in Started
                BY <1>2, <2>4, StepStarts DEF Started, Terminal
            <4> QED BY <3>1, <4>1 DEF Untouched, Started, IsOver, Terminal
        <3>4. IsPending(db, n)
            <4>1. db.status[n] # "absent"
                BY <1>2, <2>4, OverAddsNothing DEF IsPending
            <4>2. ~IsOver(db, n)
                BY <3>1 DEF Untouched, IsPending, IsOver, Terminal
            <4> QED BY <3>2, <4>1, <4>2 DEF IsPending, IsOver, Terminal, NodeStatus
        <3>5. CASE n \in targets
            BY <3>1, <3>5
        <3>6. CASE db.kind[n] = "coordinator" /\ db.status[n] = "running" /\ db.wf # "cancelled"
            <4>1. db'.kind[n] = db.kind[n] /\ db'.status[n] \in {"running"} \cup Terminal
                BY <3>1, <3>6 DEF Untouched, IsOver, Terminal
            <4> QED BY <2>2, <2>4, <3>6, <4>1 DEF IsPending, Terminal
        <3> QED BY <2>1, <2>4, <3>4, <3>5, <3>6 DEF Pursued
    <2>5. db.wf \in WorkflowStatus
        BY DEF IInv, SoundRows, Rows
    <2> QED BY <2>2, <2>3, <2>4, <2>5 DEF WorkflowStatus, Terminal
<1> QED BY <1>1, <1>2

\* However the ending of a workflow and its reconciliation interleave with
\* dispatches and reports, they leave nothing pending that they should end.
THEOREM EndLeavesNothing == Spec => []NothingLeftPending
<1>1. Init => Pursued
    BY DEF Init, Pursued, NoRows, Terminal
<1>2. IInv /\ Pursued /\ [Next]_vars => Pursued'
    BY StepPursued
<1>3. Pursued => NothingLeftPending
    BY DEF Pursued, NothingLeftPending, Present
<1> QED BY <1>1, <1>2, <1>3, Invariance, PTL DEF Spec

-----------------------------------------------------------------------------
(* A workflow that comes to rest. *)

\* What is owed to a running workflow while no process has died: the detector
\* has seen the rows as they are, whoever became eligible is on its way to
\* dispatchAtomic, and the initial coordinator was started.
Rested ==
    /\ targets # {} => db.wf \in Terminal
    /\ ~Stuck(db)
    /\ crashes = 0 /\ db.wf = "running" =>
         /\ \A n \in Node : Eligible(db, n) => n = turn \/ n \in calls \/ nudged
         /\ db.kind[1] = "coordinator"
         /\ db.status[1] \in {"running"} \cup Terminal \/ (turn = 1 /\ Eligible(db, 1))
         /\ IsOver(db, 1) => db.lastEnded # 0

\* A node that is not over and has no parent of its kind is eligible or blocked.
LEMMA RestExplained == IInv /\ Rested => QuietExplained
<1> SUFFICES ASSUME IInv, Rested, Quiet
             PROVE  \/ \E n \in Node : BlockedWorker(n)
                    \/ /\ \A n \in Present(db) : IsOver(db, n)
                       /\ \E n \in Leaves(db) \cap Coords(db) : Leaves(db) # {n}
    BY DEF QuietExplained
<1>1. /\ db.wf = "running" /\ db.kind \in [Node -> NodeKind] /\ 1 \in Node
      /\ db.status \in [Node -> NodeStatus \ {"running"}]
      /\ db.edges \in SUBSET (Present(db) \X Present(db))
      /\ db.edges \in SUBSET (Node \X Node) /\ Acyclic(db.edges)
    <2>1. \A e \in db.edges : e \in Present(db) \X Present(db)
        <3> TAKE e \in db.edges
        <3>1. e \in Node \X Node /\ {e[1], e[2]} \subseteq Present(db)
            BY DEF IInv, SoundRows, Rows
        <3> QED BY <3>1
    <2> QED BY <2>1, MaxNodesAssumption DEF IInv, SoundRows, Rows, Quiet, Node
<1>2. \A n \in Node : ~Eligible(db, n)
    BY MaxNodesAssumption DEF Quiet, Rested, Node
<1>3. CASE \E n \in Present(db) : ~IsOver(db, n)
    <2> DEFINE S == {n \in Node : db.status[n] = "not_started"}
    <2>1. S # {}
        BY <1>1, <1>3 DEF Present, IsOver, NodeStatus
    <2>2. PICK n \in S : ParentsOf(db.edges, n) \cap S = {}
        <3>1. S \in SUBSET Node
            OBVIOUS
        <3> HIDE DEF S
        <3> QED BY <1>1, <2>1, <3>1 DEF Acyclic
    <2>3. \A p \in ParentsOf(db.edges, n) : IsOver(db, p)
        BY <1>1, <2>2 DEF ParentsOf, Present, IsOver, NodeStatus
    <2>4. PICK p \in ParentsOf(db.edges, n) :
              ~ IF db.kind[n] = "worker" THEN db.status[p] = "succeeded"
                                         ELSE db.status[p] \in Terminal
        BY <1>1, <1>2 DEF Eligible, ParentsReadyForKind
    <2>5. db.kind[n] = "worker" /\ db.status[p] \in {"failed", "cancelled"}
        BY <2>3, <2>4 DEF IsOver, Terminal
    <2> QED BY <2>4, <2>5 DEF BlockedWorker
<1>4. CASE \A n \in Present(db) : IsOver(db, n)
    <2>1. db.status[1] \in Terminal /\ db.lastEnded # 0 /\ 1 \in Present(db)
        BY <1>1, <1>2 DEF Quiet, Rested, Present, IsOver, Terminal
    <2>2. Leaves(db) # {} /\ Leaves(db) \subseteq Present(db)
        BY <1>1, <2>1, LeafExists DEF Leaves, Present, StructuralLeaves
    <2>3. ~ClassifiedStuck(db.kind, db.status, Leaves(db))
        BY <1>1, <1>4, <2>1 DEF Rested, Stuck
    <2>4. \A n \in Leaves(db) : db.status[n] \in Terminal /\ n \in Node
        BY <1>4, <2>2 DEF IsOver, Present
    <2>5. /\ ~ \E n \in Leaves(db) : Leaves(db) = {n} /\ db.kind[n] = "coordinator"
          /\ \E n \in Leaves(db) : db.kind[n] # "worker"
        BY <2>2, <2>3, <2>4 DEF ClassifiedStuck
    <2>6. PICK n \in Leaves(db) : db.kind[n] = "coordinator"
        BY <1>1, <2>4, <2>5 DEF NodeKind
    <2> QED BY <1>4, <2>2, <2>5, <2>6 DEF Coords
<1> QED BY <1>3, <1>4

\* After a commit the detector has nothing left to do, and it ends nothing.
LEMMA CommitRests ==
    ASSUME NEW d, d = [f \in DOMAIN d |-> d[f]], d.lastId \in Nat, SoundRows(db'), Commit(d)
    PROVE  ~Stuck(db') /\ db'.lastEnded = d.lastEnded /\ (IsOver(db', 1) => IsOver(d, 1))
<1>1. CASE ~Stuck(d)
    BY <1>1 DEF Commit, CheckStuckAndRecover
<1>2. CASE Stuck(d) /\ CapReached(d)
    <2>1. db' = [d EXCEPT !.wf = "failed"]
        BY <1>2 DEF Commit, CheckStuckAndRecover
    <2>2. db'.wf = "failed"
        <3>1. "wf" \in DOMAIN db'
            BY DEF SoundRows, Rows
        <3> QED BY <2>1, <3>1
    <2>3. db'.lastEnded = d.lastEnded /\ db'.status = d.status
        BY <2>1
    <2> QED BY <2>2, <2>3 DEF Stuck, IsOver
<1>3. CASE Stuck(d) /\ ~CapReached(d)
    <2> DEFINE r == RetryNode(d)
    <2>1. /\ db' = InsertCoordRetry(d, r, d.lastEnded, NextAttempt(d), {d.lastEnded} \cup Leaves(d))
          /\ r \in Node
        BY <1>3, MaxNodesAssumption DEF Commit, CheckStuckAndRecover, RetryNode, Node
    <2>2. db'.lastEnded = d.lastEnded /\ db'.status \in [Node -> NodeStatus]
        BY <2>1 DEF InsertCoordRetry, InsertCoord, Insert, SoundRows, Rows
    <2>3. db'.status = [d.status EXCEPT ![r] = "not_started"]
        <3>1. "status" \in DOMAIN db'
            BY DEF SoundRows, Rows
        <3> QED BY <2>1, <3>1 DEF InsertCoordRetry, InsertCoord, Insert
    <2> HIDE DEF r
    <2>4. db'.status[r] = "not_started"
        BY <2>1, <2>2, <2>3
    <2>5. IsOver(db', 1) => IsOver(d, 1)
        BY <2>2, <2>3, <2>4, MaxNodesAssumption DEF IsOver, Terminal, Node
    <2>6. ~Stuck(db')
        BY <2>1, <2>4 DEF Stuck, Present, IsOver, Terminal
    <2> QED BY <2>2, <2>5, <2>6
<1> QED BY <1>1, <1>2, <1>3

\* A mutation leaves the rows at rest, asks for a tick and ends no coordinator.
LEMMA MutationRests ==
    ASSUME IInv, Edit \/ Batch
    PROVE  /\ db.wf = "running" /\ turn = 0 /\ nudged' /\ targets' = targets
           /\ ~Stuck(db') /\ db'.lastEnded = db.lastEnded
           /\ db.kind[1] = "coordinator" /\ IsOver(db', 1) => IsOver(db, 1)
<1> DEFINE Rest == /\ ~Stuck(db') /\ db'.lastEnded = db.lastEnded
                   /\ db.kind[1] = "coordinator" /\ IsOver(db', 1) => IsOver(db, 1)
<1> db \in Rows /\ db.lastId \in Nat /\ 1 \in Node
    BY MaxNodesAssumption DEF IInv, SoundRows, Rows, Node
<1>1. SoundRows(db')
    BY StepRows DEF Next
<1>2. ASSUME NEW d, d = [f \in DOMAIN d |-> d[f]], d.lastId \in Nat, Commit(d),
             d.lastEnded = db.lastEnded,
             db.kind[1] = "coordinator" /\ IsOver(d, 1) => IsOver(db, 1)
      PROVE  Rest
    BY <1>1, <1>2, CommitRests
<1>3. ASSUME NEW retry, NEW eager, React(retry, eager) PROVE nudged' /\ targets' = targets
    BY <1>3 DEF React
<1>4. db.wf = "running" /\ turn = 0 /\ nudged' /\ targets' = targets
    <2> DEFINE Asks == db.wf = "running" /\ turn = 0 /\ nudged' /\ targets' = targets
    <2>1. ASSUME NEW k \in NodeKind, NEW a \in Agents \cup {NoAgent}, NEW parents \in SUBSET Node,
                 AddNode(k, a, parents)
          PROVE  Asks
        BY <2>1, <1>3 DEF AddNode, Mutation
    <2>2. ASSUME NEW from \in Node, NEW to \in Node, AddEdge(from, to) \/ RemoveEdge(from, to)
          PROVE  Asks
        BY <2>2, <1>3 DEF AddEdge, RemoveEdge, Mutation
    <2>3. ASSUME NEW n \in Node, RemoveNode(n) \/ CancelNode(n) PROVE Asks
        BY <2>3, <1>3 DEF RemoveNode, CancelNode, Mutation
    <2>4. ASSUME NEW n \in Node, NEW a \in Agents \cup {NoAgent}, ReplaceNodeSpec(n, a) PROVE Asks
        BY <2>4, <1>3 DEF ReplaceNodeSpec, Mutation
    <2>5. ASSUME Batch PROVE Asks
        BY <2>5, <1>3 DEF Batch, AddSubgraph, Mutation
    <2> HIDE DEF Asks
    <2>6. Asks
        BY <2>1, <2>2, <2>3, <2>4, <2>5 DEF Edit
    <2> QED BY <2>6 DEF Asks
<1>5. ASSUME NEW k \in NodeKind, NEW a \in Agents \cup {NoAgent}, NEW parents \in SUBSET Node,
             AddNode(k, a, parents)
      PROVE  Rest
    <2> DEFINE n == db.lastId + 1
               d == Insert(db, n, k, a, parents)
               e == InsertCoord(db, n, a, parents)
    <2>1. /\ d = [f \in DOMAIN d |-> d[f]] /\ d.lastId = n /\ d.lastEnded = db.lastEnded
          /\ d.status = [db.status EXCEPT ![n] = "not_started"]
        BY DEF Insert, Rows
    <2>2. e = [f \in DOMAIN e |-> e[f]]
        BY DEF InsertCoord, Insert
    <2>3. /\ e.lastId = n /\ e.lastEnded = db.lastEnded
          /\ e.status = [db.status EXCEPT ![n] = "not_started"]
        BY DEF InsertCoord, Insert, Rows
    <2>4. Commit(d) \/ Commit(e)
        BY <1>5 DEF AddNode
    <2> HIDE DEF d, e
    <2>5. (IsOver(d, 1) => IsOver(db, 1)) /\ (IsOver(e, 1) => IsOver(db, 1))
        BY <2>1, <2>3 DEF IsOver, Terminal, Rows
    <2> HIDE DEF Rest
    <2> QED BY <1>2, <2>1, <2>2, <2>3, <2>4, <2>5
<1>6. ASSUME NEW from \in Node, NEW to \in Node, AddEdge(from, to) \/ RemoveEdge(from, to)
      PROVE  Rest
    <2> DEFINE d == [db EXCEPT !.edges = db.edges \cup {<<from, to>>}]
               e == [db EXCEPT !.edges = db.edges \ {<<from, to>>}]
    <2>1. /\ d = [f \in DOMAIN d |-> d[f]] /\ d.lastId = db.lastId /\ d.lastEnded = db.lastEnded
          /\ d.status = db.status
          /\ e = [f \in DOMAIN e |-> e[f]] /\ e.lastId = db.lastId /\ e.lastEnded = db.lastEnded
          /\ e.status = db.status
        BY DEF Rows
    <2>2. Commit(d) \/ Commit(e)
        BY <1>6 DEF AddEdge, RemoveEdge
    <2> HIDE DEF d, e, Rest
    <2> QED BY <1>2, <2>1, <2>2 DEF IsOver
<1>7. ASSUME NEW n \in Node, RemoveNode(n) PROVE Rest
    <2> DEFINE d == DeleteNode(db, n)
    <2>1. d = [f \in DOMAIN d |-> d[f]]
        BY DEF DeleteNode
    <2>2. /\ d.lastId = db.lastId /\ d.lastEnded = db.lastEnded
          /\ d.status = [db.status EXCEPT ![n] = "absent"]
        BY DEF DeleteNode, Rows
    <2>3. Commit(d)
        BY <1>7 DEF RemoveNode
    <2> HIDE DEF d
    <2>4. IsOver(d, 1) => IsOver(db, 1)
        BY <2>2 DEF IsOver, Terminal, Rows
    <2> HIDE DEF Rest
    <2> QED BY <1>2, <2>1, <2>2, <2>3, <2>4
<1>8. ASSUME NEW n \in Node, CancelNode(n) PROVE Rest
    <2> DEFINE d == [db EXCEPT !.status[n] = "cancelled"]
    <2>1. /\ d = [f \in DOMAIN d |-> d[f]] /\ d.lastId = db.lastId /\ d.lastEnded = db.lastEnded
          /\ d.status = [db.status EXCEPT ![n] = "cancelled"]
        BY DEF Rows
    <2>2. Commit(d) /\ db.kind[n] = "worker"
        BY <1>8 DEF CancelNode
    <2> HIDE DEF d
    <2>3. db.kind[1] = "coordinator" /\ IsOver(d, 1) => IsOver(db, 1)
        BY <2>1, <2>2 DEF IsOver, Rows
    <2> HIDE DEF Rest
    <2> QED BY <1>2, <2>1, <2>2, <2>3
<1>9. ASSUME NEW n \in Node, NEW a \in Agents \cup {NoAgent}, ReplaceNodeSpec(n, a) PROVE Rest
    <2> DEFINE youngest == \A m \in Coords(db) : m <= n
               d == IF db.kind[n] = "worker" THEN db
                    ELSE [db EXCEPT !.agent[n] = a,
                                    !.coordAgent = IF youngest THEN a ELSE db.coordAgent]
    <2>1. /\ d = [f \in DOMAIN d |-> d[f]] /\ d.lastId = db.lastId /\ d.lastEnded = db.lastEnded
          /\ d.status = db.status
        <3> HIDE DEF youngest
        <3> QED BY DEF Rows
    <2>2. Commit(d)
        BY <1>9 DEF ReplaceNodeSpec
    <2> HIDE DEF d, Rest
    <2> QED BY <1>2, <2>1, <2>2 DEF IsOver
<1>10. ASSUME Batch PROVE Rest
    <2>1. PICK size \in 1..MaxBatch, X \in BatchEdges, a \in Agents :
            \E kinds \in [(db.lastId + 1)..(db.lastId + size) -> NodeKind],
               via \in [(db.lastId + 1)..(db.lastId + size) -> SUBSET Present(db)] :
                AddSubgraph(size, kinds, via, X, a)
        BY <1>10 DEF Batch
    <2>2. PICK kinds, via : AddSubgraph(size, kinds, via, X, a)
        BY <2>1
    <2> DEFINE temps == (db.lastId + 1)..(db.lastId + size)
               d == WithSubgraph(size, temps, kinds, via, X, a)
    <2>3. d = [f \in DOMAIN d |-> d[f]]
        BY DEF WithSubgraph
    <2>4. /\ d.lastId = db.lastId + size /\ d.lastEnded = db.lastEnded
          /\ d.status = [n \in Node |-> IF n \in temps THEN "not_started" ELSE db.status[n]]
        BY DEF WithSubgraph, Rows
    <2>5. Commit(d)
        BY <2>2 DEF AddSubgraph
    <2>6. d.lastId \in Nat
        BY <2>4, BatchAssumption
    <2> HIDE DEF d, temps
    <2>7. IsOver(d, 1) => IsOver(db, 1)
        BY <2>4 DEF IsOver, Terminal
    <2> HIDE DEF Rest
    <2> QED BY <1>2, <2>3, <2>4, <2>5, <2>6, <2>7
<1> HIDE DEF Rest
<1>11. Rest
    BY <1>5, <1>6, <1>7, <1>8, <1>9, <1>10 DEF Edit
<1> QED BY <1>4, <1>11 DEF Rest

LEMMA InitRested == Init => Rested
BY MaxNodesAssumption, SMTT(20) DEF Init, Rested, NoRows, Stuck

\* A dispatch makes no other node eligible.
LEMMA DispatchRests ==
    ASSUME IInv, Rested, NEW n \in Node, DispatchTx(n)
    PROVE  /\ ~Stuck(db') /\ db'.wf = db.wf /\ db'.kind = db.kind /\ db'.lastEnded = db.lastEnded
           /\ \A m \in Node : Eligible(db', m) => Eligible(db, m) /\ m # n
           /\ IsOver(db', 1) => IsOver(db, 1)
           /\ db'.status[1] = db.status[1] \/ db'.status[1] = "running"
<1>1. CASE ~Eligible(db, n)
    BY <1>1 DEF DispatchTx, Rested
<1>2. CASE Eligible(db, n)
    <2>1. /\ db \in Rows /\ db' \in Rows
          /\ db'.status = [db.status EXCEPT ![n] = "running"]
          /\ db'.wf = db.wf /\ db'.kind = db.kind /\ db'.edges = db.edges
          /\ db'.lastEnded = db.lastEnded
        BY <1>2, StepRows DEF DispatchTx, IInv, SoundRows, Rows, NodeStatus
    <2>2. /\ db'.status[n] = "running" /\ \A m \in Node \ {n} : db'.status[m] = db.status[m]
          /\ 1 \in Node
        BY <2>1, MaxNodesAssumption DEF Rows, Node
    <2>3. ~Stuck(db')
        BY <2>2 DEF Stuck, Present, IsOver, Terminal
    <2>4. ASSUME NEW m \in Node, Eligible(db', m) PROVE Eligible(db, m) /\ m # n
        <3>1. m # n /\ db.status[m] = "not_started" /\ db.wf = "running"
            BY <2>1, <2>2, <2>4 DEF Eligible
        <3>2. \A p \in ParentsOf(db.edges, m) : p \in Node /\ (db'.status[p] \in Terminal => db'.status[p] = db.status[p])
            BY <2>2 DEF ParentsOf, Terminal
        <3>3. ParentsReadyForKind(db.kind, db.status, db.edges, m)
            BY <2>1, <2>4, <3>2 DEF Eligible, ParentsReadyForKind, Terminal
        <3> QED BY <3>1, <3>3 DEF Eligible
    <2> QED BY <2>1, <2>2, <2>3, <2>4 DEF IsOver, Terminal
<1> QED BY <1>1, <1>2

\* A report ends one node and leaves its end on the list of ends.
LEMMA ReportRests ==
    ASSUME IInv, Rested, NEW n \in Node, NEW outcome \in Terminal, MarkNodeTerminal(n, outcome)
    PROVE  /\ ~Stuck(db') /\ turn = 0 /\ targets' = targets
           /\ \/ db' = db /\ turn' = turn /\ calls' = calls /\ nudged' = nudged
              \/ /\ nudged'
                 /\ db.kind[1] = "coordinator" /\ (IsOver(db, 1) => db.lastEnded # 0) =>
                        (IsOver(db', 1) => db'.lastEnded # 0)
<1>1. CASE ~IsPending(db, n)
    BY <1>1 DEF MarkNodeTerminal, Rested
<1>2. CASE IsPending(db, n)
    <2>1. PICK last \in EndedOrders(db, n) :
              /\ Commit([db EXCEPT !.status[n] = outcome, !.lastEnded = last])
              /\ nudged' = TRUE
        BY <1>2 DEF MarkNodeTerminal
    <2> DEFINE d == [db EXCEPT !.status[n] = outcome, !.lastEnded = last]
    <2>2. /\ d = [f \in DOMAIN d |-> d[f]] /\ d.lastId = db.lastId /\ d.lastEnded = last
          /\ d.status = [db.status EXCEPT ![n] = outcome]
        BY DEF IInv, SoundRows, Rows
    <2>3. Commit(d) /\ nudged'
        BY <2>1
    <2> HIDE DEF d
    <2>4. SoundRows(db') /\ d.lastId \in Nat /\ db.status \in [Node -> NodeStatus]
        BY <2>2, StepRows DEF Next, Report, IInv, SoundRows, Rows
    <2>5. ~Stuck(db') /\ db'.lastEnded = last /\ (IsOver(db', 1) => IsOver(d, 1))
        BY <2>2, <2>3, <2>4, CommitRests
    <2>6. ASSUME db.kind[1] = "coordinator", IsOver(db, 1) => db.lastEnded # 0, IsOver(db', 1)
          PROVE  last # 0
        <3>1. n = 1 \/ db.lastEnded # 0
            BY <2>2, <2>4, <2>5, <2>6 DEF IsOver
        <3>2. n # 0 /\ db.lastEnded \in Nat
            BY DEF Node, IInv, SoundRows, Rows
        <3> QED BY <2>6, <3>1, <3>2 DEF EndedOrders, Node
    <2> QED BY <2>3, <2>5, <2>6 DEF MarkNodeTerminal
<1> QED BY <1>1, <1>2

LEMMA StepRested == IInv /\ Rested /\ [Next]_vars => Rested'
<1> SUFFICES ASSUME IInv, Rested, [Next]_vars PROVE Rested'
    OBVIOUS
<1> DEFINE Owed == /\ \A n \in Node : Eligible(db, n) => n = turn \/ n \in calls \/ nudged
                   /\ db.kind[1] = "coordinator"
                   /\ db.status[1] \in {"running"} \cup Terminal \/ (turn = 1 /\ Eligible(db, 1))
                   /\ IsOver(db, 1) => db.lastEnded # 0
           Good == /\ targets' # {} => db'.wf \in Terminal
                   /\ ~Stuck(db')
                   /\ crashes' = 0 /\ db'.wf = "running" => Owed'
<1> 1 \in Node /\ db \in Rows
    BY MaxNodesAssumption DEF Node, IInv, SoundRows
<1>1. CASE UNCHANGED vars
    <2>1. /\ db' = db /\ targets' = targets /\ crashes' = crashes
          /\ turn' = turn /\ calls' = calls /\ nudged' = nudged
        BY <1>1 DEF vars, memory
    <2> QED BY <2>1 DEF Rested, Stuck, Eligible, IsOver
<1>2. CASE Next
    <2>1. crashes' = 0 => crashes = 0
        <3>1. crashes \in Nat
            BY CrashAssumption DEF IInv, TypeOK
        <3> QED BY <1>2, <3>1, StepCrashes
    <2>2. /\ db.wf \in Terminal => db'.wf = db.wf
          /\ SoundRows(db') /\ Untouched(db, db')
        BY <1>2, StepHeader, StepRows
    <2>3. ASSUME crashes = 0, db.wf = "running", turn # 1
          PROVE  /\ db.kind[1] = "coordinator" /\ db.status[1] \in {"running"} \cup Terminal
                 /\ db'.kind[1] = "coordinator" /\ db'.status[1] \in {"running"} \cup Terminal
                 /\ IsOver(db, 1) => db.lastEnded # 0
        BY <2>2, <2>3 DEF Rested, Untouched, IsOver
    <2>4. ASSUME NEW a \in Agents, CreateWorkflow(a) PROVE Good
        <3>1. /\ db = NoRows /\ targets = {} /\ targets' = targets /\ turn' = 1 /\ nudged'
              /\ db' = [InsertCoord(db, 1, a, {}) EXCEPT !.wf = "running"]
            BY <2>4 DEF CreateWorkflow, React, Rested, IInv, Terminal
        <3>2. /\ db'.wf = "running" /\ db'.kind[1] = "coordinator"
              /\ db'.status[1] = "not_started" /\ db'.edges = {}
            BY <3>1 DEF InsertCoord, Insert, NoRows
        <3>3. Eligible(db', 1)
            BY <3>2 DEF Eligible, ParentsReadyForKind, ParentsOf
        <3>4. ~Stuck(db') /\ ~IsOver(db', 1)
            BY <3>2 DEF Stuck, Present, IsOver, Terminal
        <3> QED BY <3>1, <3>2, <3>3, <3>4
    <2>5. ASSUME Edit \/ Batch PROVE Good
        <3>1. /\ db.wf = "running" /\ turn = 0 /\ nudged' /\ targets' = targets
              /\ ~Stuck(db') /\ db'.lastEnded = db.lastEnded
              /\ db.kind[1] = "coordinator" /\ IsOver(db', 1) => IsOver(db, 1)
            BY <2>5, MutationRests
        <3> QED BY <2>1, <2>3, <3>1 DEF Rested, Terminal
    <2>6. ASSUME End PROVE Good
        <3>1. ASSUME NEW outcome \in Terminal, EndWorkflow(outcome) PROVE db'.wf \in Terminal
            BY <3>1 DEF EndWorkflow, Rows
        <3>2. ASSUME NEW n \in Node, ReconcileNode(n) PROVE db'.wf \in Terminal
            BY <3>2, <2>2 DEF ReconcileNode, Rested
        <3>3. db'.wf \in Terminal
            BY <2>6, <3>1, <3>2 DEF End, FinishWorkflow, CancelWorkflow, Terminal
        <3> QED BY <3>3 DEF Stuck, Terminal
    <2>7. ASSUME Engine PROVE Good
        <3>1. CASE DispatchTurn
            <4>1. turn \in Node /\ DispatchTx(turn) /\ turn' = 0 /\ UNCHANGED <<calls, nudged, targets, crashes>>
                BY <3>1, MaxNodesAssumption DEF DispatchTurn, IInv, TypeOK, Node
            <4>2. /\ ~Stuck(db') /\ db'.wf = db.wf /\ db'.kind = db.kind /\ db'.lastEnded = db.lastEnded
                  /\ \A m \in Node : Eligible(db', m) => Eligible(db, m) /\ m # turn
                  /\ IsOver(db', 1) => IsOver(db, 1)
                BY <4>1, DispatchRests
            <4>3. ASSUME turn = 1, Eligible(db, 1) PROVE db'.status[1] = "running"
                BY <4>1, <4>3 DEF DispatchTx, Rows
            <4> QED BY <2>2, <4>1, <4>2, <4>3 DEF Rested, Untouched, IsOver
        <3>2. CASE Tick
            BY <3>2 DEF Tick, Rested
        <3>3. ASSUME NEW n \in Node, DispatchAtomic(n) PROVE Good
            <4>1. /\ DispatchTx(n) /\ turn = 0 /\ turn' = 0 /\ calls' = calls \ {n}
                  /\ UNCHANGED <<nudged, targets, crashes>>
                BY <3>3 DEF DispatchAtomic
            <4>2. /\ ~Stuck(db') /\ db'.wf = db.wf /\ db'.kind = db.kind /\ db'.lastEnded = db.lastEnded
                  /\ \A m \in Node : Eligible(db', m) => Eligible(db, m) /\ m # n
                  /\ IsOver(db', 1) => IsOver(db, 1)
                BY <4>1, DispatchRests
            <4> QED BY <2>3, <4>1, <4>2 DEF Rested
        <3> HIDE DEF Good
        <3> QED BY <2>7, <3>1, <3>2, <3>3 DEF Engine
    <2>8. ASSUME Report PROVE Good
        <3>1. PICK n \in Node, outcome \in Terminal : MarkNodeTerminal(n, outcome)
            BY <2>8 DEF Report
        <3>2. /\ ~Stuck(db') /\ turn = 0 /\ targets' = targets
              /\ \/ db' = db /\ turn' = turn /\ calls' = calls /\ nudged' = nudged
                 \/ /\ nudged'
                    /\ db.kind[1] = "coordinator" /\ (IsOver(db, 1) => db.lastEnded # 0) =>
                           (IsOver(db', 1) => db'.lastEnded # 0)
            BY <3>1, ReportRests
        <3>3. db'.wf = "running" => db.wf = "running"
            <4>1. db.wf # "none"
                <5>1. n \in watch /\ db.status[n] \in {"running"} \cup Terminal
                    BY <3>1 DEF MarkNodeTerminal, IInv
                <5> QED BY <5>1 DEF IInv, NoRows, Terminal
            <4> QED BY <2>2, <4>1 DEF Rows, WorkflowStatus, Terminal
        <3>4. targets' # {} => db'.wf \in Terminal
            BY <2>2, <3>2 DEF Rested
        <3>5. CASE db' = db /\ turn' = turn /\ calls' = calls /\ nudged' = nudged
            BY <2>1, <3>4, <3>5 DEF Rested
        <3>6. CASE /\ nudged'
                   /\ db.kind[1] = "coordinator" /\ (IsOver(db, 1) => db.lastEnded # 0) =>
                          (IsOver(db', 1) => db'.lastEnded # 0)
            BY <2>1, <2>3, <3>2, <3>3, <3>4, <3>6
        <3> HIDE DEF Good
        <3> QED BY <3>2, <3>5, <3>6
    <2>9. ASSUME Crash PROVE Good
        <3>1. crashes' # 0
            BY <2>9 DEF Crash, IInv, TypeOK
        <3> QED BY <2>9, <3>1 DEF Crash, Rested
    <2> HIDE DEF Good
    <2>10. Good
        BY <1>2, <2>4, <2>5, <2>6, <2>7, <2>8, <2>9 DEF Next
    <2> QED BY <2>10 DEF Good, Rested
<1> QED BY <1>1, <1>2

\* A running workflow with nothing running and nothing queued, in a process
\* that has not died, is behind a worker that can never start or has a
\* coordinator among several leaves: no wake-up is ever lost on the way there.
THEOREM RestIsExplained == Spec => []QuietExplained
<1>1. Init => Rested
    BY InitRested
<1>2. IInv /\ Rested /\ [Next]_vars => Rested'
    BY StepRested
<1>3. IInv /\ Rested => QuietExplained
    BY RestExplained
<1> QED BY <1>1, <1>2, <1>3, Invariance, PTL DEF Spec
=============================================================================
