---------------------------- MODULE CatalogPlan ----------------------------
(***************************************************************************)
(* What is installed and what upstream offers, and the resolve pipeline of  *)
(* packages/catalog that compares the two: the closure of a root upstream,  *)
(* its closure among the rows, and their difference, the plan.              *)
(*                                                                         *)
(* An entry is known by its origin upstream and by its name in the rows.    *)
(* Versions, digests of MCP files and prerequisites are opaque values; Gone *)
(* is what cannot be fetched or does not parse.                             *)
(***************************************************************************)
EXTENDS Naturals, FiniteSets, Sequences

CONSTANTS
    Origin, Name,
    KindOf,          \* the kind of an origin: "skill", "agent" or "mcp"
    Mutable,         \* the origins with scheme file:
    Version, Prereqs, \* what an author may declare
    Contents,        \* what each origin may come to offer
    None, Gone

NoPrereqs == ""

Content == [name : Name, version : Version, deps : SUBSET Origin, prereqs : Prereqs]

Row == [origin : Origin, version : Version, deps : SUBSET Name, prereqs : Prereqs,
        ack : BOOLEAN, off : BOOLEAN]

ASSUME FiniteAssumption == IsFiniteSet(Origin) /\ IsFiniteSet(Name)
ASSUME KindOfAssumption == KindOf \in [Origin -> {"skill", "agent", "mcp"}]
ASSUME MutableAssumption == Mutable \subseteq Origin
ASSUME PrereqsAssumption == NoPrereqs \in Prereqs
ASSUME ContentsAssumption == Contents \in [Origin -> SUBSET Content]
ASSUME AbsenceAssumption == None \notin Row \cup Name /\ Gone \notin Content

\* The frontmatter of a skill has no agents, that of an MCP nothing at all.
ASSUME KindsAssumption ==
    \A o \in Origin : \A content \in Contents[o] :
        /\ KindOf[o] = "skill" => \A d \in content.deps : KindOf[d] # "agent"
        /\ KindOf[o] = "mcp" => content.deps = {} /\ content.prereqs = NoPrereqs

\* The contract with authors that nodesAreUpToDate relies on: what an entry
\* depends on does not change unless its version does.
ASSUME VersionAssumption ==
    \A o \in Origin : \A a, b \in Contents[o] :
        (a.name = b.name /\ a.version = b.version) => a.deps = b.deps

VARIABLES
    up,    \* what each origin offers
    row    \* the row of each name

Installed == {n \in Name : row[n] # None}

\* The rows of one origin: more than one after a rename upstream.
At(o) == {n \in Installed : row[n].origin = o}
NameAt(o) == CHOOSE n \in At(o) : TRUE

\* Origins that are not installed are silently skipped.
FqnsOf(origins) == {NameAt(o) : o \in {d \in origins : At(d) # {}}}
OriginsOf(names) == {row[n].origin : n \in names \cap Installed}

\* What a closure knows of an entry it found among the rows, or upstream.
LocalNode(o) ==
    [origin |-> o, name |-> NameAt(o), version |-> row[NameAt(o)].version,
     deps |-> OriginsOf(row[NameAt(o)].deps), local |-> TRUE]

UpstreamNode(o) ==
    [origin |-> o, name |-> up[o].name, version |-> up[o].version,
     deps |-> up[o].deps, local |-> FALSE]

\* resolveSkillOrigin, resolveAgentOrigin: a name belongs to one origin.
TakenByAnother(name, o) == row[name] # None /\ row[name].origin # o

AnchorConflict(o) ==
    \/ up[o] = Gone
    \/ TakenByAnother(up[o].name, o)

\* resolveMcpAdapter: whose name it is, is asked only when it is installed.
McpConflict(o) == up[o] = Gone

Conflicts(o) == IF KindOf[o] = "mcp" THEN McpConflict(o) ELSE AnchorConflict(o)

-----------------------------------------------------------------------------
(* Phase 1: depth first, an entry after what it depends on. *)

Rank(o) == CASE KindOf[o] = "mcp" -> 1 [] KindOf[o] = "skill" -> 2 [] OTHER -> 3
First(origins) == CHOOSE o \in origins : \A p \in origins : Rank(o) <= Rank(p)

PlanNode == [origin : Origin, name : Name, version : Version, deps : SUBSET Origin,
             local : BOOLEAN]

\* What a walk has found, and what it is called with: inStack, the entries to
\* visit, and what it found so far.
Found == [closure : Seq(PlanNode), seen : SUBSET Origin, conflicts : SUBSET Origin,
          cyclic : BOOLEAN]
Visits == [path : SUBSET Origin, todo : SUBSET Origin, found : Found]

\* An installation takes what is there for granted, except its root.
TakenAsItIs(o, path, sync) ==
    ~sync /\ At(o) # {} /\ (path # {} \/ KindOf[o] = "mcp")

Visited(w, o) == [w EXCEPT !.seen = @ \cup {o}]
Recorded(w, node) == [Visited(w, node.origin) EXCEPT !.closure = Append(@, node)]

\* What the entry depends on is walked while the entry is on the path.
Descend(walk, o, path, w) ==
    walk[[path |-> path \cup {o}, todo |-> up[o].deps, found |-> w]]

\* Bug: an entry is listed before what it depends on.
Listed_First(walk, o, path, w) == Descend(walk, o, path, Recorded(w, UpstreamNode(o)))

Listed(walk, o, path, w) == Recorded(Descend(walk, o, path, w), UpstreamNode(o))

Visit(walk, o, path, w, sync) ==
    IF o \in path THEN [w EXCEPT !.cyclic = TRUE]
    ELSE IF o \in w.seen THEN w
    ELSE IF TakenAsItIs(o, path, sync) THEN Recorded(w, LocalNode(o))
    ELSE IF Conflicts(o) THEN [Visited(w, o) EXCEPT !.conflicts = @ \cup {o}]
    ELSE Listed(walk, o, path, w)

Nothing == [closure |-> <<>>, seen |-> {}, conflicts |-> {}, cyclic |-> FALSE]

UpstreamClosure(root, sync) ==
    LET walk[s \in Visits] ==
            IF s.todo = {} THEN s.found
            ELSE LET o == First(s.todo)
                 IN  walk[[s EXCEPT !.todo = @ \ {o},
                                    !.found = Visit(walk, o, s.path, @, sync)]]
    IN  walk[[path |-> {}, todo |-> {root}, found |-> Nothing]]

(* Phase 2: the rows that the root reaches. *)

\* All that can be reached by going from an element to those it refers to.
Reach(from, refersTo) ==
    LET upTo[k \in 0..Cardinality(DOMAIN refersTo)] ==
            IF k = 0 THEN from
            ELSE LET near == upTo[k - 1] IN near \cup UNION {refersTo[x] : x \in near}
    IN  upTo[Cardinality(DOMAIN refersTo)]

LocalClosure(root) ==
    {o \in Reach({root}, [o \in Origin |-> IF At(o) = {} THEN {} ELSE LocalNode(o).deps])
        : At(o) # {}}

\* What an entry other than the root refers to.
ReferencedElsewhere(root) ==
    UNION {OriginsOf(row[n].deps) : n \in {m \in Installed : row[m].origin # root}}

(* Phase 3: the difference. *)

UpToDate(node, local) ==
    /\ node.origin \in local /\ NameAt(node.origin) = node.name
    /\ row[node.name].version = node.version

Renamed(root, closure, sync) ==
    /\ sync /\ At(root) # {}
    /\ \E i \in DOMAIN closure : closure[i].origin = root /\ closure[i].name # NameAt(root)

\* Bug: what another entry still refers to counts as an orphan.
Orphans_Referenced(root, closure) ==
    {o \in LocalClosure(root) :
        /\ o # root /\ KindOf[o] # "agent"
        /\ \A i \in DOMAIN closure : closure[i].origin # o}

Orphans(root, closure) ==
    {o \in LocalClosure(root) \ ReferencedElsewhere(root) :
        /\ o # root /\ KindOf[o] # "agent"
        /\ \A i \in DOMAIN closure : closure[i].origin # o}

\* The nodes of a closure that are in a set, in their order: SelectSeq as a
\* recursive function, which the provers unfold.
Chosen(closure, nodes) ==
    LET upTo[i \in 0..Len(closure)] ==
            IF i = 0 THEN <<>>
            ELSE LET chosen == upTo[i - 1]
                 IN  IF closure[i] \in nodes THEN Append(chosen, closure[i]) ELSE chosen
    IN  upTo[Len(closure)]

NodesOf(closure) == {closure[i] : i \in DOMAIN closure}

\* The root goes along when something it depends on is written.
Changed(root, closure) ==
    LET local == LocalClosure(root)
        fetched == {n \in NodesOf(closure) : ~n.local}
        stale == {n \in fetched : ~UpToDate(n, local)}
        same == {n \in fetched \ stale : n.origin = root}
    IN  IF stale = {} THEN <<>> ELSE Chosen(closure, stale) \o Chosen(closure, same)

Plan(root, sync) ==
    LET w == UpstreamClosure(root, sync)
        renamed == Renamed(root, w.closure, sync)
    IN  [root |-> root, conflicts |-> w.conflicts, cyclic |-> w.cyclic,
         old |-> IF renamed THEN NameAt(root) ELSE None,
         install |-> IF renamed
                     THEN Chosen(w.closure, {n \in NodesOf(w.closure) : n.origin = root})
                     ELSE Changed(root, w.closure),
         orphans |-> IF sync /\ ~renamed /\ KindOf[root] # "mcp"
                     THEN Orphans(root, w.closure) ELSE {}]

NothingToDo(plan) ==
    plan.install = <<>> /\ plan.conflicts = {} /\ plan.old = None /\ plan.orphans = {}
=============================================================================
