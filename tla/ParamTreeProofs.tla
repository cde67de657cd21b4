---------------------------- MODULE ParamTreeProofs ----------------------------
(***************************************************************************)
(* Proofs about ParamTree: that the tree agrees with its definition after  *)
(* each command, that a lookup fails only where indices are stale, and     *)
(* that setting a value leaves the others alone that still fit.            *)
(*                                                                         *)
(* TreeInv is the invariant.  Shape is what holds even in the middle of an *)
(* update: an address tells which definition its node can have (Role), the *)
(* positions of a node's children have no gaps, and an edge is what the    *)
(* parent's definition says.  Plain and Referring are what the definition  *)
(* says of a node by itself, and given the values of others.               *)
(*                                                                         *)
(* An update is a fold over the definitions, in their order, of folds over *)
(* the nodes of each.  UpdateInv goes through both: the nodes that the     *)
(* update has come past are Plain and Referring, and stay so, as what one  *)
(* refers to comes before it (Rank).  A lookup finds its node where no     *)
(* specification has moved up (Exact).  Each command then amounts to a     *)
(* change that keeps Shape, and an update of all that depends on it.       *)
(***************************************************************************)
EXTENDS ParamTree, FiniteSetLemmas, TLAPS

-----------------------------------------------------------------------------
(* The shape of a tree *)

Pos == Nat \ {0}

Roles == {"system", "specs", "spec", "type", "whenTyped", "contents", "name",
          "instances", "instance", "spec_ref"}

\* The definition that a node at an address can only have.
Role(a) ==
    CASE Len(a) = 0 -> "system"
      [] Len(a) = 1 -> (CASE a[1] = 1 -> "specs" [] a[1] = 2 -> "instances" [] OTHER -> NoDefn)
      [] Len(a) = 2 -> (CASE a[1] = 1 -> "spec" [] a[1] = 2 -> "instance" [] OTHER -> NoDefn)
      [] Len(a) = 3 -> (CASE a[1] = 1 /\ a[3] = 1 -> "type"
                          [] a[1] = 1 /\ a[3] = 2 -> "whenTyped"
                          [] a[1] = 2 /\ a[3] = 1 -> "spec_ref"
                          [] OTHER -> NoDefn)
      [] Len(a) = 4 -> IF a[1] = 1 /\ a[3] = 2 /\ a[4] = 1 THEN "contents" ELSE NoDefn
      [] Len(a) = 5 -> IF a[1] = 1 /\ a[3] = 2 /\ a[4] = 1 /\ a[5] = 1 THEN "name" ELSE NoDefn
      [] OTHER -> NoDefn

Places == {a \in Seq(Pos) : Role(a) # NoDefn}

\* The definition of the i-th child that a node of definition d may have, if there may be one.
PartAt(d, i) ==
    CASE d = "system" -> (CASE i = 1 -> "specs" [] i = 2 -> "instances" [] OTHER -> NoDefn)
      [] d = "specs" -> "spec"
      [] d = "spec" -> (CASE i = 1 -> "type" [] i = 2 -> "whenTyped" [] OTHER -> NoDefn)
      [] d = "whenTyped" -> IF i = 1 THEN "contents" ELSE NoDefn
      [] d = "contents" -> IF i = 1 THEN "name" ELSE NoDefn
      [] d = "instances" -> "instance"
      [] d = "instance" -> IF i = 1 THEN "spec_ref" ELSE NoDefn
      [] OTHER -> NoDefn

Items == {"spec", "instance"}
Optional == {"spec", "instance", "contents"}

\* The edge to a node that is not an item.
EdgeTo(d) ==
    CASE d = "specs" -> ChildEdge("specs")
      [] d = "instances" -> ChildEdge("instances")
      [] d = "type" -> ChildEdge("agent_type")
      [] d = "whenTyped" -> ChildEdge("contents")
      [] d = "contents" -> CondEdge
      [] d = "name" -> ChildEdge("name")
      [] d = "spec_ref" -> ChildEdge("spec_ref")

EdgeNames == {"", "specs", "instances", "agent_type", "contents", "name", "spec_ref"}
Edges == [type : {"child", "item", "cond"}, name : EdgeNames, idx : Nat]
Text == Names \cup Types
Kinds == {"composite", "list", "conditional", "enum", "string"}

Node == [edge : Edges,
         defn : Roles \cup {NoDefn},
         schema : [id : Roles \cup {NoDefn}, options : SUBSET Text],
         data : [type : Kinds \cup {"none"}, strings : SUBSET Text]]

\* The addresses of a tree: with a node its parent, and its siblings before it.
Rooted(D) ==
    /\ IsFiniteSet(D)
    /\ D \subseteq Places
    /\ Root \in D
    /\ \A b \in D \ {Root} : Front(b) \in D
    /\ \A a \in D, i \in Pos : i > 1 /\ Append(a, i) \in D => Append(a, i - 1) \in D

\* Where a node is tells its definition.
InRole(t, b) ==
    /\ t[b].defn \in {NoDefn, Role(b)}
    /\ t[b].schema.id \in {NoDefn, Role(b)}
    /\ t[b].data.type = "list" => Role(b) \in {"specs", "instances"} /\ t[b].schema.id = Role(b)

Placed(t, b) ==
    /\ t[Front(b)].schema.id = Role(Front(b))
    /\ IF Role(b) \in Items THEN t[b].edge.type = "item" /\ t[b].edge.name = "" ELSE t[b].edge = EdgeTo(Role(b))
    /\ Role(b) \notin Optional => t[b].defn # NoDefn

Shape(t) ==
    /\ t \in [DOMAIN t -> Node]
    /\ Rooted(DOMAIN t)
    /\ t[Root].defn = "system"
    /\ \A b \in DOMAIN t : InRole(t, b)
    /\ \A b \in DOMAIN t \ {Root} : Placed(t, b)
    /\ \A a \in DOMAIN t : Role(a) \in {"system", "spec"} /\ Append(a, 1) \in DOMAIN t => Append(a, 2) \in DOMAIN t

\* What the definition says of a node by itself.
Plain(t, b) ==
    LET d == t[b].defn IN
    /\ t[b].schema.id = d
    /\ d \in {"system", "spec"} => Append(b, 1) \in DOMAIN t /\ Append(b, 2) \in DOMAIN t
    /\ d \in {"contents", "instance", "whenTyped"} => Append(b, 1) \in DOMAIN t
    /\ d \in {"specs", "instances"} =>
           \A i \in Pos : Append(b, i) \in DOMAIN t => t[Append(b, i)].defn = PartAt(d, i)
    /\ d = "type" => t[b].schema.options = Types
    /\ IsLeaf(d) => t[b].data.type = Defn[d].kind /\ FitsSchema(t[b].data, t[b].schema)
    /\ ~IsLeaf(d) => t[b].data = IF d = "whenTyped" THEN NoValue ELSE Default(d)

\* What it says given the values of others.
Referring(t, b) ==
    /\ t[b].defn = "whenTyped" =>
           t[Append(b, 1)].defn = IF t[Append(Front(b), 1)].data.strings = {} THEN NoDefn ELSE "contents"
    /\ t[b].defn = "spec_ref" => t[b].schema.options = UNION {t[c].data.strings : c \in Nodes(t, "name")}

SpecsStale(t) == \E b \in DOMAIN t : Role(b) = "spec" /\ t[b].edge.idx # Last(b) - 1

Current(t, b, sure) == Plain(t, b) /\ (sure => Referring(t, b))

TreeInv ==
    /\ editor \in {"closed", "editing", "lost", "failed"} /\ cutOff \in BOOLEAN
    /\ editor = "closed" => tree = Empty /\ nav = Root
    /\ Shape(tree)
    /\ editor = "editing" => nav \in DOMAIN tree
    /\ editor \in {"editing", "lost"} =>
           \A b \in DOMAIN tree : tree[b].defn # NoDefn =>
               Current(tree, b, ~SpecsStale(tree) /\ ~cutOff)
    /\ editor = "failed" => IndexStale(tree)

-----------------------------------------------------------------------------
(* Addresses *)

\* What the definition says, in numbers.
LEMMA DefnFacts ==
    /\ DOMAIN Defn = Roles
    /\ Defn["system"].kind = "composite" /\ Defn["spec"].kind = "composite"
    /\ Defn["contents"].kind = "composite" /\ Defn["instance"].kind = "composite"
    /\ Defn["specs"].kind = "list" /\ Defn["instances"].kind = "list"
    /\ Defn["whenTyped"].kind = "conditional"
    /\ Defn["type"].kind = "enum" /\ Defn["spec_ref"].kind = "enum" /\ Defn["name"].kind = "string"
BY DEF Defn, Roles, Composite, Listing, IfSelected, Leaf

\* The children of the composites.
LEMMA DefnChildren ==
    /\ Defn["system"].children = <<Child("specs", "specs"), Child("instances", "instances")>>
    /\ Defn["spec"].children = <<Child("agent_type", "type"), Child("contents", "whenTyped")>>
    /\ Defn["contents"].children = <<Child("name", "name")>>
    /\ Defn["instance"].children = <<Child("spec_ref", "spec_ref")>>
    /\ Defn["specs"].entry = "spec" /\ Defn["instances"].entry = "instance"
    /\ Defn["whenTyped"].then = "contents"
BY DEF Defn, Roles, Composite, Listing, IfSelected, Leaf

\* An address is that of the parent and a position.
LEMMA Parent ==
    ASSUME NEW b \in Seq(Pos), b # Root
    PROVE  /\ Front(b) \in Seq(Pos) /\ Last(b) \in Pos /\ b = Append(Front(b), Last(b))
           /\ Len(Front(b)) = Len(b) - 1 /\ Len(b) \in Pos
<1>1. Len(b) \in Pos /\ b \in [1..Len(b) -> Pos]
    BY DEF Pos, Root
<1>2. Last(b) \in Pos
    BY <1>1 DEF Last, Pos
<1>3. Front(b) = [i \in 1..(Len(b) - 1) |-> b[i]]
    BY <1>1 DEF Front, Pos
<1>4. Front(b) \in Seq(Pos) /\ Len(Front(b)) = Len(b) - 1
    BY <1>1, <1>3 DEF Pos
<1>5. b = Append(Front(b), Last(b))
    <2> DEFINE c == Append(Front(b), Last(b))
    <2>1. /\ c \in Seq(Pos) /\ Len(c) = Len(Front(b)) + 1
          /\ \A i \in 1..Len(Front(b)) : c[i] = Front(b)[i]
          /\ c[Len(Front(b)) + 1] = Last(b)
        BY <1>2, <1>4
    <2>2. Len(c) = Len(b)
        BY <1>1, <1>4, <2>1 DEF Pos
    <2>3. ASSUME NEW i \in 1..Len(b) PROVE c[i] = b[i]
        <3>1. CASE i = Len(b)
            BY <1>1, <1>4, <2>1, <3>1 DEF Last, Pos
        <3>2. CASE i # Len(b)
            <4>1. i \in 1..(Len(b) - 1)
                <5>1. \A n \in Nat \ {0} : \A k \in 1..n : k # n => k \in 1..(n - 1)
                    OBVIOUS
                <5> HIDE DEF c
                <5> QED
                    BY <1>1, <3>2, <5>1 DEF Pos
            <4>2. c[i] = Front(b)[i]
                BY <1>4, <2>1, <4>1
            <4> QED
                BY <1>3, <4>1, <4>2
        <3> QED
            BY <3>1, <3>2
    <2> HIDE DEF c
    <2> QED
        BY <2>1, <2>2, <2>3 DEF c
<1> QED
    BY <1>1, <1>2, <1>4, <1>5

\* The other way.
LEMMA KidFacts ==
    ASSUME NEW a \in Seq(Pos), NEW i \in Pos
    PROVE  /\ Append(a, i) \in Seq(Pos) /\ Append(a, i) # Root /\ Len(Append(a, i)) = Len(a) + 1
           /\ Front(Append(a, i)) = a /\ Last(Append(a, i)) = i
           /\ \A k \in 1..Len(a) : Append(a, i)[k] = a[k]
           /\ Append(a, i)[Len(a) + 1] = i
<1>1. Append(a, i) \in Seq(Pos) /\ Append(a, i) # Root /\ Len(Append(a, i)) = Len(a) + 1
    <2>1. Append(a, i) \in Seq(Pos) /\ Len(Append(a, i)) = Len(a) + 1 /\ Len(a) \in Nat
        OBVIOUS
    <2>2. Len(Root) = 0
        BY DEF Root
    <2> QED
        BY <2>1, <2>2
<1>2. /\ \A k \in 1..Len(a) : Append(a, i)[k] = a[k]
      /\ Append(a, i)[Len(a) + 1] = i
    OBVIOUS
<1>3. Front(Append(a, i)) = a
    BY <1>1, <1>2 DEF Front
<1> QED
    BY <1>1, <1>2, <1>3 DEF Last

\* Children are told apart by their parent and their position.
LEMMA KidsDiffer ==
    ASSUME NEW a \in Seq(Pos), NEW i \in Pos, NEW b \in Seq(Pos), NEW j \in Pos,
           Append(a, i) = Append(b, j)
    PROVE  a = b /\ i = j
BY KidFacts

\* The definitions of the children are those that the definition of the parent names.
LEMMA KidRole ==
    ASSUME NEW a \in Seq(Pos), NEW i \in Pos
    PROVE  Role(Append(a, i)) = PartAt(Role(a), i)
<1> DEFINE b == Append(a, i)
<1>1. /\ Len(b) = Len(a) + 1 /\ Len(a) \in Nat /\ i \in Nat /\ i # 0
      /\ \A k \in 1..Len(a) : b[k] = a[k]
      /\ b[Len(a) + 1] = i
    BY KidFacts DEF Pos
<1> HIDE DEF b
<1> SUFFICES Role(b) = PartAt(Role(a), i)
    BY DEF b
<1>2. CASE Len(a) = 0
    BY <1>1, <1>2 DEF Role, PartAt, NoDefn
<1>3. CASE Len(a) = 1
    BY <1>1, <1>3 DEF Role, PartAt, NoDefn
<1>4. CASE Len(a) = 2
    BY <1>1, <1>4 DEF Role, PartAt, NoDefn
<1>5. CASE Len(a) = 3
    BY <1>1, <1>5 DEF Role, PartAt, NoDefn
<1>6. CASE Len(a) = 4
    BY <1>1, <1>6 DEF Role, PartAt, NoDefn
<1>7. CASE Len(a) >= 5
    <2>1. Role(b) = NoDefn
        BY <1>1, <1>7 DEF Role, NoDefn
    <2>2. Role(a) \in {"name", NoDefn}
        BY <1>1, <1>7 DEF Role, NoDefn
    <2> QED
        BY <2>1, <2>2 DEF PartAt, NoDefn
<1>8. \A n \in Nat : n = 0 \/ n = 1 \/ n = 2 \/ n = 3 \/ n = 4 \/ n >= 5
    OBVIOUS
<1> QED
    BY <1>1, <1>2, <1>3, <1>4, <1>5, <1>6, <1>7, <1>8

\* A place other than the root is a child of a place.
LEMMA PlaceParent ==
    ASSUME NEW b \in Places, b # Root
    PROVE  /\ Front(b) \in Places /\ Last(b) \in Pos /\ b = Append(Front(b), Last(b))
           /\ Role(b) = PartAt(Role(Front(b)), Last(b))
<1>1. b \in Seq(Pos) /\ Role(b) # NoDefn
    BY DEF Places
<1>2. /\ Front(b) \in Seq(Pos) /\ Last(b) \in Pos /\ b = Append(Front(b), Last(b))
    BY <1>1, Parent
<1>3. Role(b) = PartAt(Role(Front(b)), Last(b))
    BY <1>2, KidRole
<1>4. Role(Front(b)) # NoDefn
    BY <1>1, <1>3 DEF PartAt, NoDefn
<1> QED
    BY <1>2, <1>3, <1>4 DEF Places

\* The roles.
LEMMA RoleFacts ==
    /\ Root \in Places /\ Role(Root) = "system"
    /\ \A b \in Places : Role(b) \in Roles
    /\ \A b \in Places : Role(b) = "system" => b = Root
    /\ NoDefn \notin Roles
    /\ NoNode \notin Places
<1>1. Root \in Seq(Pos) /\ Role(Root) = "system"
    BY DEF Root, Role
<1>2. Root \in Places
    BY <1>1 DEF Places, NoDefn
<1>3. \A b \in Places : Role(b) \in Roles
    BY DEF Places, Role, Roles
<1>4. ASSUME NEW b \in Places, Role(b) = "system" PROVE b = Root
    <2>1. CASE b # Root
        <3>1. Role(b) = PartAt(Role(Front(b)), Last(b))
            BY <2>1, PlaceParent
        <3> QED
            BY <3>1, <1>4 DEF PartAt, NoDefn
    <2> QED
        BY <2>1
<1>5. NoDefn \notin Roles
    BY DEF NoDefn, Roles
<1>6. NoNode \notin Places
    <2>1. NoNode \in Seq(Pos) => NoNode[1] \in Pos
        BY DEF NoNode
    <2> QED
        BY <2>1 DEF NoNode, Places, Pos
<1> QED
    BY <1>1, <1>2, <1>3, <1>4, <1>5, <1>6

-----------------------------------------------------------------------------
(* Folds.  Each of the model's folds does one of these kinds of steps; x is an element of *)
(* a set, or an index of the sequence Order or of a path.                                 *)

Kind(op) == [op |-> op]
OfUpdate(ds, skipped) == [op |-> "update", ds |-> ds, skipped |-> skipped]
OfFollow(t, path) == [op |-> "follow", tree |-> t, path |-> path]

\* The nodes of a definition that an update processes.
Due(t, d, ds, skipped) == IF d \in ds THEN Nodes(t, d) \ skipped ELSE {}

\* All of them, one after the other.
ProcessAll(S, u) == FoldSet(Processed, u, S)
LoadAll(S, u) == FoldSet(Loaded, u, S)

Apply(k, x, u) ==
    CASE k.op = "processed" -> Processed(x, u)
      [] k.op = "loaded" -> Loaded(x, u)
      [] k.op = "update" -> ProcessAll(Due(u.tree, Order[x], k.ds, k.skipped), u)
      [] k.op = "import" -> LoadAll(Nodes(u.tree, Order[x]), u)
      [] k.op = "follow" -> FollowEdge(k.tree, u, k.path[x])

\* The one that is applied last.
LastOne(k, T) == IF k.op \in {"processed", "loaded"} THEN CHOOSE x \in T : TRUE ELSE Max(T)

\* g gives what comes of every subset of S.
Iterating(k, base, S, g) ==
    g = [T \in SUBSET S |->
            IF T = {} THEN base ELSE Apply(k, LastOne(k, T), g[T \ {LastOne(k, T)}])]

\* Of the sets that have to do with it, each has one that is last.
Chooses(k, S) == \A T \in SUBSET S : T # {} => LastOne(k, T) \in T

\* What comes of S.
Folded(k, base, S) == (CHOOSE g : Iterating(k, base, S, g))[S]

\* There is one such function.
LEMMA IteratingUnique ==
    ASSUME NEW S, IsFiniteSet(S), NEW k, NEW base, NEW g, NEW h, Chooses(k, S),
           Iterating(k, base, S, g), Iterating(k, base, S, h)
    PROVE  g = h
<1> DEFINE P == {T \in SUBSET S : g[T] = h[T]}
<1>1. ASSUME NEW T \in SUBSET S, \A U \in SUBSET T : U # T => U \in P
      PROVE  T \in P
    <2>1. CASE T = {}
        <3>1. g[T] = base /\ h[T] = base
            BY <2>1 DEF Iterating
        <3> QED
            BY <3>1
    <2>2. CASE T # {}
        <3> DEFINE x == LastOne(k, T)
                   U == T \ {x}
        <3>1. x \in T
            BY <2>2 DEF Chooses
        <3> HIDE DEF x
        <3>2. U \in SUBSET T /\ U # T
            BY <3>1
        <3>3. g[U] = h[U]
            BY <1>1, <3>2
        <3>4. g[T] = Apply(k, x, g[U]) /\ h[T] = Apply(k, x, h[U])
            BY <2>2 DEF Iterating, x
        <3> QED
            BY <3>3, <3>4
    <2> QED
        BY <2>1, <2>2
<1> HIDE DEF P
<1>2. \A T \in SUBSET S : T \in P
    BY <1>1, SubsetInduction
<1>3. \A T \in SUBSET S : g[T] = h[T]
    BY <1>2 DEF P
<1>4. g = [T \in SUBSET S |-> g[T]] /\ h = [T \in SUBSET S |-> h[T]]
    BY DEF Iterating
<1> QED
    BY <1>3, <1>4

\* What it is on the subsets of a subset is such a function, too.
LEMMA IteratingPart ==
    ASSUME NEW S, NEW k, NEW base, NEW g, Iterating(k, base, S, g), Chooses(k, S),
           NEW T \in SUBSET S, NEW h, h = [U \in SUBSET T |-> g[U]]
    PROVE  Iterating(k, base, T, h) /\ Chooses(k, T)
<1>1. ASSUME NEW U \in SUBSET T
      PROVE  h[U] = IF U = {} THEN base ELSE Apply(k, LastOne(k, U), h[U \ {LastOne(k, U)}])
    <2> DEFINE x == LastOne(k, U)
    <2> HIDE DEF x
    <2>1. h[U] = g[U] /\ h[U \ {x}] = g[U \ {x}] /\ U \in SUBSET S
        OBVIOUS
    <2>2. g[U] = IF U = {} THEN base ELSE Apply(k, x, g[U \ {x}])
        BY <2>1 DEF Iterating, x
    <2> QED
        BY <2>1, <2>2 DEF x
<1>2. h = [U \in SUBSET T |-> h[U]]
    OBVIOUS
<1> QED
    BY <1>1, <1>2 DEF Iterating, Chooses

\* There is such a function.
LEMMA IteratingExists ==
    ASSUME NEW S, IsFiniteSet(S), NEW k, NEW base, Chooses(k, S)
    PROVE  \E g : Iterating(k, base, S, g)
<1> DEFINE P == {T \in SUBSET S : \E h : Iterating(k, base, T, h)}
           Of(T) == CHOOSE h : Iterating(k, base, T, h)
<1>1. ASSUME NEW T \in SUBSET S, \A U \in SUBSET T : U # T => U \in P
      PROVE  T \in P
    <2> DEFINE g == [U \in SUBSET T |->
                        IF U = {} THEN base
                        ELSE Apply(k, LastOne(k, U), Of(U \ {LastOne(k, U)})[U \ {LastOne(k, U)}])]
    <2>1. ASSUME NEW U \in SUBSET T, U # T
          PROVE  Iterating(k, base, U, Of(U))
        BY <1>1, <2>1
    <2> HIDE DEF Of
    <2>2. ASSUME NEW U \in SUBSET T, U # T
          PROVE  g[U] = Of(U)[U]
        <3>1. CASE U = {}
            <4>1. Of(U)[U] = base
                BY <2>1, <2>2, <3>1 DEF Iterating
            <4> QED
                BY <3>1, <4>1
        <3>2. CASE U # {}
            <4> DEFINE x == LastOne(k, U)
                       V == U \ {x}
            <4>0. x \in U
                BY <3>2 DEF Chooses
            <4>6. g[U] = Apply(k, x, Of(V)[V])
                BY <3>2
            <4>2. Of(U)[U] = Apply(k, x, Of(U)[V])
                BY <2>1, <2>2, <3>2 DEF Iterating
            <4> HIDE DEF x, g
            <4>1. V \in SUBSET U /\ V # T /\ V \in SUBSET T /\ IsFiniteSet(V)
                BY <4>0, FS_Subset
            <4> DEFINE h == [W \in SUBSET V |-> Of(U)[W]]
            <4>9. Chooses(k, U)
                BY DEF Chooses
            <4>3. Iterating(k, base, V, h) /\ Chooses(k, V)
                <5>1. Iterating(k, base, U, Of(U))
                    BY <2>1, <2>2
                <5> QED
                    BY <4>1, <4>9, <5>1, IteratingPart
            <4>4. Of(V) = h
                <5>1. Iterating(k, base, V, Of(V))
                    BY <2>1, <4>1
                <5> HIDE DEF h, V
                <5> QED
                    BY <4>1, <4>3, <5>1, IteratingUnique
            <4>5. Of(V)[V] = Of(U)[V]
                BY <4>4
            <4> QED
                BY <4>2, <4>5, <4>6
        <3> QED
            BY <3>1, <3>2
    <2>3. ASSUME NEW U \in SUBSET T
          PROVE  g[U] = IF U = {} THEN base ELSE Apply(k, LastOne(k, U), g[U \ {LastOne(k, U)}])
        <3>1. CASE U = {}
            BY <3>1
        <3>2. CASE U # {}
            <4> DEFINE x == LastOne(k, U)
                       V == U \ {x}
            <4>1. x \in U
                BY <3>2 DEF Chooses
            <4>2. g[U] = Apply(k, x, Of(V)[V])
                BY <3>2
            <4> HIDE DEF x, g
            <4>3. V \in SUBSET T /\ V # T
                BY <4>1
            <4>4. g[V] = Of(V)[V]
                BY <2>2, <4>3
            <4>5. g[U] = Apply(k, x, g[V])
                BY <4>2, <4>4
            <4> QED
                BY <3>2, <4>5 DEF x
        <3> QED
            BY <3>1, <3>2
    <2>4. g = [U \in SUBSET T |-> g[U]]
        OBVIOUS
    <2> HIDE DEF g
    <2>5. g = [U \in SUBSET T |->
                  IF U = {} THEN base ELSE Apply(k, LastOne(k, U), g[U \ {LastOne(k, U)}])]
        BY <2>3, <2>4
    <2>6. Iterating(k, base, T, g)
        BY <2>5 DEF Iterating
    <2> QED
        BY <2>6
<1> HIDE DEF P
<1>2. S \in P
    BY <1>1, SubsetInduction
<1> QED
    BY <1>2 DEF P

\* What comes of a set comes, by one more step, of the set without its last.
LEMMA FoldedUnfolds ==
    ASSUME NEW S, IsFiniteSet(S), NEW k, NEW base, Chooses(k, S), NEW T \in SUBSET S
    PROVE  /\ T = {} => Folded(k, base, T) = base
           /\ T # {} => /\ LastOne(k, T) \in T
                        /\ Folded(k, base, T)
                             = Apply(k, LastOne(k, T), Folded(k, base, T \ {LastOne(k, T)}))
<1>1. IsFiniteSet(T) /\ Chooses(k, T)
    BY FS_Subset DEF Chooses
<1> DEFINE g == CHOOSE h : Iterating(k, base, T, h)
<1>2. Iterating(k, base, T, g)
    BY <1>1, IteratingExists
<1>3. Folded(k, base, T) = g[T]
    BY DEF Folded
<1> HIDE DEF g
<1>4. CASE T = {}
    BY <1>2, <1>3, <1>4 DEF Iterating
<1>5. CASE T # {}
    <2> DEFINE x == LastOne(k, T)
               U == T \ {x}
               h == CHOOSE f : Iterating(k, base, U, f)
               p == [V \in SUBSET U |-> g[V]]
    <2>1. x \in T
        BY <1>1, <1>5 DEF Chooses
    <2>2. g[T] = Apply(k, x, g[U])
        BY <1>2, <1>5 DEF Iterating
    <2> HIDE DEF x
    <2>3. U \in SUBSET T /\ IsFiniteSet(U)
        BY <1>1, FS_Subset
    <2>4. Iterating(k, base, U, p) /\ Chooses(k, U)
        BY <1>1, <1>2, <2>3, IteratingPart
    <2>5. Iterating(k, base, U, h)
        <3> HIDE DEF U, p
        <3> QED
            BY <2>3, <2>4, IteratingExists
    <2>6. Folded(k, base, U) = h[U]
        BY DEF Folded
    <2>7. p[U] = g[U]
        OBVIOUS
    <2>8. p = h
        <3> HIDE DEF U, p, h
        <3> QED
            BY <2>3, <2>4, <2>5, IteratingUnique
    <2>9. Folded(k, base, T) = Apply(k, x, Folded(k, base, U))
        BY <1>3, <2>2, <2>6, <2>7, <2>8
    <2> QED
        BY <1>5, <2>1, <2>9 DEF x
<1> QED
    BY <1>4, <1>5

\* The folds, as they are defined.
ProcessingAll(base, S, g) ==
    g = [T \in SUBSET S |->
            IF T = {} THEN base
            ELSE Processed(CHOOSE x \in T : TRUE, g[T \ {CHOOSE x \in T : TRUE}])]

LoadingAll(base, S, g) ==
    g = [T \in SUBSET S |->
            IF T = {} THEN base
            ELSE Loaded(CHOOSE x \in T : TRUE, g[T \ {CHOOSE x \in T : TRUE}])]

Updating(ds, skipped, base, S, g) ==
    g = [T \in SUBSET S |->
            IF T = {} THEN base
            ELSE ProcessAll(Due(g[T \ {Max(T)}].tree, Order[Max(T)], ds, skipped), g[T \ {Max(T)}])]

Importing(base, S, g) ==
    g = [T \in SUBSET S |->
            IF T = {} THEN base
            ELSE LoadAll(Nodes(g[T \ {Max(T)}].tree, Order[Max(T)]), g[T \ {Max(T)}])]

Following(t, path, base, S, g) ==
    g = [T \in SUBSET S |->
            IF T = {} THEN base ELSE FollowEdge(t, g[T \ {Max(T)}], path[Max(T)])]

\* The fold over the nodes of a definition is the one that the definition of FoldSet tells.
LEMMA ProcessingFold ==
    ASSUME NEW base, NEW S
    PROVE  ProcessAll(S, base) = (CHOOSE g : ProcessingAll(base, S, g))[S]
BY Zenon DEF ProcessAll, FoldSet, MapThenFoldSet, ProcessingAll

\* So it is where a file is loaded.
LEMMA LoadingFold ==
    ASSUME NEW base, NEW S
    PROVE  LoadAll(S, base) = (CHOOSE g : LoadingAll(base, S, g))[S]
BY Zenon DEF LoadAll, FoldSet, MapThenFoldSet, LoadingAll

\* So it is for an update, over the positions of Order.
LEMMA UpdatingFold ==
    ASSUME NEW t, NEW a, NEW includeRoot, NEW ds, NEW skipped,
           ds = IF t[a].defn = NoDefn THEN {} ELSE Dependents[t[a].defn],
           skipped = IF includeRoot THEN {} ELSE {a}
    PROVE  Update(t, a, includeRoot)
               = (CHOOSE g : Updating(ds, skipped, [tree |-> t, ok |-> TRUE], DOMAIN Order, g))[DOMAIN Order]
BY Zenon DEF Update, FoldLeft, MapThenFoldSet, Updating, ProcessAll, Due

\* So it is for an import.
LEMMA ImportingFold ==
    ASSUME NEW t, NEW file
    PROVE  LET end == (CHOOSE g : Importing(WithFile(ResetNode(t, Root), file), DOMAIN Order, g))[DOMAIN Order]
           IN Import(t, file) = [tree |-> end.tree, ok |-> end.ok /\ DOMAIN end.file = {}]
BY Zenon DEF Import, FoldLeft, MapThenFoldSet, Importing, LoadAll

\* So it is for a path, over its positions.
LEMMA FollowingFold ==
    ASSUME NEW t, NEW path
    PROVE  Follow(t, path) = (CHOOSE g : Following(t, path, Root, DOMAIN path, g))[DOMAIN path]
BY Zenon DEF Follow, FoldLeft, MapThenFoldSet, Following

\* What comes of processing is what comes of steps of its kind.
LEMMA ProcessingSteps ==
    ASSUME NEW base, NEW S, IsFiniteSet(S), Chooses(Kind("processed"), S)
    PROVE  (CHOOSE g : ProcessingAll(base, S, g))[S] = Folded(Kind("processed"), base, S)
<1> DEFINE k == Kind("processed")
<1>1. \A T : LastOne(k, T) = CHOOSE x \in T : TRUE
    BY DEF LastOne, Kind
<1>2. \A x, u : Apply(k, x, u) = Processed(x, u)
    BY DEF Apply, Kind
<1> HIDE DEF k
<1>3. ASSUME NEW g
      PROVE  Iterating(k, base, S, g) <=> ProcessingAll(base, S, g)
    <2> DEFINE A(T) == IF T = {} THEN base
                       ELSE Apply(k, LastOne(k, T), g[T \ {LastOne(k, T)}])
               B(T) == IF T = {} THEN base
                       ELSE Processed(CHOOSE x \in T : TRUE, g[T \ {CHOOSE x \in T : TRUE}])
    <2>1. \A T : A(T) = B(T)
        BY <1>1, <1>2
    <2>2. Iterating(k, base, S, g) <=> g = [T \in SUBSET S |-> A(T)]
        BY Zenon DEF Iterating
    <2>3. ProcessingAll(base, S, g) <=> g = [T \in SUBSET S |-> B(T)]
        BY Zenon DEF ProcessingAll
    <2> HIDE DEF A, B
    <2>4. [T \in SUBSET S |-> A(T)] = [T \in SUBSET S |-> B(T)]
        BY <2>1
    <2> QED
        BY <2>2, <2>3, <2>4
<1>4. (CHOOSE g : ProcessingAll(base, S, g)) = (CHOOSE g : Iterating(k, base, S, g))
    <2> DEFINE g1 == CHOOSE g : ProcessingAll(base, S, g)
               g2 == CHOOSE g : Iterating(k, base, S, g)
    <2>1. \E g : Iterating(k, base, S, g)
        BY IteratingExists DEF k
    <2>2. Iterating(k, base, S, g2)
        BY <2>1
    <2>3. ProcessingAll(base, S, g1)
        BY <1>3, <2>1
    <2> HIDE DEF g1, g2
    <2>4. Iterating(k, base, S, g1)
        BY <1>3, <2>3
    <2>5. g1 = g2
        BY <2>2, <2>4, IteratingUnique DEF k
    <2> QED
        BY <2>5 DEF g1, g2
<1> QED
    BY <1>4 DEF Folded, k

\* What comes of loading is what comes of steps of its kind.
LEMMA LoadingSteps ==
    ASSUME NEW base, NEW S, IsFiniteSet(S), Chooses(Kind("loaded"), S)
    PROVE  (CHOOSE g : LoadingAll(base, S, g))[S] = Folded(Kind("loaded"), base, S)
<1> DEFINE k == Kind("loaded")
<1>1. \A T : LastOne(k, T) = CHOOSE x \in T : TRUE
    BY DEF LastOne, Kind
<1>2. \A x, u : Apply(k, x, u) = Loaded(x, u)
    BY DEF Apply, Kind
<1> HIDE DEF k
<1>3. ASSUME NEW g
      PROVE  Iterating(k, base, S, g) <=> LoadingAll(base, S, g)
    <2> DEFINE A(T) == IF T = {} THEN base
                       ELSE Apply(k, LastOne(k, T), g[T \ {LastOne(k, T)}])
               B(T) == IF T = {} THEN base
                       ELSE Loaded(CHOOSE x \in T : TRUE, g[T \ {CHOOSE x \in T : TRUE}])
    <2>1. \A T : A(T) = B(T)
        BY <1>1, <1>2
    <2>2. Iterating(k, base, S, g) <=> g = [T \in SUBSET S |-> A(T)]
        BY Zenon DEF Iterating
    <2>3. LoadingAll(base, S, g) <=> g = [T \in SUBSET S |-> B(T)]
        BY Zenon DEF LoadingAll
    <2> HIDE DEF A, B
    <2>4. [T \in SUBSET S |-> A(T)] = [T \in SUBSET S |-> B(T)]
        BY <2>1
    <2> QED
        BY <2>2, <2>3, <2>4
<1>4. (CHOOSE g : LoadingAll(base, S, g)) = (CHOOSE g : Iterating(k, base, S, g))
    <2> DEFINE g1 == CHOOSE g : LoadingAll(base, S, g)
               g2 == CHOOSE g : Iterating(k, base, S, g)
    <2>1. \E g : Iterating(k, base, S, g)
        BY IteratingExists DEF k
    <2>2. Iterating(k, base, S, g2)
        BY <2>1
    <2>3. LoadingAll(base, S, g1)
        BY <1>3, <2>1
    <2> HIDE DEF g1, g2
    <2>4. Iterating(k, base, S, g1)
        BY <1>3, <2>3
    <2>5. g1 = g2
        BY <2>2, <2>4, IteratingUnique DEF k
    <2> QED
        BY <2>5 DEF g1, g2
<1> QED
    BY <1>4 DEF Folded, k

\* What comes of an update is what comes of steps of its kind.
LEMMA UpdatingSteps ==
    ASSUME NEW ds, NEW skipped, NEW base, NEW S, IsFiniteSet(S), Chooses(OfUpdate(ds, skipped), S)
    PROVE  (CHOOSE g : Updating(ds, skipped, base, S, g))[S] = Folded(OfUpdate(ds, skipped), base, S)
<1> DEFINE k == OfUpdate(ds, skipped)
<1>1. \A T : LastOne(k, T) = Max(T)
    BY DEF LastOne, OfUpdate
<1>2. \A x, u : Apply(k, x, u) = ProcessAll(Due(u.tree, Order[x], ds, skipped), u)
    BY DEF Apply, OfUpdate
<1> HIDE DEF k
<1>3. ASSUME NEW g
      PROVE  Iterating(k, base, S, g) <=> Updating(ds, skipped, base, S, g)
    <2> DEFINE A(T) == IF T = {} THEN base
                       ELSE Apply(k, LastOne(k, T), g[T \ {LastOne(k, T)}])
               B(T) == IF T = {} THEN base
                       ELSE ProcessAll(Due(g[T \ {Max(T)}].tree, Order[Max(T)], ds, skipped), g[T \ {Max(T)}])
    <2>1. \A T : A(T) = B(T)
        BY <1>1, <1>2
    <2>2. Iterating(k, base, S, g) <=> g = [T \in SUBSET S |-> A(T)]
        BY Zenon DEF Iterating
    <2>3. Updating(ds, skipped, base, S, g) <=> g = [T \in SUBSET S |-> B(T)]
        BY Zenon DEF Updating
    <2> HIDE DEF A, B
    <2>4. [T \in SUBSET S |-> A(T)] = [T \in SUBSET S |-> B(T)]
        BY <2>1
    <2> QED
        BY <2>2, <2>3, <2>4
<1>4. (CHOOSE g : Updating(ds, skipped, base, S, g)) = (CHOOSE g : Iterating(k, base, S, g))
    <2> DEFINE g1 == CHOOSE g : Updating(ds, skipped, base, S, g)
               g2 == CHOOSE g : Iterating(k, base, S, g)
    <2>1. \E g : Iterating(k, base, S, g)
        BY IteratingExists DEF k
    <2>2. Iterating(k, base, S, g2)
        BY <2>1
    <2>3. Updating(ds, skipped, base, S, g1)
        BY <1>3, <2>1
    <2> HIDE DEF g1, g2
    <2>4. Iterating(k, base, S, g1)
        BY <1>3, <2>3
    <2>5. g1 = g2
        BY <2>2, <2>4, IteratingUnique DEF k
    <2> QED
        BY <2>5 DEF g1, g2
<1> QED
    BY <1>4 DEF Folded, k

\* What comes of an import is what comes of steps of its kind.
LEMMA ImportingSteps ==
    ASSUME NEW base, NEW S, IsFiniteSet(S), Chooses(Kind("import"), S)
    PROVE  (CHOOSE g : Importing(base, S, g))[S] = Folded(Kind("import"), base, S)
<1> DEFINE k == Kind("import")
<1>1. \A T : LastOne(k, T) = Max(T)
    BY DEF LastOne, Kind
<1>2. \A x, u : Apply(k, x, u) = LoadAll(Nodes(u.tree, Order[x]), u)
    BY DEF Apply, Kind
<1> HIDE DEF k
<1>3. ASSUME NEW g
      PROVE  Iterating(k, base, S, g) <=> Importing(base, S, g)
    <2> DEFINE A(T) == IF T = {} THEN base
                       ELSE Apply(k, LastOne(k, T), g[T \ {LastOne(k, T)}])
               B(T) == IF T = {} THEN base
                       ELSE LoadAll(Nodes(g[T \ {Max(T)}].tree, Order[Max(T)]), g[T \ {Max(T)}])
    <2>1. \A T : A(T) = B(T)
        BY <1>1, <1>2
    <2>2. Iterating(k, base, S, g) <=> g = [T \in SUBSET S |-> A(T)]
        BY Zenon DEF Iterating
    <2>3. Importing(base, S, g) <=> g = [T \in SUBSET S |-> B(T)]
        BY Zenon DEF Importing
    <2> HIDE DEF A, B
    <2>4. [T \in SUBSET S |-> A(T)] = [T \in SUBSET S |-> B(T)]
        BY <2>1
    <2> QED
        BY <2>2, <2>3, <2>4
<1>4. (CHOOSE g : Importing(base, S, g)) = (CHOOSE g : Iterating(k, base, S, g))
    <2> DEFINE g1 == CHOOSE g : Importing(base, S, g)
               g2 == CHOOSE g : Iterating(k, base, S, g)
    <2>1. \E g : Iterating(k, base, S, g)
        BY IteratingExists DEF k
    <2>2. Iterating(k, base, S, g2)
        BY <2>1
    <2>3. Importing(base, S, g1)
        BY <1>3, <2>1
    <2> HIDE DEF g1, g2
    <2>4. Iterating(k, base, S, g1)
        BY <1>3, <2>3
    <2>5. g1 = g2
        BY <2>2, <2>4, IteratingUnique DEF k
    <2> QED
        BY <2>5 DEF g1, g2
<1> QED
    BY <1>4 DEF Folded, k

\* What comes of following a path is what comes of steps of its kind.
LEMMA FollowingSteps ==
    ASSUME NEW t, NEW path, NEW base, NEW S, IsFiniteSet(S), Chooses(OfFollow(t, path), S)
    PROVE  (CHOOSE g : Following(t, path, base, S, g))[S] = Folded(OfFollow(t, path), base, S)
<1> DEFINE k == OfFollow(t, path)
<1>1. \A T : LastOne(k, T) = Max(T)
    BY DEF LastOne, OfFollow
<1>2. \A x, u : Apply(k, x, u) = FollowEdge(t, u, path[x])
    BY DEF Apply, OfFollow
<1> HIDE DEF k
<1>3. ASSUME NEW g
      PROVE  Iterating(k, base, S, g) <=> Following(t, path, base, S, g)
    <2> DEFINE A(T) == IF T = {} THEN base
                       ELSE Apply(k, LastOne(k, T), g[T \ {LastOne(k, T)}])
               B(T) == IF T = {} THEN base
                       ELSE FollowEdge(t, g[T \ {Max(T)}], path[Max(T)])
    <2>1. \A T : A(T) = B(T)
        BY <1>1, <1>2
    <2>2. Iterating(k, base, S, g) <=> g = [T \in SUBSET S |-> A(T)]
        BY Zenon DEF Iterating
    <2>3. Following(t, path, base, S, g) <=> g = [T \in SUBSET S |-> B(T)]
        BY Zenon DEF Following
    <2> HIDE DEF A, B
    <2>4. [T \in SUBSET S |-> A(T)] = [T \in SUBSET S |-> B(T)]
        BY <2>1
    <2> QED
        BY <2>2, <2>3, <2>4
<1>4. (CHOOSE g : Following(t, path, base, S, g)) = (CHOOSE g : Iterating(k, base, S, g))
    <2> DEFINE g1 == CHOOSE g : Following(t, path, base, S, g)
               g2 == CHOOSE g : Iterating(k, base, S, g)
    <2>1. \E g : Iterating(k, base, S, g)
        BY IteratingExists DEF k
    <2>2. Iterating(k, base, S, g2)
        BY <2>1
    <2>3. Following(t, path, base, S, g1)
        BY <1>3, <2>1
    <2> HIDE DEF g1, g2
    <2>4. Iterating(k, base, S, g1)
        BY <1>3, <2>3
    <2>5. g1 = g2
        BY <2>2, <2>4, IteratingUnique DEF k
    <2> QED
        BY <2>5 DEF g1, g2
<1> QED
    BY <1>4 DEF Folded, k

-----------------------------------------------------------------------------
(* What comes of folds, step by step *)

\* Counting up to a bound.
LEMMA CountingUp ==
    ASSUME NEW n \in Nat, NEW P, 0 \in P, \A m \in 0..(n - 1) : m \in P => m + 1 \in P
    PROVE  \A m \in 0..n : m \in P
<1> DEFINE Out == (0..n) \ P
<1> SUFFICES ASSUME Out # {} PROVE FALSE
    OBVIOUS
<1>1. IsFiniteSet(0..n)
    BY FS_Interval
<1>2. IsFiniteSet(Out)
    BY <1>1, FS_Subset
<1> DEFINE f == [m \in Out |-> m]
<1>3. f \in [Out -> Int]
    OBVIOUS
<1>4. PICK m \in Out : \A y \in Out : f[m] <= f[y]
    <2> HIDE DEF Out
    <2> QED
        BY <1>2, <1>3, LeastExists
<1>5. m \in 0..n /\ m \notin P /\ m # 0
    OBVIOUS
<1>6. m - 1 \in 0..(n - 1) /\ (m - 1) + 1 = m /\ m - 1 \in 0..n /\ m - 1 < m
    BY <1>5
<1>7. m - 1 \in P
    <2> SUFFICES ASSUME m - 1 \in Out PROVE FALSE
        BY <1>6
    <2>1. f[m] <= f[m - 1] /\ f[m] = m /\ f[m - 1] = m - 1
        BY <1>4
    <2> QED
        BY <2>1, <1>6
<1> QED
    BY <1>5, <1>6, <1>7

\* The greatest of a finite set.
LEMMA MaxIs ==
    ASSUME NEW T, IsFiniteSet(T), T \subseteq Int, T # {}
    PROVE  Max(T) \in T /\ \A y \in T : y <= Max(T)
<1> DEFINE f == [x \in T |-> -x]
<1>1. f \in [T -> Int]
    OBVIOUS
<1>2. PICK x \in T : \A y \in T : f[x] <= f[y]
    BY <1>1, LeastExists
<1>3. \A y \in T : x >= y
    BY <1>2
<1>4. \E z \in T : \A y \in T : z >= y
    BY <1>3
<1>5. Max(T) \in T /\ \A y \in T : Max(T) >= y
    BY <1>4, Zenon DEF Max
<1> QED
    BY <1>5

\* There is always a last one.
LEMMA ChoosesSome ==
    /\ \A S : Chooses(Kind("processed"), S) /\ Chooses(Kind("loaded"), S)
    /\ \A S, k : IsFiniteSet(S) /\ S \subseteq Int /\ k.op \notin {"processed", "loaded"} => Chooses(k, S)
<1>1. ASSUME NEW S, NEW k, k.op \in {"processed", "loaded"}, NEW T \in SUBSET S, T # {}
      PROVE  LastOne(k, T) \in T
    BY <1>1 DEF LastOne
<1>2. \A S : Chooses(Kind("processed"), S) /\ Chooses(Kind("loaded"), S)
    <2>1. Kind("processed").op = "processed" /\ Kind("loaded").op = "loaded"
        BY DEF Kind
    <2>2. \A k, S : k.op \in {"processed", "loaded"} => Chooses(k, S)
        BY <1>1 DEF Chooses
    <2> QED
        BY <2>1, <2>2
<1>3. ASSUME NEW S, NEW k, IsFiniteSet(S), S \subseteq Int, k.op \notin {"processed", "loaded"},
             NEW T \in SUBSET S, T # {}
      PROVE  LastOne(k, T) \in T
    <2>1. IsFiniteSet(T) /\ T \subseteq Int
        BY <1>3, FS_Subset
    <2>2. Max(T) \in T
        BY <1>3, <2>1, MaxIs
    <2> QED
        BY <1>3, <2>2 DEF LastOne
<1> QED
    BY <1>2, <1>3 DEF Chooses

\* Of the nodes to process, one is processed last.
LEMMA ProcessAllUnfolds ==
    ASSUME NEW S, IsFiniteSet(S), NEW u
    PROVE  /\ S = {} => ProcessAll(S, u) = u
           /\ S # {} => \E b \in S : ProcessAll(S, u) = Processed(b, ProcessAll(S \ {b}, u))
<1> DEFINE k == Kind("processed")
<1>1. \A T \in SUBSET S : ProcessAll(T, u) = Folded(k, u, T)
    <2> SUFFICES ASSUME NEW T \in SUBSET S PROVE ProcessAll(T, u) = Folded(k, u, T)
        OBVIOUS
    <2>1. IsFiniteSet(T) /\ Chooses(k, T)
        BY FS_Subset, ChoosesSome
    <2> QED
        BY <2>1, ProcessingFold, ProcessingSteps
<1>2. \A x, w : Apply(k, x, w) = Processed(x, w)
    BY DEF Apply, Kind
<1>3. Chooses(k, S)
    BY ChoosesSome
<1> HIDE DEF k
<1>4. CASE S = {}
    BY <1>1, <1>3, <1>4, FoldedUnfolds
<1>5. CASE S # {}
    <2> DEFINE b == LastOne(k, S)
    <2>1. b \in S /\ Folded(k, u, S) = Apply(k, b, Folded(k, u, S \ {b}))
        BY <1>3, <1>5, FoldedUnfolds
    <2> HIDE DEF b
    <2>2. ProcessAll(S, u) = Processed(b, ProcessAll(S \ {b}, u))
        BY <1>1, <1>2, <2>1
    <2> QED
        BY <1>5, <2>1, <2>2
<1> QED
    BY <1>4, <1>5

\* And of those to be loaded.
LEMMA LoadAllUnfolds ==
    ASSUME NEW S, IsFiniteSet(S), NEW u
    PROVE  /\ S = {} => LoadAll(S, u) = u
           /\ S # {} => \E b \in S : LoadAll(S, u) = Loaded(b, LoadAll(S \ {b}, u))
<1> DEFINE k == Kind("loaded")
<1>1. \A T \in SUBSET S : LoadAll(T, u) = Folded(k, u, T)
    <2> SUFFICES ASSUME NEW T \in SUBSET S PROVE LoadAll(T, u) = Folded(k, u, T)
        OBVIOUS
    <2>1. IsFiniteSet(T) /\ Chooses(k, T)
        BY FS_Subset, ChoosesSome
    <2> QED
        BY <2>1, LoadingFold, LoadingSteps
<1>2. \A x, w : Apply(k, x, w) = Loaded(x, w)
    BY DEF Apply, Kind
<1>3. Chooses(k, S)
    BY ChoosesSome
<1> HIDE DEF k
<1>4. CASE S = {}
    BY <1>1, <1>3, <1>4, FoldedUnfolds
<1>5. CASE S # {}
    <2> DEFINE b == LastOne(k, S)
    <2>1. b \in S /\ Folded(k, u, S) = Apply(k, b, Folded(k, u, S \ {b}))
        BY <1>3, <1>5, FoldedUnfolds
    <2> HIDE DEF b
    <2>2. LoadAll(S, u) = Loaded(b, LoadAll(S \ {b}, u))
        BY <1>1, <1>2, <2>1
    <2> QED
        BY <1>5, <2>1, <2>2
<1> QED
    BY <1>4, <1>5

\* A sequence is gone through from its first element to its last.
InTurn(k, base, n) ==
    /\ IsFiniteSet(1..n) /\ Chooses(k, 1..n)
    /\ Folded(k, base, 1..0) = base
    /\ \A m \in 1..n : Folded(k, base, 1..m) = Apply(k, m, Folded(k, base, 1..(m - 1)))

\* Max chooses the last position, so that the steps are taken in turn.
LEMMA InOrder ==
    ASSUME NEW n \in Nat, NEW k, NEW base, k.op \notin {"processed", "loaded"}
    PROVE  InTurn(k, base, n)
<1>1. IsFiniteSet(1..n) /\ 1..n \subseteq Int
    BY FS_Interval
<1>2. Chooses(k, 1..n)
    BY <1>1, ChoosesSome
<1>3. Folded(k, base, 1..0) = base
    <2>1. 1..0 = {} /\ {} \in SUBSET (1..n)
        OBVIOUS
    <2>2. Folded(k, base, {}) = base
        <3> DEFINE S == 1..n
                   T == {}
        <3>1. IsFiniteSet(S) /\ Chooses(k, S) /\ T \in SUBSET S /\ T = {}
            BY <1>1, <1>2
        <3> HIDE DEF S, T
        <3>2. Folded(k, base, T) = base
            BY <3>1, FoldedUnfolds
        <3> QED
            BY <3>1, <3>2
    <2> QED
        BY <2>1, <2>2
<1>4. ASSUME NEW m \in 1..n
      PROVE  Folded(k, base, 1..m) = Apply(k, m, Folded(k, base, 1..(m - 1)))
    <2>1. 1..m \in SUBSET (1..n) /\ 1..m # {}
        BY m \in 1..m
    <2>2. LastOne(k, 1..m) = m
        <3>1. LastOne(k, 1..m) = Max(1..m)
            BY DEF LastOne
        <3>2. IsFiniteSet(1..m) /\ 1..m \subseteq Int
            BY <1>1, <2>1, FS_Subset
        <3>3. Max(1..m) \in 1..m /\ m <= Max(1..m)
            <4>1. m \in 1..m
                OBVIOUS
            <4> DEFINE S == 1..m
            <4> HIDE DEF S
            <4>2. Max(S) \in S /\ \A y \in S : y <= Max(S)
                BY <2>1, <3>2, MaxIs DEF S
            <4> QED
                BY <4>1, <4>2 DEF S
        <3>4. \A x \in 1..m : m <= x => x = m
            OBVIOUS
        <3> QED
            BY <3>1, <3>3, <3>4
    <2>3. (1..m) \ {m} = 1..(m - 1)
        OBVIOUS
    <2> QED
        BY <1>1, <1>2, <2>1, <2>2, <2>3, FoldedUnfolds
<1> QED
    BY <1>1, <1>2, <1>3, <1>4 DEF InTurn

\* An update, after the first n definitions.
Upto(ds, skipped, base, n) == Folded(OfUpdate(ds, skipped), base, 1..n)

\* Order, by its positions.
LEMMA OrderFacts ==
    /\ DOMAIN Order = 1..10
    /\ Order[1] = "system" /\ Order[2] = "specs" /\ Order[3] = "spec" /\ Order[4] = "type"
    /\ Order[5] = "whenTyped" /\ Order[6] = "contents" /\ Order[7] = "name"
    /\ Order[8] = "instances" /\ Order[9] = "instance" /\ Order[10] = "spec_ref"
BY DEF Order

\* An update goes from one definition to the next.
LEMMA UptoUnfolds ==
    ASSUME NEW ds, NEW skipped, NEW base
    PROVE  /\ (CHOOSE g : Updating(ds, skipped, base, DOMAIN Order, g))[DOMAIN Order]
                 = Upto(ds, skipped, base, 10)
           /\ Upto(ds, skipped, base, 0) = base
           /\ \A n \in 1..10 :
                  Upto(ds, skipped, base, n)
                    = ProcessAll(Due(Upto(ds, skipped, base, n - 1).tree, Order[n], ds, skipped),
                                 Upto(ds, skipped, base, n - 1))
<1> DEFINE k == OfUpdate(ds, skipped)
<1>1. k.op = "update" /\ k.ds = ds /\ k.skipped = skipped
    BY DEF OfUpdate
<1>2. \A x, u : Apply(k, x, u) = ProcessAll(Due(u.tree, Order[x], ds, skipped), u)
    BY <1>1 DEF Apply
<1> HIDE DEF k
<1>3. InTurn(k, base, 10)
    <2>1. 10 \in Nat /\ k.op \notin {"processed", "loaded"}
        BY <1>1
    <2> QED
        BY <2>1, InOrder
<1>4. (CHOOSE g : Updating(ds, skipped, base, DOMAIN Order, g))[DOMAIN Order] = Folded(k, base, 1..10)
    <2>1. (CHOOSE g : Updating(ds, skipped, base, 1..10, g))[1..10] = Folded(k, base, 1..10)
        BY <1>3, UpdatingSteps DEF k, InTurn
    <2> QED
        BY <2>1, OrderFacts
<1>5. \A n : Upto(ds, skipped, base, n) = Folded(k, base, 1..n)
    BY DEF Upto, k
<1>6. ASSUME NEW n \in 1..10
      PROVE  Upto(ds, skipped, base, n)
               = ProcessAll(Due(Upto(ds, skipped, base, n - 1).tree, Order[n], ds, skipped),
                            Upto(ds, skipped, base, n - 1))
    <2>1. Folded(k, base, 1..n) = Apply(k, n, Folded(k, base, 1..(n - 1)))
        BY <1>3 DEF InTurn
    <2> QED
        BY <1>2, <1>5, <2>1
<1>7. Upto(ds, skipped, base, 0) = base
    BY <1>3, <1>5 DEF InTurn
<1> QED
    BY <1>4, <1>5, <1>6, <1>7

\* What the update's fold comes to, for any arguments.
LEMMA UptoIs ==
    \A ds, skipped, base :
        (CHOOSE g : Updating(ds, skipped, base, DOMAIN Order, g))[DOMAIN Order]
            = Upto(ds, skipped, base, 10)
<1> SUFFICES ASSUME NEW ds, NEW skipped, NEW base
             PROVE  (CHOOSE g : Updating(ds, skipped, base, DOMAIN Order, g))[DOMAIN Order]
                       = Upto(ds, skipped, base, 10)
    OBVIOUS
<1> QED
    BY UptoUnfolds

\* update_sd_tree is the update after all ten definitions.
LEMMA UpdateUnfolds ==
    ASSUME NEW t, NEW a, NEW includeRoot, NEW ds, NEW skipped, NEW base,
           ds = IF t[a].defn = NoDefn THEN {} ELSE Dependents[t[a].defn],
           skipped = IF includeRoot THEN {} ELSE {a},
           base = [tree |-> t, ok |-> TRUE]
    PROVE  Update(t, a, includeRoot) = Upto(ds, skipped, base, 10)
<1>1. Update(t, a, includeRoot)
        = (CHOOSE g : Updating(ds, skipped, base, DOMAIN Order, g))[DOMAIN Order]
    BY UpdatingFold
<1> QED
    <2> SUFFICES ASSUME NEW v, v = [tree |-> t, ok |-> TRUE]
                 PROVE  (CHOOSE g : Updating(ds, skipped, v, DOMAIN Order, g))[DOMAIN Order]
                            = Upto(ds, skipped, v, 10)
        BY Zenon, <1>1
    <2> QED
        BY Zenon, UptoIs

\* An import, after the first n definitions.
ImportedUpto(base, n) == Folded(Kind("import"), base, 1..n)

\* import_yaml goes from one definition to the next.
LEMMA ImportUnfolds ==
    ASSUME NEW t, NEW file, NEW base, base = WithFile(ResetNode(t, Root), file)
    PROVE  /\ Import(t, file).tree = ImportedUpto(base, 10).tree
           /\ ImportedUpto(base, 0) = base
           /\ \A n \in 1..10 :
                  ImportedUpto(base, n)
                    = LoadAll(Nodes(ImportedUpto(base, n - 1).tree, Order[n]), ImportedUpto(base, n - 1))
<1> DEFINE k == Kind("import")
<1>1. k.op = "import"
    BY DEF Kind
<1>2. \A x, u : Apply(k, x, u) = LoadAll(Nodes(u.tree, Order[x]), u)
    BY <1>1 DEF Apply
<1> HIDE DEF k
<1>3. InTurn(k, base, 10)
    <2>1. 10 \in Nat /\ k.op \notin {"processed", "loaded"}
        BY <1>1
    <2> QED
        BY <2>1, InOrder
<1> DEFINE end == (CHOOSE g : Importing(base, DOMAIN Order, g))[DOMAIN Order]
<1>4. Import(t, file) = [tree |-> end.tree, ok |-> end.ok /\ DOMAIN end.file = {}]
    BY ImportingFold
<1>5. end = Folded(k, base, 1..10)
    <2>1. (CHOOSE g : Importing(base, 1..10, g))[1..10] = Folded(k, base, 1..10)
        BY <1>3, ImportingSteps DEF k, InTurn
    <2> QED
        BY <2>1, OrderFacts
<1> HIDE DEF end
<1>6. Import(t, file).tree = end.tree
    BY <1>4
<1>7. \A n : ImportedUpto(base, n) = Folded(k, base, 1..n)
    BY DEF ImportedUpto, k
<1>8. ASSUME NEW n \in 1..10
      PROVE  ImportedUpto(base, n)
               = LoadAll(Nodes(ImportedUpto(base, n - 1).tree, Order[n]), ImportedUpto(base, n - 1))
    <2>1. Folded(k, base, 1..n) = Apply(k, n, Folded(k, base, 1..(n - 1)))
        BY <1>3 DEF InTurn
    <2> QED
        BY <1>2, <1>7, <2>1
<1>9. ImportedUpto(base, 0) = base
    BY <1>3, <1>7 DEF InTurn
<1>10. Import(t, file).tree = ImportedUpto(base, 10).tree
    BY <1>5, <1>6, <1>7
<1> QED
    BY <1>8, <1>9, <1>10

\* A path, followed for n edges.
Followed(t, path, n) == Folded(OfFollow(t, path), Root, 1..n)

\* A path is followed from one edge to the next.
LEMMA FollowUnfolds ==
    ASSUME NEW t, NEW path, NEW n \in Nat, DOMAIN path = 1..n
    PROVE  /\ Follow(t, path) = Followed(t, path, n)
           /\ Followed(t, path, 0) = Root
           /\ \A m \in 1..n :
                  Followed(t, path, m) = FollowEdge(t, Followed(t, path, m - 1), path[m])
<1> DEFINE k == OfFollow(t, path)
<1>1. k.op = "follow" /\ k.tree = t /\ k.path = path
    BY DEF OfFollow
<1>2. \A x, u : Apply(k, x, u) = FollowEdge(t, u, path[x])
    BY <1>1 DEF Apply
<1> HIDE DEF k
<1>3. InTurn(k, Root, n)
    <2>1. k.op \notin {"processed", "loaded"}
        BY <1>1
    <2> QED
        BY <2>1, InOrder
<1>4. Follow(t, path) = (CHOOSE g : Following(t, path, Root, DOMAIN path, g))[DOMAIN path]
    BY FollowingFold
<1>5. Follow(t, path) = Folded(k, Root, 1..n)
    <2>1. (CHOOSE g : Following(t, path, Root, 1..n, g))[1..n] = Folded(k, Root, 1..n)
        BY <1>3, FollowingSteps DEF k, InTurn
    <2> QED
        BY <1>4, <2>1
<1>6. \A m : Followed(t, path, m) = Folded(k, Root, 1..m)
    BY DEF Followed, k
<1> QED
    BY <1>2, <1>3, <1>5, <1>6 DEF InTurn

-----------------------------------------------------------------------------
(* The children of a node *)

\* Finitely many positions without a gap are those up to some number.
LEMMA UpToSome ==
    ASSUME NEW K, K \subseteq Pos, IsFiniteSet(K), \A i \in K : i > 1 => i - 1 \in K
    PROVE  \E n \in Nat : K = 1..n
<1>1. CASE K = {}
    <2>1. 1..0 = {}
        OBVIOUS
    <2> QED
        BY <1>1, <2>1
<1>2. CASE K # {}
    <2> DEFINE n == Max(K)
    <2>1. K \subseteq Int
        BY DEF Pos
    <2>2. n \in K /\ \A i \in K : i <= n
        BY <1>2, <2>1, MaxIs
    <2> HIDE DEF n
    <2>3. n \in Nat /\ n >= 1 /\ n - 1 \in Nat
        BY <2>2 DEF Pos
    <2> DEFINE P == {m \in Nat : n - m \in K}
    <2>4. 0 \in P
        BY <2>2, <2>3
    <2>5. ASSUME NEW m \in 0..(n - 1 - 1), m \in P
          PROVE  m + 1 \in P
        <3>1. n - m \in K /\ m \in Nat /\ m <= n - 2
            BY <2>3, <2>5
        <3>2. n - m > 1 /\ (n - m) - 1 = n - (m + 1)
            BY <2>3, <3>1
        <3>3. (n - m) - 1 \in K
            BY <3>1, <3>2
        <3> QED
            BY <3>1, <3>2, <3>3
    <2> HIDE DEF P
    <2>6. \A m \in 0..(n - 1) : m \in P
        BY <2>3, <2>4, <2>5, CountingUp
    <2>7. ASSUME NEW i \in 1..n PROVE i \in K
        <3>1. n - i \in 0..(n - 1) /\ n - (n - i) = i
            BY <2>3
        <3> QED
            BY <2>6, <3>1 DEF P
    <2>8. K \subseteq 1..n
        BY <2>2, <2>3 DEF Pos
    <2> QED
        BY <2>3, <2>7, <2>8
<1> QED
    BY <1>1, <1>2

\* What there is at an address is as many as there are positions.
LEMMA ManyKids ==
    ASSUME NEW a \in Seq(Pos), NEW n \in Nat
    PROVE  IsFiniteSet({Append(a, i) : i \in 1..n}) /\ Cardinality({Append(a, i) : i \in 1..n}) = n
<1> DEFINE S == {Append(a, i) : i \in 1..n}
           f == [i \in 1..n |-> Append(a, i)]
<1>1. f \in [1..n -> S] /\ \A s \in S : \E i \in 1..n : f[i] = s
    OBVIOUS
<1>2. ASSUME NEW i \in 1..n, NEW j \in 1..n, f[i] = f[j] PROVE i = j
    <2>1. Append(a, i) = Append(a, j) /\ i \in Pos /\ j \in Pos
        BY <1>2 DEF Pos
    <2> QED
        BY <2>1, KidsDiffer
<1> HIDE DEF S, f
<1>3. f \in Bijection(1..n, S)
    BY <1>1, <1>2 DEF Bijection, Injection, Surjection, IsInjective
<1>4. ExistsBijection(1..n, S)
    BY <1>3 DEF ExistsBijection
<1>5. Cardinality(S) = n /\ IsFiniteSet(S)
    BY <1>4, FS_CountingElements, FS_NatBijection
<1> QED
    BY <1>5 DEF S

\* The children of a node are at its first positions.
LEMMA KidsCounted ==
    ASSUME NEW t, Rooted(DOMAIN t), NEW a \in DOMAIN t
    PROVE  /\ ChildCount(t, a) \in Nat
           /\ Children(t, a) = {Append(a, i) : i \in 1..ChildCount(t, a)}
           /\ \A i \in Pos : Append(a, i) \in DOMAIN t <=> i <= ChildCount(t, a)
<1> DEFINE D == DOMAIN t
           K == {i \in Pos : Append(a, i) \in D}
<1>0. a \in Seq(Pos) /\ IsFiniteSet(D) /\ Cardinality(D) \in Nat
    BY FS_CardinalityType DEF Rooted, Places
<1>1. IsFiniteSet(K)
    <2> DEFINE f == [b \in D |-> Last(b)]
               Im == {f[b] : b \in D}
    <2>1. IsFiniteSet(Im)
        BY <1>0, ImageIsFinite
    <2>2. K \subseteq Im
        <3> SUFFICES ASSUME NEW i \in K PROVE i \in Im
            OBVIOUS
        <3>1. Append(a, i) \in D /\ Last(Append(a, i)) = i
            BY <1>0, KidFacts
        <3>2. f[Append(a, i)] = i
            BY <3>1
        <3> QED
            BY <3>1, <3>2
    <2> QED
        BY <2>1, <2>2, FS_Subset
<1>2. \A i \in K : i > 1 => i - 1 \in K
    BY DEF Rooted, Pos
<1>3. PICK n \in Nat : K = 1..n
    <2> HIDE DEF K
    <2>1. K \subseteq Pos
        BY DEF K
    <2> QED
        BY <1>1, <1>2, <2>1, UpToSome
<1> DEFINE S == {Append(a, i) : i \in 1..n}
<1>4. IsFiniteSet(S) /\ Cardinality(S) = n
    BY <1>0, ManyKids
<1>5. S \subseteq D
    BY <1>3
<1>6. n <= Cardinality(D)
    <2> HIDE DEF S
    <2> QED
        BY <1>0, <1>4, <1>5, FS_Subset
<1>7. Children(t, a) = S
    <2>1. Children(t, a) = {Append(a, i) : i \in 1..Cardinality(D)} \cap D
        BY DEF Children
    <2>2. S \subseteq {Append(a, i) : i \in 1..Cardinality(D)}
        BY <1>0, <1>6
    <2>3. ASSUME NEW i \in 1..Cardinality(D), Append(a, i) \in D PROVE Append(a, i) \in S
        <3>1. i \in K
            BY <2>3 DEF Pos
        <3> QED
            BY <1>3, <3>1
    <2> QED
        BY <1>5, <2>1, <2>2, <2>3
<1>8. ChildCount(t, a) = n
    BY <1>4, <1>7 DEF ChildCount
<1>9. \A i \in Pos : Append(a, i) \in D <=> i <= n
    <2> SUFFICES ASSUME NEW i \in Pos PROVE i \in K <=> i <= n
        OBVIOUS
    <2>1. i \in Nat /\ i >= 1
        BY DEF Pos
    <2> HIDE DEF K
    <2> QED
        BY <1>3, <2>1
<1> QED
    BY <1>7, <1>8, <1>9

-----------------------------------------------------------------------------
(* Lookup *)

\* The first n steps of the way to an address.
Pre(a, n) == SubSeq(a, 1, n)

\* The steps of the way: each is the child of the one before.
LEMMA PreFacts ==
    ASSUME NEW a \in Seq(Pos)
    PROVE  /\ Pre(a, 0) = Root /\ Pre(a, Len(a)) = a
           /\ \A n \in 0..Len(a) : Pre(a, n) \in Seq(Pos) /\ Len(Pre(a, n)) = n
           /\ \A n \in 1..Len(a) : /\ Front(Pre(a, n)) = Pre(a, n - 1) /\ Last(Pre(a, n)) = a[n]
                                   /\ Pre(a, n) # Root
<1>1. \A n \in 0..Len(a) : /\ Pre(a, n) = [i \in 1..n |-> a[i]]
                           /\ Pre(a, n) \in Seq(Pos) /\ Len(Pre(a, n)) = n
    BY DEF Pre
<1>2. Len(a) \in Nat /\ 0 \in 0..Len(a) /\ Len(a) \in 0..Len(a)
    OBVIOUS
<1>3. Pre(a, 0) = Root
    BY <1>1, <1>2 DEF Root
<1>4. Pre(a, Len(a)) = a
    BY <1>1, <1>2
<1>5. ASSUME NEW n \in 1..Len(a)
      PROVE  /\ Front(Pre(a, n)) = Pre(a, n - 1) /\ Last(Pre(a, n)) = a[n]
             /\ Pre(a, n) # Root
    <2> DEFINE p == Pre(a, n)
               q == Pre(a, n - 1)
    <2>1. n \in 0..Len(a) /\ n - 1 \in 0..Len(a) /\ n \in 1..n
        OBVIOUS
    <2>2. /\ p = [i \in 1..n |-> a[i]] /\ p \in Seq(Pos) /\ Len(p) = n
          /\ q = [i \in 1..(n - 1) |-> a[i]] /\ q \in Seq(Pos) /\ Len(q) = n - 1
        BY <1>1, <2>1
    <2> HIDE DEF p, q
    <2>3. p # Root /\ Last(p) = a[n]
        BY <2>1, <2>2 DEF Root, Last
    <2>4. Front(p) = SubSeq(p, 1, n - 1)
        BY <2>2 DEF Front
    <2>5. SubSeq(p, 1, n - 1) = [i \in 1..(n - 1) |-> p[i]]
        BY <2>1, <2>2
    <2>6. \A i \in 1..(n - 1) : p[i] = a[i]
        BY <2>2
    <2>7. Front(p) = q
        BY <2>2, <2>4, <2>5, <2>6
    <2> QED
        BY <2>3, <2>7 DEF p, q
<1> QED
    BY <1>1, <1>3, <1>4, <1>5

\* The way to a node is in the tree.
LEMMA WayIsThere ==
    ASSUME NEW t, Rooted(DOMAIN t), NEW a \in DOMAIN t
    PROVE  \A n \in 0..Len(a) : Pre(a, n) \in DOMAIN t
<1>0. a \in Seq(Pos) /\ Len(a) \in Nat
    BY DEF Shape, Rooted, Places
<1> DEFINE P == {m \in Nat : Pre(a, Len(a) - m) \in DOMAIN t}
<1>1. 0 \in P
    BY <1>0, PreFacts
<1>2. ASSUME NEW m \in 0..(Len(a) - 1), m \in P
      PROVE  m + 1 \in P
    <2> DEFINE n == Len(a) - m
    <2>1. n \in 1..Len(a) /\ Pre(a, n) \in DOMAIN t /\ Len(a) - (m + 1) = n - 1
        BY <1>0, <1>2
    <2> HIDE DEF n
    <2>2. Front(Pre(a, n)) = Pre(a, n - 1) /\ Pre(a, n) # Root
        BY <1>0, <2>1, PreFacts
    <2>3. Front(Pre(a, n)) \in DOMAIN t
        BY <2>1, <2>2 DEF Shape, Rooted
    <2> QED
        BY <2>1, <2>2, <2>3
<1> HIDE DEF P
<1>3. \A m \in 0..Len(a) : m \in P
    BY <1>0, <1>1, <1>2, CountingUp
<1>4. ASSUME NEW n \in 0..Len(a) PROVE Pre(a, n) \in DOMAIN t
    <2>1. Len(a) - n \in 0..Len(a) /\ Len(a) - (Len(a) - n) = n
        BY <1>0
    <2> QED
        BY <1>3, <2>1 DEF P
<1> QED
    BY <1>4

\* An item that has its index still.
Exact(t, b) == Role(b) \in Items => t[b].edge.idx = Last(b) - 1

\* Those that are children by a name.
Named == {"specs", "instances", "type", "whenTyped", "name", "spec_ref"}

\* The edges by names tell the children of a node apart.
LEMMA EdgeFacts ==
    /\ EdgeTo("contents").type = "cond"
    /\ \A d \in Named : EdgeTo(d).type = "child"
    /\ \A d \in Roles : d \in Named \cup Items \cup {"contents", "system"}
    /\ \A p, i, j : PartAt(p, i) \in Named /\ PartAt(p, j) \in Named
                        /\ EdgeTo(PartAt(p, i)) = EdgeTo(PartAt(p, j)) => PartAt(p, i) = PartAt(p, j)
    /\ \A p, i, j : PartAt(p, i) \in Named /\ PartAt(p, i) = PartAt(p, j) => i = j
    /\ \A p, i : PartAt(p, i) = "contents" => i = 1
<1>1. EdgeTo("contents").type = "cond"
    BY DEF EdgeTo, CondEdge
<1>2. \A d \in Named : EdgeTo(d).type = "child"
    BY DEF Named, EdgeTo, ChildEdge
<1>3. \A d \in Roles : d \in Named \cup Items \cup {"contents", "system"}
    BY DEF Roles, Named, Items
<1>4. ASSUME NEW p, NEW i, NEW j, PartAt(p, i) \in Named, PartAt(p, j) \in Named,
             EdgeTo(PartAt(p, i)) = EdgeTo(PartAt(p, j))
      PROVE  PartAt(p, i) = PartAt(p, j)
    <2>1. EdgeTo(PartAt(p, i)).name = EdgeTo(PartAt(p, j)).name
        BY <1>4
    <2>2. /\ EdgeTo("specs").name = "specs" /\ EdgeTo("instances").name = "instances"
          /\ EdgeTo("type").name = "agent_type" /\ EdgeTo("whenTyped").name = "contents"
          /\ EdgeTo("name").name = "name" /\ EdgeTo("spec_ref").name = "spec_ref"
        BY DEF EdgeTo, ChildEdge
    <2> DEFINE c == PartAt(p, i)
               d == PartAt(p, j)
    <2>3. c \in Named /\ d \in Named /\ EdgeTo(c).name = EdgeTo(d).name
        BY <1>4, <2>1
    <2> HIDE DEF c, d
    <2>4. c = d
        BY <2>2, <2>3 DEF Named
    <2> QED
        BY <2>4 DEF c, d
<1>5. \A p, i, j : PartAt(p, i) \in Named /\ PartAt(p, i) = PartAt(p, j) => i = j
    BY DEF PartAt, Named, NoDefn
<1>6. \A p, i : PartAt(p, i) = "contents" => i = 1
    BY DEF PartAt, NoDefn
<1> QED
    BY <1>1, <1>2, <1>3, <1>4, <1>5, <1>6

\* The edge to a node leads to it from its parent, unless it is an item that has moved.
LEMMA EdgeLeads ==
    ASSUME NEW t, Shape(t), NEW b \in DOMAIN t, b # Root, Exact(t, b)
    PROVE  FollowEdge(t, Front(b), t[b].edge) = b
<1> DEFINE a == Front(b)
           i == Last(b)
           e == t[b].edge
<1>1. /\ b \in Places /\ a \in Places /\ i \in Pos /\ b = Append(a, i) /\ a \in Seq(Pos)
      /\ Role(b) = PartAt(Role(a), i) /\ a \in DOMAIN t /\ a # NoNode /\ Role(b) # NoDefn
    <2>1. b \in Places
        BY DEF Shape, Rooted
    <2>2. a \in DOMAIN t
        BY DEF Shape, Rooted
    <2> QED
        BY <2>1, <2>2, PlaceParent, RoleFacts DEF Places
<1>2. Placed(t, b)
    BY DEF Shape
<1> DEFINE there == CASE e.type = "child" -> {c \in Children(t, a) : t[c].edge = e}
                      [] e.type = "item" -> {Append(a, e.idx + 1)} \cap DOMAIN t
                      [] e.type = "cond" -> {Append(a, 1)} \cap DOMAIN t
<1>3. there = {b}
    <2>1. CASE Role(b) \in Items
        <3>1. e.type = "item" /\ e.idx = i - 1 /\ i \in Nat
            BY <1>1, <1>2, <2>1 DEF Placed, Exact, Pos
        <3>2. there = {Append(a, e.idx + 1)} \cap DOMAIN t
            BY <3>1
        <3>3. e.idx + 1 = i
            BY <3>1
        <3> QED
            BY <1>1, <3>2, <3>3
    <2>2. CASE Role(b) = "contents"
        <3>1. e.type = "cond" /\ i = 1
            <4>1. Role(b) \notin Items
                BY <2>2 DEF Items
            <4>2. e = EdgeTo(Role(b))
                BY <1>2, <4>1 DEF Placed
            <4> QED
                BY <1>1, <2>2, <4>2, EdgeFacts
        <3> QED
            BY <1>1, <3>1
    <2>3. CASE Role(b) \notin Items \cup {"contents"}
        <3>1. e = EdgeTo(Role(b)) /\ e.type = "child"
            <4>1. e = EdgeTo(Role(b))
                BY <1>2, <2>3 DEF Placed
            <4>2. Role(b) \in Roles /\ Role(b) # "system"
                BY <1>1, RoleFacts
            <4>3. Role(b) \in Named
                BY <2>3, <4>2, EdgeFacts
            <4> QED
                BY <4>1, <4>3, EdgeFacts
        <3>2. b \in Children(t, a)
            <4>1. i <= ChildCount(t, a) /\ ChildCount(t, a) \in Nat
                BY <1>1, KidsCounted DEF Shape
            <4>2. i \in 1..ChildCount(t, a)
                BY <1>1, <4>1 DEF Pos
            <4>3. Children(t, a) = {Append(a, j) : j \in 1..ChildCount(t, a)}
                BY <1>1, KidsCounted DEF Shape
            <4> QED
                BY <1>1, <4>2, <4>3
        <3>3. ASSUME NEW c \in Children(t, a), t[c].edge = e
              PROVE  c = b
            <4>1. PICK j \in 1..ChildCount(t, a) : c = Append(a, j)
                BY <1>1, KidsCounted DEF Shape
            <4>2. c \in DOMAIN t /\ j \in Pos
                BY <1>1, <4>1, KidsCounted DEF Pos, Children, Shape
            <4>3. c \in Places /\ c # Root /\ Role(c) = PartAt(Role(a), j) /\ Role(c) # NoDefn
                BY <1>1, <4>1, <4>2, KidFacts, KidRole DEF Shape, Rooted, Places
            <4>4. Placed(t, c)
                BY <4>2, <4>3 DEF Shape
            <4>5. t[c].edge.type = "child"
                BY <3>1, <3>3
            <4>6. Role(c) \notin Items /\ t[c].edge = EdgeTo(Role(c))
                BY <4>4, <4>5 DEF Placed
            <4>7. Role(c) \in Roles /\ Role(b) \in Roles /\ Role(c) # "system" /\ Role(b) # "system"
                BY <1>1, <4>3, RoleFacts
            <4>8. EdgeTo(Role(c)) = EdgeTo(Role(b)) /\ Role(c) # "contents"
                BY <3>1, <3>3, <4>5, <4>6, EdgeFacts
            <4>9. Role(c) \in Named /\ Role(b) \in Named
                BY <2>3, <4>6, <4>7, <4>8, EdgeFacts
            <4>10. PartAt(Role(a), i) = PartAt(Role(a), j)
                BY <1>1, <4>3, <4>8, <4>9, EdgeFacts
            <4>11. i = j
                BY <1>1, <4>9, <4>10, EdgeFacts
            <4> QED
                BY <1>1, <4>1, <4>11
        <3>4. there = {c \in Children(t, a) : t[c].edge = e}
            BY <3>1
        <3> QED
            BY <3>2, <3>3, <3>4
    <2> QED
        BY <2>1, <2>2, <2>3
<1>4. FollowEdge(t, a, e) = IF a = NoNode \/ there = {} THEN NoNode ELSE CHOOSE c \in there : TRUE
    BY DEF FollowEdge
<1> HIDE DEF there, a, e
<1> SUFFICES FollowEdge(t, a, e) = b
    BY DEF a, e
<1> QED
    BY <1>1, <1>3, <1>4

\* What an edge leads to is a node, if there is one.
LEMMA EdgeStays ==
    ASSUME NEW t, NEW a, NEW e \in Edges
    PROVE  FollowEdge(t, a, e) \in DOMAIN t \cup {NoNode}
<1> DEFINE there == CASE e.type = "child" -> {c \in Children(t, a) : t[c].edge = e}
                      [] e.type = "item" -> {Append(a, e.idx + 1)} \cap DOMAIN t
                      [] e.type = "cond" -> {Append(a, 1)} \cap DOMAIN t
<1>1. e.type \in {"child", "item", "cond"}
    BY DEF Edges
<1>2. Children(t, a) \subseteq DOMAIN t
    BY DEF Children
<1>3. there \subseteq DOMAIN t
    BY <1>1, <1>2
<1>4. FollowEdge(t, a, e) = IF a = NoNode \/ there = {} THEN NoNode ELSE CHOOSE c \in there : TRUE
    BY DEF FollowEdge
<1> HIDE DEF there
<1> QED
    BY <1>3, <1>4

\* The path to a node.
LEMMA WhereFacts ==
    ASSUME NEW t, Shape(t), NEW a \in DOMAIN t
    PROVE  /\ Len(a) \in Nat /\ DOMAIN Where(t, a) = 1..Len(a)
           /\ \A n \in 1..Len(a) : Where(t, a)[n] = t[Pre(a, n)].edge /\ Where(t, a)[n] \in Edges
<1>1. a \in Seq(Pos) /\ Len(a) \in Nat /\ DOMAIN a = 1..Len(a)
    BY DEF Shape, Rooted, Places
<1>2. Where(t, a) = [n \in 1..Len(a) |-> t[Pre(a, n)].edge]
    BY <1>1 DEF Where, Pre
<1>3. \A n \in 1..Len(a) : Pre(a, n) \in DOMAIN t
    BY <1>1, WayIsThere DEF Shape
<1>4. \A b \in DOMAIN t : t[b].edge \in Edges
    BY DEF Shape, Node
<1> QED
    BY <1>1, <1>2, <1>3, <1>4

\* Lookup finds a node again, unless there are items on the way that have moved.
LEMMA Found ==
    ASSUME NEW t, Shape(t), NEW a \in DOMAIN t, \A n \in 1..Len(a) : Exact(t, Pre(a, n))
    PROVE  Follow(t, Where(t, a)) = a
<1> DEFINE w == Where(t, a)
<1>1. a \in Seq(Pos) /\ Len(a) \in Nat
    BY DEF Shape, Rooted, Places
<1>2. DOMAIN w = 1..Len(a) /\ \A n \in 1..Len(a) : w[n] = t[Pre(a, n)].edge
    BY WhereFacts
<1> HIDE DEF w
<1>3. /\ Follow(t, w) = Followed(t, w, Len(a))
      /\ Followed(t, w, 0) = Root
      /\ \A m \in 1..Len(a) : Followed(t, w, m) = FollowEdge(t, Followed(t, w, m - 1), w[m])
    BY <1>1, <1>2, FollowUnfolds
<1> DEFINE P == {m \in Nat : Followed(t, w, m) = Pre(a, m)}
<1>4. 0 \in P
    BY <1>1, <1>3, PreFacts
<1>5. ASSUME NEW m \in 0..(Len(a) - 1), m \in P
      PROVE  m + 1 \in P
    <2>1. m + 1 \in 1..Len(a) /\ (m + 1) - 1 = m /\ m + 1 \in Nat /\ m + 1 \in 0..Len(a)
        BY <1>1
    <2>2. Followed(t, w, m + 1) = FollowEdge(t, Followed(t, w, m), w[m + 1])
        BY <1>3, <2>1
    <2>3. Followed(t, w, m) = Pre(a, m) /\ w[m + 1] = t[Pre(a, m + 1)].edge
        BY <1>2, <1>5, <2>1
    <2>4. Front(Pre(a, m + 1)) = Pre(a, m) /\ Pre(a, m + 1) # Root
        BY <1>1, <2>1, PreFacts
    <2>5. Pre(a, m + 1) \in DOMAIN t
        BY <2>1, WayIsThere DEF Shape
    <2>6. FollowEdge(t, Pre(a, m), t[Pre(a, m + 1)].edge) = Pre(a, m + 1)
        <3> DEFINE b == Pre(a, m + 1)
        <3>1. b \in DOMAIN t /\ b # Root /\ Exact(t, b)
            BY <2>1, <2>4, <2>5
        <3> HIDE DEF b
        <3>2. FollowEdge(t, Front(b), t[b].edge) = b
            BY <3>1, EdgeLeads
        <3> QED
            BY <3>2, <2>4 DEF b
    <2> QED
        BY <2>1, <2>2, <2>3, <2>6
<1> HIDE DEF P
<1>6. \A m \in 0..Len(a) : m \in P
    BY <1>1, <1>4, <1>5, CountingUp
<1>7. Followed(t, w, Len(a)) = Pre(a, Len(a))
    <2>1. Len(a) \in 0..Len(a)
        BY <1>1
    <2> QED
        BY <1>6, <2>1 DEF P
<1> QED
    BY <1>1, <1>3, <1>7, PreFacts DEF w

\* A lookup gives a node or nothing.
LEMMA LookupStays ==
    ASSUME NEW t, NEW path, NEW n \in Nat, DOMAIN path = 1..n, \A i \in 1..n : path[i] \in Edges,
           Root \in DOMAIN t
    PROVE  Follow(t, path) \in DOMAIN t \cup {NoNode}
<1>1. /\ Follow(t, path) = Followed(t, path, n)
      /\ Followed(t, path, 0) = Root
      /\ \A m \in 1..n : Followed(t, path, m) = FollowEdge(t, Followed(t, path, m - 1), path[m])
    BY FollowUnfolds
<1>2. CASE n = 0
    BY <1>1, <1>2
<1>3. CASE n # 0
    <2>1. n \in 1..n
        BY <1>3
    <2> QED
        BY <1>1, <2>1, EdgeStays
<1> QED
    BY <1>2, <1>3

-----------------------------------------------------------------------------
(* Nodes come: AddNodes and the instantiation of a node *)

\* v is t with m children more at a, which has n.
AddsAfter(t, a, n, m, nodes, v) ==
    /\ n \in Nat
    /\ DOMAIN v = DOMAIN t \cup {Append(a, n + i) : i \in 1..m}
    /\ v = [b \in DOMAIN v |-> v[b]]
    /\ Rooted(DOMAIN v)
    /\ \A b \in DOMAIN t : v[b] = t[b]
    /\ \A i \in 1..m : Append(a, n + i) \notin DOMAIN t /\ v[Append(a, n + i)] = nodes[i]

\* New children are put after those that there are.
LEMMA AddNodesIs ==
    ASSUME NEW t, Rooted(DOMAIN t), NEW a \in DOMAIN t, NEW m \in Nat, NEW nodes, DOMAIN nodes = 1..m,
           NEW n, n = ChildCount(t, a), \A i \in 1..m : PartAt(Role(a), n + i) # NoDefn
    PROVE  AddsAfter(t, a, n, m, nodes, AddNodes(t, a, nodes))
<1> DEFINE D == DOMAIN t
           new == {Append(a, n + i) : i \in 1..m}
           v == AddNodes(t, a, nodes)
<1>1. /\ n \in Nat
      /\ \A i \in Pos : Append(a, i) \in D <=> i <= n
      /\ a \in Places /\ a \in Seq(Pos) /\ D \subseteq Seq(Pos)
    BY KidsCounted DEF Rooted, Places
<1>2. v = [b \in D \cup new |-> IF b \in new THEN nodes[Last(b) - n] ELSE t[b]]
    BY DEF AddNodes
<1>3. ASSUME NEW i \in 1..m
      PROVE  n + i \in Pos /\ Append(a, n + i) \notin D /\ Append(a, n + i) \in Places /\ Append(a, n + i) # Root
             /\ Front(Append(a, n + i)) = a /\ Last(Append(a, n + i)) = n + i
    <2>1. n + i \in Pos /\ ~(n + i <= n)
        BY <1>1 DEF Pos
    <2>2. Append(a, n + i) \in Seq(Pos) /\ Role(Append(a, n + i)) = PartAt(Role(a), n + i)
        BY <1>1, <2>1, KidFacts, KidRole
    <2> QED
        BY <1>1, <2>1, <2>2, KidFacts DEF Places
<1>4. \A b \in D : b \notin new
    BY <1>3
<1>5. \A b \in D : v[b] = t[b]
    BY <1>2, <1>4
<1>6. ASSUME NEW i \in 1..m PROVE v[Append(a, n + i)] = nodes[i]
    <2>1. Append(a, n + i) \in new /\ Last(Append(a, n + i)) - n = i
        BY <1>1, <1>3
    <2> QED
        BY <1>2, <2>1
<1>7. DOMAIN v = D \cup new
    BY <1>2
<1>8. Rooted(D \cup new)
    <2>1. IsFiniteSet(D \cup new)
        <3> DEFINE f == [i \in 1..m |-> Append(a, n + i)]
        <3>1. IsFiniteSet(1..m)
            BY FS_Interval
        <3>2. IsFiniteSet({f[i] : i \in 1..m})
            BY <3>1, ImageIsFinite
        <3>3. new = {f[i] : i \in 1..m}
            OBVIOUS
        <3>4. IsFiniteSet(new)
            BY <3>2, <3>3
        <3> HIDE DEF new
        <3> QED
            BY <3>4, FS_Union DEF Rooted
    <2>2. D \cup new \subseteq Places /\ Root \in D
        BY <1>3 DEF Rooted
    <2>3. \A b \in (D \cup new) \ {Root} : Front(b) \in D
        BY <1>3 DEF Rooted
    <2>4. ASSUME NEW c \in D \cup new, NEW i \in Pos, i > 1, Append(c, i) \in D \cup new
          PROVE  Append(c, i - 1) \in D \cup new
        <3>0. c \in Seq(Pos) /\ i \in Nat /\ i - 1 \in Pos
            BY <2>2, <2>4 DEF Places, Pos
        <3>1. CASE Append(c, i) \in D
            <4>1. c \in D
                <5>1. Front(Append(c, i)) = c /\ Append(c, i) # Root
                    BY <3>0, KidFacts
                <5> QED
                    BY <2>3, <3>1, <5>1
            <4> QED
                BY <2>4, <3>1, <4>1 DEF Rooted
        <3>2. CASE Append(c, i) \in new
            <4>1. PICK k \in 1..m : Append(c, i) = Append(a, n + k)
                BY <3>2
            <4>2. c = a /\ i = n + k
                <5> DEFINE j == n + k
                <5>1. j \in Pos /\ Append(c, i) = Append(a, j)
                    BY <1>3, <4>1
                <5> HIDE DEF j
                <5>2. c = a /\ i = j
                    BY <1>1, <3>0, <5>1, KidsDiffer
                <5> QED
                    BY <5>2 DEF j
            <4>3. CASE k = 1
                <5>1. i - 1 <= n
                    BY <1>1, <4>2, <4>3
                <5> QED
                    BY <1>1, <3>0, <4>2, <5>1
            <4>4. CASE k # 1
                <5>1. k - 1 \in 1..m /\ i - 1 = n + (k - 1)
                    BY <1>1, <4>2, <4>4
                <5> QED
                    BY <4>2, <5>1
            <4> QED
                BY <4>3, <4>4
        <3> QED
            BY <2>4, <3>1, <3>2
    <2> QED
        BY <2>1, <2>2, <2>3, <2>4 DEF Rooted
<1>9. DOMAIN v = DOMAIN t \cup {Append(a, n + i) : i \in 1..m} /\ Rooted(DOMAIN v)
    BY <1>7, <1>8
<1>10. v = [b \in DOMAIN v |-> v[b]]
    BY <1>2
<1>11. \A i \in 1..m : Append(a, n + i) \notin DOMAIN t /\ v[Append(a, n + i)] = nodes[i]
    BY <1>3, <1>6
<1> QED
    <2> HIDE DEF v
    <2>1. AddsAfter(t, a, n, m, nodes, v)
        BY <1>1, <1>5, <1>9, <1>10, <1>11 DEF AddsAfter
    <2> QED
        BY <2>1 DEF v

\* A composite's children as they are added.
FreshKids(d) ==
    [i \in DOMAIN Defn[d].children |-> NewNode(ChildEdge(Defn[d].children[i].name), NoDefn)]

\* The tree with them, if there were none.
FirstKids(t, a, d) == IF ChildCount(t, a) = 0 THEN AddNodes(t, a, FreshKids(d)) ELSE t

\* local_inst_visitor, at a composite.
LEMMA WithChildrenComposite ==
    ASSUME NEW t, NEW a, NEW selected, NEW d, d = t[a].defn, Defn[d].kind = "composite",
           NEW u, u = FirstKids(t, a, d)
    PROVE  WithChildren(t, a, selected)
             = [b \in DOMAIN u |-> IF b \in Children(u, a)
                                   THEN [u[b] EXCEPT !.defn = Defn[d].children[Last(b)].defn]
                                   ELSE u[b]]
BY DEF WithChildren, FirstKids, FreshKids

\* local_inst_visitor, at a conditional.
LEMMA WithChildrenConditional ==
    ASSUME NEW t, NEW a, NEW selected, NEW d, d = t[a].defn, Defn[d].kind = "conditional",
           NEW u, u = IF ChildCount(t, a) = 0 THEN AddNodes(t, a, <<NewNode(CondEdge, NoDefn)>>) ELSE t
    PROVE  WithChildren(t, a, selected)
             = [b \in DOMAIN u |-> IF b \in Children(u, a) THEN [u[b] EXCEPT !.defn = Evaluate(d, selected)]
                                   ELSE u[b]]
BY DEF WithChildren

\* local_inst_visitor, at a list and at a leaf.
LEMMA WithChildrenOther ==
    ASSUME NEW t, NEW a, NEW selected, NEW d, d = t[a].defn
    PROVE  /\ Defn[d].kind = "list" =>
                WithChildren(t, a, selected)
                  = [b \in DOMAIN t |-> IF b \in Children(t, a) THEN [t[b] EXCEPT !.defn = Defn[d].entry]
                                        ELSE t[b]]
           /\ Defn[d].kind \in {"enum", "string"} => WithChildren(t, a, selected) = t
BY DEF WithChildren

\* The positions of the children that a node of definition d is given.
Fixed(d) ==
    CASE d \in {"system", "spec"} -> 1..2
      [] d \in {"contents", "instance", "whenTyped"} -> 1..1
      [] OTHER -> {}

\* The definition that its i-th child gets.
KidDefn(d, selected, i) == IF d = "whenTyped" /\ selected = {} THEN NoDefn ELSE PartAt(d, i)

\* A composite and what its definition says of it.
LEMMA CompositeFacts ==
    ASSUME NEW d \in Roles, Defn[d].kind = "composite"
    PROVE  /\ d \in {"system", "spec", "contents", "instance"}
           /\ Len(Defn[d].children) \in Nat /\ DOMAIN Defn[d].children = 1..Len(Defn[d].children)
           /\ Fixed(d) = 1..Len(Defn[d].children)
           /\ \A i \in Fixed(d) : /\ ChildEdge(Defn[d].children[i].name) = EdgeTo(PartAt(d, i))
                                  /\ Defn[d].children[i].defn = PartAt(d, i)
                                  /\ PartAt(d, i) # NoDefn
           /\ \A i \in Pos : PartAt(d, i) # NoDefn => i \in Fixed(d)
<1>1. d \in {"system", "spec", "contents", "instance"}
    BY DefnFacts DEF Roles
<1>2. CASE d = "system"
    <2>1. Defn[d].children = <<Child("specs", "specs"), Child("instances", "instances")>>
        BY <1>2, DefnChildren
    <2> QED
        BY <1>2, <2>1 DEF Fixed, PartAt, EdgeTo, Child, NoDefn
<1>3. CASE d = "spec"
    <2>1. Defn[d].children = <<Child("agent_type", "type"), Child("contents", "whenTyped")>>
        BY <1>3, DefnChildren
    <2> QED
        BY <1>3, <2>1 DEF Fixed, PartAt, EdgeTo, Child, NoDefn
<1>4. CASE d = "contents"
    <2>1. Defn[d].children = <<Child("name", "name")>>
        BY <1>4, DefnChildren
    <2> QED
        BY <1>4, <2>1 DEF Fixed, PartAt, EdgeTo, Child, NoDefn
<1>5. CASE d = "instance"
    <2>1. Defn[d].children = <<Child("spec_ref", "spec_ref")>>
        BY <1>5, DefnChildren
    <2> QED
        BY <1>5, <2>1 DEF Fixed, PartAt, EdgeTo, Child, NoDefn
<1> QED
    BY <1>1, <1>2, <1>3, <1>4, <1>5

\* What is below a node is below one of its children.
LEMMA BelowFacts ==
    ASSUME NEW a \in Seq(Pos), NEW b \in Seq(Pos), IsStrictPrefix(a, b)
    PROVE  /\ Len(a) \in Nat /\ Len(b) \in Nat /\ Len(a) + 1 \in 1..Len(b) /\ Len(a) \in 0..Len(b)
           /\ Pre(b, Len(a)) = a /\ Pre(b, Len(a) + 1) # Root /\ Front(Pre(b, Len(a) + 1)) = a
           /\ b # Root
<1>1. Len(a) \in Nat /\ Len(b) \in Nat /\ Len(a) <= Len(b) /\ SubSeq(a, 1, Len(a)) = SubSeq(b, 1, Len(a)) /\ a # b
    BY DEF IsStrictPrefix, IsPrefix
<1>2. Pre(b, Len(a)) = a
    BY <1>1, PreFacts DEF Pre
<1>3. Len(a) # Len(b)
    BY <1>1, <1>2, PreFacts
<1>4. Len(a) + 1 \in 1..Len(b) /\ (Len(a) + 1) - 1 = Len(a) /\ Len(a) \in 0..Len(b)
    BY <1>1, <1>3
<1>5. Pre(b, Len(a) + 1) # Root /\ Front(Pre(b, Len(a) + 1)) = a
    BY <1>2, <1>4, PreFacts
<1>6. b # Root
    <2>1. Len(Root) = 0
        BY DEF Root
    <2> QED
        BY <1>1, <1>4, <2>1
<1> QED
    BY <1>1, <1>2, <1>4, <1>5, <1>6

\* Where there is something below a node, the node has a child.
LEMMA BelowKid ==
    ASSUME NEW t, Rooted(DOMAIN t), NEW a \in DOMAIN t, NEW b \in Below(t, a)
    PROVE  \E c \in DOMAIN t \ {Root} : Front(c) = a
<1>1. b \in DOMAIN t /\ a \in Seq(Pos) /\ b \in Seq(Pos) /\ IsStrictPrefix(a, b)
    BY DEF Below, Rooted, Places
<1>2. /\ Len(b) \in Nat /\ Len(a) \in Nat /\ Len(a) + 1 \in 1..Len(b)
      /\ Pre(b, Len(a) + 1) # Root /\ Front(Pre(b, Len(a) + 1)) = a
    BY <1>1, BelowFacts
<1>3. Len(a) + 1 \in 0..Len(b)
    BY <1>2
<1>4. Pre(b, Len(a) + 1) \in DOMAIN t
    BY <1>1, <1>3, WayIsThere
<1> QED
    BY <1>2, <1>4

\* A node is maintained with all that is below it: its schema is that of its definition, or
\* it has nothing below it yet.
LEMMA AllMaintained ==
    ASSUME NEW t, Shape(t), NEW a \in DOMAIN t, t[a].defn # NoDefn
    PROVE  Maintained(t, a) = t /\ t[a].defn = Role(a)
<1>1. t[a].defn = Role(a) /\ t[a].schema.id \in {NoDefn, Role(a)}
    BY DEF Shape, InRole
<1>2. CASE t[a].schema.id = Role(a)
    BY <1>1, <1>2 DEF Maintained
<1>3. CASE t[a].schema.id # Role(a)
    <2>1. ASSUME NEW b \in Below(t, a) PROVE FALSE
        <3>1. PICK c \in DOMAIN t \ {Root} : Front(c) = a
            BY BelowKid DEF Shape
        <3>2. t[a].schema.id = Role(a)
            BY <3>1 DEF Shape, Placed
        <3> QED
            BY <1>3, <3>2
    <2>2. Below(t, a) = {}
        BY <2>1
    <2>3. ClearChildren(t, a) = [b \in DOMAIN t |-> t[b]]
        BY <2>2 DEF ClearChildren
    <2>4. t = [b \in DOMAIN t |-> t[b]]
        BY DEF Shape
    <2> QED
        BY <1>1, <2>3, <2>4 DEF Maintained
<1> QED
    BY <1>1, <1>2, <1>3

\* Children, by their addresses.
LEMMA ChildrenAre ==
    ASSUME NEW t, Rooted(DOMAIN t), NEW a \in DOMAIN t
    PROVE  /\ \A b \in DOMAIN t : b \in Children(t, a) <=> b # Root /\ Front(b) = a
           /\ Children(t, a) \subseteq DOMAIN t
<1>1. /\ ChildCount(t, a) \in Nat
      /\ Children(t, a) = {Append(a, i) : i \in 1..ChildCount(t, a)}
      /\ \A i \in Pos : Append(a, i) \in DOMAIN t <=> i <= ChildCount(t, a)
    BY KidsCounted
<1>2. a \in Seq(Pos)
    BY DEF Rooted, Places
<1>3. ASSUME NEW b \in Children(t, a) PROVE b # Root /\ Front(b) = a
    <2>1. PICK i \in 1..ChildCount(t, a) : b = Append(a, i)
        BY <1>1
    <2>2. i \in Pos
        BY <1>1 DEF Pos
    <2> QED
        BY <1>2, <2>1, <2>2, KidFacts
<1>4. ASSUME NEW b \in DOMAIN t, b # Root, Front(b) = a PROVE b \in Children(t, a)
    <2>1. Last(b) \in Pos /\ b = Append(a, Last(b))
        BY <1>4, PlaceParent DEF Rooted
    <2>2. Last(b) \in 1..ChildCount(t, a)
        <3>1. Last(b) <= ChildCount(t, a)
            BY <1>1, <1>4, <2>1
        <3>2. Last(b) \in Nat /\ Last(b) >= 1
            BY <2>1 DEF Pos
        <3> QED
            BY <1>1, <3>1, <3>2
    <2> QED
        BY <1>1, <2>1, <2>2
<1>5. Children(t, a) \subseteq DOMAIN t
    BY DEF Children
<1> QED
    BY <1>3, <1>4, <1>5

\* The fixed children are there, all of them, or are added.
Added(t, a, d, u) ==
    /\ DOMAIN u = DOMAIN t \cup {Append(a, i) : i \in Fixed(d)}
    /\ Rooted(DOMAIN u)
    /\ \A b \in DOMAIN t : u[b] = t[b]
    /\ \A i \in Fixed(d) : Append(a, i) \notin DOMAIN t =>
           u[Append(a, i)] = NewNode(EdgeTo(PartAt(d, i)), NoDefn)

AddsFirst(t, a, m, nodes, u) ==
    /\ DOMAIN u = DOMAIN t \cup {Append(a, i) : i \in 1..m}
    /\ Rooted(DOMAIN u)
    /\ \A b \in DOMAIN t : u[b] = t[b]
    /\ \A i \in 1..m : u[Append(a, i)] = nodes[i]

\* The first children of a node.
LEMMA FirstAdded ==
    ASSUME NEW t, Rooted(DOMAIN t), NEW a \in DOMAIN t, ChildCount(t, a) = 0,
           NEW m \in Nat, NEW nodes, DOMAIN nodes = 1..m,
           \A i \in 1..m : PartAt(Role(a), i) # NoDefn
    PROVE  AddsFirst(t, a, m, nodes, AddNodes(t, a, nodes))
<1>1. \A i \in 1..m : 0 + i = i
    OBVIOUS
<1>2. \A i \in 1..m : PartAt(Role(a), 0 + i) # NoDefn
    BY <1>1
<1>3. AddsAfter(t, a, 0, m, nodes, AddNodes(t, a, nodes))
    BY <1>2, AddNodesIs
<1> DEFINE u == AddNodes(t, a, nodes)
<1> HIDE DEF u
<1>4. AddsAfter(t, a, 0, m, nodes, u)
    BY <1>3 DEF u
<1>5. {Append(a, 0 + i) : i \in 1..m} = {Append(a, i) : i \in 1..m}
    BY <1>1
<1>6. \A i \in 1..m : u[Append(a, i)] = nodes[i]
    BY <1>1, <1>4 DEF AddsAfter
<1>7. AddsFirst(t, a, m, nodes, u)
    BY <1>4, <1>5, <1>6 DEF AddsFirst, AddsAfter
<1> QED
    BY <1>7 DEF u

\* A composite's children are there, after they have been added if there were none.
LEMMA AddedComposite ==
    ASSUME NEW t, Shape(t), NEW a \in DOMAIN t, NEW d \in Roles, d = Role(a), Defn[d].kind = "composite",
           NEW cs, cs = Defn[d].children,
           NEW fresh, fresh = [i \in DOMAIN cs |-> NewNode(ChildEdge(cs[i].name), NoDefn)],
           NEW u, u = IF ChildCount(t, a) = 0 THEN AddNodes(t, a, fresh) ELSE t
    PROVE  Added(t, a, d, u)
<1> DEFINE m == Len(cs)
<1>1. /\ m \in Nat /\ DOMAIN cs = 1..m /\ Fixed(d) = 1..m
      /\ \A i \in Fixed(d) : ChildEdge(cs[i].name) = EdgeTo(PartAt(d, i)) /\ PartAt(d, i) # NoDefn
      /\ d \in {"system", "spec", "contents", "instance"}
    BY CompositeFacts
<1> HIDE DEF m
<1>2. Rooted(DOMAIN t)
    BY DEF Shape
<1>3. CASE ChildCount(t, a) = 0
    <2>1. u = AddNodes(t, a, fresh) /\ DOMAIN fresh = 1..m
        BY <1>1, <1>3
    <2>2. \A i \in 1..m : PartAt(Role(a), i) # NoDefn
        BY <1>1
    <2>3. /\ DOMAIN u = DOMAIN t \cup {Append(a, i) : i \in 1..m}
          /\ Rooted(DOMAIN u)
          /\ \A b \in DOMAIN t : u[b] = t[b]
          /\ \A i \in 1..m : u[Append(a, i)] = fresh[i]
        <3>1. AddsFirst(t, a, m, fresh, AddNodes(t, a, fresh))
            <4> HIDE DEF m
            <4>1. DOMAIN fresh = 1..m
                BY <2>1
            <4> QED
                BY ONLY <1>1, <1>2, <1>3, <2>2, <4>1, a \in DOMAIN t, FirstAdded
        <3> QED
            BY <2>1, <3>1 DEF AddsFirst
    <2>4. \A i \in 1..m : fresh[i] = NewNode(EdgeTo(PartAt(d, i)), NoDefn)
        BY <1>1
    <2> QED
        BY <1>1, <2>3, <2>4 DEF Added
<1>4. CASE ChildCount(t, a) # 0
    <2>1. u = t
        BY <1>4
    <2>2. ChildCount(t, a) \in Nat /\ \A i \in Pos : Append(a, i) \in DOMAIN t <=> i <= ChildCount(t, a)
        BY <1>2, KidsCounted
    <2>3. Append(a, 1) \in DOMAIN t
        BY <1>4, <2>2 DEF Pos
    <2>4. d \in {"system", "spec"} => Append(a, 2) \in DOMAIN t
        BY <2>3 DEF Shape
    <2>5. \A i \in Fixed(d) : i = 1 \/ (i = 2 /\ d \in {"system", "spec"})
        BY <1>1 DEF Fixed
    <2>6. \A i \in Fixed(d) : Append(a, i) \in DOMAIN t
        BY <2>3, <2>4, <2>5
    <2> QED
        BY <1>2, <2>1, <2>6 DEF Added
<1> QED
    BY <1>3, <1>4

\* A conditional's child is there, after it has been added if there was none.
LEMMA AddedConditional ==
    ASSUME NEW t, Shape(t), NEW a \in DOMAIN t, Role(a) = "whenTyped",
           NEW fresh, fresh = <<NewNode(CondEdge, NoDefn)>>,
           NEW u, u = IF ChildCount(t, a) = 0 THEN AddNodes(t, a, fresh) ELSE t
    PROVE  Added(t, a, "whenTyped", u)
<1> DEFINE d == "whenTyped"
<1>1. /\ Fixed(d) = 1..1 /\ PartAt(d, 1) = "contents" /\ EdgeTo("contents") = CondEdge
      /\ "contents" # NoDefn /\ DOMAIN fresh = 1..1 /\ fresh[1] = NewNode(CondEdge, NoDefn)
    BY DEF Fixed, PartAt, EdgeTo, NoDefn
<1>2. Rooted(DOMAIN t)
    BY DEF Shape
<1>3. CASE ChildCount(t, a) = 0
    <2>1. u = AddNodes(t, a, fresh)
        BY <1>3
    <2>2. \A i \in 1..1 : PartAt(Role(a), i) # NoDefn /\ i = 1
        BY <1>1
    <2>3. /\ DOMAIN u = DOMAIN t \cup {Append(a, i) : i \in 1..1}
          /\ Rooted(DOMAIN u)
          /\ \A b \in DOMAIN t : u[b] = t[b]
          /\ \A i \in 1..1 : u[Append(a, i)] = fresh[i]
        <3> DEFINE m == 1
        <3>1. m \in Nat /\ DOMAIN fresh = 1..m /\ \A i \in 1..m : PartAt(Role(a), i) # NoDefn
            BY <1>1, <2>2
        <3> HIDE DEF m
        <3>2. AddsFirst(t, a, m, fresh, AddNodes(t, a, fresh))
            BY ONLY <1>2, <1>3, <3>1, a \in DOMAIN t, FirstAdded
        <3> QED
            BY <2>1, <3>2 DEF m, AddsFirst
    <2>4. \A i \in 1..1 : u[Append(a, i)] = NewNode(EdgeTo(PartAt(d, i)), NoDefn)
        BY <1>1, <2>2, <2>3
    <2> QED
        BY <1>1, <2>3, <2>4 DEF Added
<1>4. CASE ChildCount(t, a) # 0
    <2>1. u = t
        BY <1>4
    <2>2. ChildCount(t, a) \in Nat /\ \A i \in Pos : Append(a, i) \in DOMAIN t <=> i <= ChildCount(t, a)
        BY <1>2, KidsCounted
    <2>3. Append(a, 1) \in DOMAIN t
        BY <1>4, <2>2 DEF Pos
    <2>4. \A i \in Fixed(d) : i = 1
        BY <1>1
    <2>5. \A i \in Fixed(d) : Append(a, i) \in DOMAIN t
        BY <2>3, <2>4
    <2> QED
        BY <1>2, <2>1, <2>5 DEF Added
<1> QED
    BY <1>3, <1>4

\* The i-th child b of a node of definition d is x.
KidIs(t, b, d, selected, i, x) ==
    LET old == IF b \in DOMAIN t THEN t[b] ELSE NewNode(EdgeTo(PartAt(d, i)), NoDefn)
    IN x = [edge |-> old.edge, defn |-> KidDefn(d, selected, i),
            schema |-> old.schema, data |-> old.data]

\* A node's children, there and with their definitions.
HasKids(t, a, d, selected, w) ==
    /\ w = [b \in DOMAIN w |-> w[b]]
    /\ DOMAIN w = DOMAIN t \cup {Append(a, i) : i \in Fixed(d)}
    /\ Rooted(DOMAIN w)
    /\ \A b \in DOMAIN t : b = Root \/ Front(b) # a => w[b] = t[b]
    /\ \A i \in Pos : Append(a, i) \in DOMAIN w =>
           KidIs(t, Append(a, i), d, selected, i, w[Append(a, i)])

\* The children get their definitions, and nothing else changes.
LEMMA KidsDefined ==
    ASSUME NEW t, Shape(t), NEW a \in DOMAIN t, NEW d \in Roles, d = Role(a), NEW selected,
           NEW u, Added(t, a, d, u), NEW w, NEW f,
           w = [b \in DOMAIN u |-> IF b \in Children(u, a) THEN [u[b] EXCEPT !.defn = f[b]] ELSE u[b]],
           \A i \in Pos : Append(a, i) \in DOMAIN u => f[Append(a, i)] = KidDefn(d, selected, i)
    PROVE  HasKids(t, a, d, selected, w)
<1>1. a \in DOMAIN u /\ DOMAIN w = DOMAIN u /\ Rooted(DOMAIN u)
    BY DEF Added
<1>2. \A b \in DOMAIN u : b \in Children(u, a) <=> b # Root /\ Front(b) = a
    BY <1>1, ChildrenAre
<1>3. \A b \in DOMAIN t : b = Root \/ Front(b) # a => w[b] = t[b]
    BY <1>2 DEF Added
<1>4. ASSUME NEW i \in Pos, Append(a, i) \in DOMAIN w
      PROVE  KidIs(t, Append(a, i), d, selected, i, w[Append(a, i)])
    <2> DEFINE b == Append(a, i)
               old == IF b \in DOMAIN t THEN t[b] ELSE NewNode(EdgeTo(PartAt(d, i)), NoDefn)
    <2>0. b = Append(a, i) /\ b \in DOMAIN w
        BY <1>4
    <2>00. old = IF b \in DOMAIN t THEN t[b] ELSE NewNode(EdgeTo(PartAt(d, i)), NoDefn)
        OBVIOUS
    <2> HIDE DEF b, old
    <2>1. b # Root /\ Front(b) = a /\ a \in Seq(Pos)
        BY <1>1, <2>0, KidFacts DEF Rooted, Places
    <2>2. w[b] = [u[b] EXCEPT !.defn = KidDefn(d, selected, i)]
        BY <1>1, <1>2, <2>0, <2>1
    <2>3. u[b] = old
        <3>1. CASE b \in DOMAIN t
            BY <2>00, <3>1 DEF Added
        <3>2. CASE b \notin DOMAIN t
            <4>1. PICK j \in Fixed(d) : b = Append(a, j)
                BY <1>1, <2>0, <3>2 DEF Added
            <4>2. j \in Pos
                BY DEF Fixed, Pos
            <4>3. j = i
                <5>1. Append(a, i) = Append(a, j)
                    BY <2>0, <4>1
                <5> QED
                    BY <2>1, <4>2, <5>1, KidsDiffer
            <4> QED
                BY <2>0, <2>00, <3>2, <4>1, <4>3 DEF Added
        <3> QED
            BY <3>1, <3>2
    <2>4. old = [edge |-> old.edge, defn |-> old.defn, schema |-> old.schema, data |-> old.data]
        <3>1. CASE b \in DOMAIN t
            <4>1. t[b] \in Node
                BY <3>1 DEF Shape
            <4> QED
                BY <2>00, <3>1, <4>1 DEF Node
        <3>2. CASE b \notin DOMAIN t
            BY <2>00, <3>2 DEF NewNode
        <3> QED
            BY <3>1, <3>2
    <2>5. w[b] = [edge |-> old.edge, defn |-> KidDefn(d, selected, i), schema |-> old.schema, data |-> old.data]
        BY <2>2, <2>3, <2>4
    <2> QED
        BY <2>5 DEF KidIs, old, b
<1>5. w = [b \in DOMAIN w |-> w[b]]
    OBVIOUS
<1>7. DOMAIN w = DOMAIN t \cup {Append(a, i) : i \in Fixed(d)}
    BY <1>1 DEF Added
<1> QED
    BY <1>1, <1>3, <1>4, <1>5, <1>7 DEF HasKids

\* What instantiating a node does to its children.
LEMMA KidsInstantiated ==
    ASSUME NEW t, Shape(t), NEW a \in DOMAIN t, NEW d, d = t[a].defn, d # NoDefn, NEW selected
    PROVE  HasKids(t, a, d, selected, WithChildren(t, a, selected))
<1>1. d = Role(a) /\ d \in Roles /\ a \in Places /\ Rooted(DOMAIN t) /\ DOMAIN t \subseteq Places /\ a \in Seq(Pos)
    <2>1. d = Role(a) /\ Rooted(DOMAIN t) /\ a \in Places
        BY DEF Shape, InRole, Rooted
    <2> QED
        BY <2>1, RoleFacts DEF Rooted, Places
<1> DEFINE w == WithChildren(t, a, selected)
<1>2. CASE Defn[d].kind = "composite"
    <2> DEFINE cs == Defn[d].children
               fresh == FreshKids(d)
               u == FirstKids(t, a, d)
               f == [b \in DOMAIN u |-> cs[Last(b)].defn]
    <2>1. /\ cs = Defn[d].children
          /\ fresh = [i \in DOMAIN cs |-> NewNode(ChildEdge(cs[i].name), NoDefn)]
          /\ u = IF ChildCount(t, a) = 0 THEN AddNodes(t, a, fresh) ELSE t
        BY DEF FreshKids, FirstKids
    <2>2. f = [b \in DOMAIN u |-> cs[Last(b)].defn]
        OBVIOUS
    <2>4. w = [b \in DOMAIN u |-> IF b \in Children(u, a) THEN [u[b] EXCEPT !.defn = cs[Last(b)].defn]
                                  ELSE u[b]]
        <3> HIDE DEF u
        <3>1. u = FirstKids(t, a, d)
            BY DEF u
        <3> QED
            BY <1>2, <3>1, WithChildrenComposite
    <2> HIDE DEF cs, fresh, u, f, w
    <2>3. Added(t, a, d, u)
        BY <1>1, <1>2, <2>1, AddedComposite
    <2>5. w = [b \in DOMAIN u |-> IF b \in Children(u, a) THEN [u[b] EXCEPT !.defn = f[b]] ELSE u[b]]
        BY <2>2, <2>4
    <2>6. ASSUME NEW i \in Pos, Append(a, i) \in DOMAIN u
          PROVE  f[Append(a, i)] = KidDefn(d, selected, i)
        <3>1. Last(Append(a, i)) = i /\ Role(Append(a, i)) = PartAt(d, i)
            BY <1>1, KidFacts, KidRole
        <3>2. PartAt(d, i) # NoDefn
            BY <2>3, <2>6, <3>1 DEF Added, Rooted, Places
        <3>3. cs[i].defn = PartAt(d, i) /\ d # "whenTyped"
            BY <1>1, <1>2, <2>1, <3>2, CompositeFacts
        <3> QED
            BY <2>2, <2>6, <3>1, <3>3 DEF KidDefn
    <2> HIDE DEF w
    <2>7. HasKids(t, a, d, selected, w)
        BY <1>1, <2>3, <2>5, <2>6, KidsDefined
    <2> QED
        BY <2>7 DEF w
<1>3. CASE Defn[d].kind = "conditional"
    <2> DEFINE fresh == <<NewNode(CondEdge, NoDefn)>>
               u == IF ChildCount(t, a) = 0 THEN AddNodes(t, a, fresh) ELSE t
               f == [b \in DOMAIN u |-> Evaluate(d, selected)]
    <2>1. fresh = <<NewNode(CondEdge, NoDefn)>> /\ u = IF ChildCount(t, a) = 0 THEN AddNodes(t, a, fresh) ELSE t
        OBVIOUS
    <2>2. f = [b \in DOMAIN u |-> Evaluate(d, selected)]
        OBVIOUS
    <2>3. w = [b \in DOMAIN u |-> IF b \in Children(u, a) THEN [u[b] EXCEPT !.defn = Evaluate(d, selected)]
                                  ELSE u[b]]
        BY <1>3, WithChildrenConditional
    <2> HIDE DEF fresh, u, f, w
    <2>4. d = "whenTyped"
        BY <1>1, <1>3, DefnFacts DEF Roles
    <2>5. Added(t, a, d, u)
        BY <1>1, <2>1, <2>4, AddedConditional
    <2>6. w = [b \in DOMAIN u |-> IF b \in Children(u, a) THEN [u[b] EXCEPT !.defn = f[b]] ELSE u[b]]
        BY <2>2, <2>3
    <2>7. ASSUME NEW i \in Pos, Append(a, i) \in DOMAIN u
          PROVE  f[Append(a, i)] = KidDefn(d, selected, i)
        <3>1. Role(Append(a, i)) = PartAt(d, i)
            BY <1>1, KidRole
        <3>2. PartAt(d, i) # NoDefn
            BY <2>5, <2>7, <3>1 DEF Added, Rooted, Places
        <3>3. PartAt(d, i) = "contents"
            BY <2>4, <3>2 DEF PartAt
        <3> QED
            BY <2>2, <2>4, <2>7, <3>3, DefnChildren DEF KidDefn, Evaluate
    <2>8. HasKids(t, a, d, selected, w)
        BY <1>1, <2>5, <2>6, <2>7, KidsDefined
    <2> QED
        BY <2>8 DEF w
<1>4. CASE Defn[d].kind = "list"
    <2> DEFINE f == [b \in DOMAIN t |-> Defn[d].entry]
    <2>1. d \in {"specs", "instances"} /\ Fixed(d) = {}
        BY <1>1, <1>4, DefnFacts DEF Roles, Fixed
    <2>2. w = [b \in DOMAIN t |-> IF b \in Children(t, a) THEN [t[b] EXCEPT !.defn = f[b]] ELSE t[b]]
        BY <1>4, WithChildrenOther
    <2>3. \A i \in Pos : KidDefn(d, selected, i) = Defn[d].entry
        BY <2>1, DefnChildren DEF KidDefn, PartAt
    <2>4. \A i \in Pos : Append(a, i) \in DOMAIN t => f[Append(a, i)] = KidDefn(d, selected, i)
        BY <2>3
    <2>5. Added(t, a, d, t)
        BY <1>1, <2>1 DEF Added
    <2> HIDE DEF f, w
    <2>6. HasKids(t, a, d, selected, w)
        BY <1>1, <2>2, <2>4, <2>5, KidsDefined
    <2> QED
        BY <2>6 DEF w
<1>5. CASE Defn[d].kind \in {"enum", "string"}
    <2>1. d \in {"type", "name", "spec_ref"} /\ Fixed(d) = {} /\ \A i \in Pos : PartAt(d, i) = NoDefn
        BY <1>1, <1>5, DefnFacts DEF Roles, Fixed, PartAt
    <2>2. w = t
        BY <1>5, WithChildrenOther
    <2>3. \A i \in Pos : Append(a, i) \notin DOMAIN t
        BY <1>1, <2>1, KidRole DEF Places
    <2>4. t = [b \in DOMAIN t |-> t[b]]
        BY DEF Shape
    <2> HIDE DEF w
    <2>5. HasKids(t, a, d, selected, t)
        BY <1>1, <2>1, <2>3, <2>4 DEF HasKids
    <2> QED
        BY <2>2, <2>5 DEF w
<1> QED
    BY <1>1, <1>2, <1>3, <1>4, <1>5, DefnFacts DEF Roles

\* What instantiating a node that has a definition makes of the tree.
SchemaOf(d, selected) == [id |-> d, options |-> Options(d, selected)]

Grows(t, a, d, selected, v) ==
    /\ v = [b \in DOMAIN v |-> v[b]]
    /\ DOMAIN v = DOMAIN t \cup {Append(a, i) : i \in Fixed(d)}
    /\ Rooted(DOMAIN v)
    /\ \A b \in DOMAIN t \ {a} : b = Root \/ Front(b) # a => v[b] = t[b]
    /\ \A i \in Pos : Append(a, i) \in DOMAIN v =>
           KidIs(t, Append(a, i), d, selected, i, v[Append(a, i)])
    /\ v[a] = [edge |-> t[a].edge, defn |-> d, schema |-> SchemaOf(d, selected),
               data |-> Adjusted(t[a].data, SchemaOf(d, selected))]

\* A record with other contents in two of its fields.
LEMMA NodeChanged ==
    ASSUME NEW r, NEW e, NEW d, NEW s, NEW z, r = [edge |-> e, defn |-> d, schema |-> s, data |-> z],
           NEW S, NEW y
    PROVE  [r EXCEPT !.schema = S, !.data = y] = [edge |-> e, defn |-> d, schema |-> S, data |-> y]
<1> DEFINE q == [r EXCEPT !.schema = S, !.data = y]
<1>1. q["schema"] = S /\ q["data"] = y
    OBVIOUS
<1>2. q["edge"] = e
    OBVIOUS
<1>3. q["defn"] = d
    OBVIOUS
<1>4. q = [x \in DOMAIN q |-> q[x]]
    OBVIOUS
<1>5. DOMAIN q = {"edge", "defn", "schema", "data"}
    OBVIOUS
<1> HIDE DEF q
<1>6. q = [edge |-> e, defn |-> d, schema |-> S, data |-> y]
    BY <1>1, <1>2, <1>3, <1>4, <1>5
<1> QED
    BY <1>6 DEF q

\* instantiate_locally and adjust_to_schema: the children are there and the node has its schema.
LEMMA InstantiatedGrows ==
    ASSUME NEW t, Shape(t), NEW a \in DOMAIN t, NEW d, d = t[a].defn, d # NoDefn, NEW selected
    PROVE  Grows(t, a, d, selected, Instantiated(t, a, selected))
<1> DEFINE w == WithChildren(t, a, selected)
           S == SchemaOf(d, selected)
           x == [w[a] EXCEPT !.schema = S, !.data = Adjusted(w[a].data, S)]
           v == [w EXCEPT ![a].schema = S, ![a].data = Adjusted(@, S)]
<1>1. Instantiated(t, a, selected) = v
    <2>1. Maintained(t, a) = t
        BY AllMaintained
    <2> QED
        BY <2>1 DEF Instantiated, SchemaOf
<1>2. HasKids(t, a, d, selected, w)
    BY KidsInstantiated
<1>3. /\ v = [w EXCEPT ![a].schema = S, ![a].data = Adjusted(@, S)]
      /\ x = [w[a] EXCEPT !.schema = S, !.data = Adjusted(w[a].data, S)] /\ S = SchemaOf(d, selected)
    OBVIOUS
<1> HIDE DEF w, S, x, v
<1>4. a \in DOMAIN w /\ w = [b \in DOMAIN w |-> w[b]] /\ a \in Seq(Pos)
    BY <1>2 DEF HasKids, Rooted, Places
<1>5. /\ DOMAIN v = DOMAIN w /\ v = [b \in DOMAIN v |-> v[b]] /\ v[a] = x
      /\ \A b \in DOMAIN w \ {a} : v[b] = w[b]
    BY <1>3, <1>4
<1>6. a = Root \/ Front(a) # a
    BY <1>4, Parent
<1>7. w[a] = t[a]
    BY <1>2, <1>6 DEF HasKids
<1>8. t[a] = [edge |-> t[a].edge, defn |-> d, schema |-> t[a].schema, data |-> t[a].data]
    BY DEF Shape, Node
<1>9. v[a] = [edge |-> t[a].edge, defn |-> d, schema |-> S, data |-> Adjusted(t[a].data, S)]
    <2>2. x = [t[a] EXCEPT !.schema = S, !.data = Adjusted(t[a].data, S)]
        BY <1>3, <1>7
    <2>3. x = [edge |-> t[a].edge, defn |-> d, schema |-> S, data |-> Adjusted(t[a].data, S)]
        BY <1>8, <2>2, NodeChanged
    <2> QED
        BY <1>5, <2>3
<1>10. ASSUME NEW i \in Pos, Append(a, i) \in DOMAIN v
       PROVE  KidIs(t, Append(a, i), d, selected, i, v[Append(a, i)])
    <2>1. Append(a, i) # a
        BY <1>4, KidFacts
    <2>2. v[Append(a, i)] = w[Append(a, i)]
        BY <1>5, <1>10, <2>1
    <2> QED
        BY <1>2, <1>5, <1>10, <2>2 DEF HasKids
<1>11. \A b \in DOMAIN t \ {a} : b = Root \/ Front(b) # a => v[b] = t[b]
    BY <1>2, <1>5 DEF HasKids
<1>12. DOMAIN v = DOMAIN t \cup {Append(a, i) : i \in Fixed(d)} /\ Rooted(DOMAIN v)
    BY <1>2, <1>5 DEF HasKids
<1>13. Grows(t, a, d, selected, v)
    BY <1>3, <1>5, <1>9, <1>10, <1>11, <1>12 DEF Grows
<1> QED
    BY <1>1, <1>13

\* A node as it is before, if it is there, or else as it will be added.
Kid(a, b) == b # Root /\ Front(b) = a
Old(t, b) == IF b \in DOMAIN t THEN t[b] ELSE NewNode(EdgeTo(Role(b)), NoDefn)

\* The same, of each node.
GrownAs(t, a, d, selected, v) ==
    /\ d = t[a].defn /\ d = Role(a) /\ d \in Roles /\ Rooted(DOMAIN v) /\ v = [b \in DOMAIN v |-> v[b]]
    /\ DOMAIN t \subseteq DOMAIN v /\ a \in DOMAIN t /\ ~Kid(a, a)
    /\ \A b \in DOMAIN v : b \in DOMAIN t \/ (Kid(a, b) /\ Last(b) \in Fixed(d))
    /\ \A i \in Fixed(d) : Append(a, i) \in DOMAIN v
    /\ \A b \in DOMAIN v : ~Kid(a, b) /\ b # a => v[b] = t[b]
    /\ \A b \in DOMAIN v : Kid(a, b) =>
           v[b] = [edge |-> Old(t, b).edge, defn |-> IF d = "whenTyped" /\ selected = {} THEN NoDefn ELSE Role(b),
                   schema |-> Old(t, b).schema, data |-> Old(t, b).data]
    /\ v[a] = [edge |-> t[a].edge, defn |-> d, schema |-> SchemaOf(d, selected),
               data |-> Adjusted(t[a].data, SchemaOf(d, selected))]

\* What an instantiation makes, told of each node of the tree.
LEMMA GrownFrom ==
    ASSUME NEW t, Shape(t), NEW a \in DOMAIN t, NEW d, d = t[a].defn, d # NoDefn, NEW selected,
           NEW v, Grows(t, a, d, selected, v)
    PROVE  GrownAs(t, a, d, selected, v)
<1>1. d = Role(a) /\ d \in Roles /\ a \in Places /\ a \in Seq(Pos)
    <2>1. d = Role(a) /\ a \in Places
        BY DEF Shape, InRole, Rooted
    <2> QED
        BY <2>1, RoleFacts DEF Rooted, Places
<1>2. /\ Rooted(DOMAIN v) /\ v = [b \in DOMAIN v |-> v[b]]
      /\ DOMAIN v = DOMAIN t \cup {Append(a, i) : i \in Fixed(d)}
      /\ \A i \in Fixed(d) : i \in Pos
    BY DEF Grows, Fixed, Pos
<1>3. ~Kid(a, a)
    <2>1. a # Root => Len(Front(a)) = Len(a) - 1 /\ Len(a) \in Pos
        BY <1>1, Parent
    <2> QED
        BY <2>1 DEF Kid, Pos
<1>4. \A b \in DOMAIN v : b \in DOMAIN t \/ (Kid(a, b) /\ Last(b) \in Fixed(d))
    <2>1. ASSUME NEW i \in Fixed(d) PROVE Kid(a, Append(a, i)) /\ Last(Append(a, i)) = i
        BY <1>1, <1>2, KidFacts DEF Kid
    <2> QED
        BY <1>2, <2>1
<1>5. \A b \in DOMAIN v : ~Kid(a, b) /\ b # a => v[b] = t[b]
    BY <1>4 DEF Grows, Kid
<1>6. ASSUME NEW b \in DOMAIN v, Kid(a, b)
      PROVE  v[b] = [edge |-> Old(t, b).edge, defn |-> IF d = "whenTyped" /\ selected = {} THEN NoDefn ELSE Role(b),
                     schema |-> Old(t, b).schema, data |-> Old(t, b).data]
    <2>1. Last(b) \in Pos /\ b = Append(a, Last(b)) /\ Role(b) = PartAt(d, Last(b))
        BY <1>1, <1>2, <1>6, PlaceParent DEF Rooted, Kid
    <2>2. KidIs(t, b, d, selected, Last(b), v[b])
        BY <1>6, <2>1 DEF Grows
    <2> QED
        BY <2>1, <2>2 DEF KidIs, Old, KidDefn
<1> QED
    BY <1>1, <1>2, <1>3, <1>4, <1>5, <1>6 DEF GrownAs, Grows

\* Values that nodes have.
LEMMA AdjustedFacts ==
    ASSUME NEW d \in Roles, NEW selected, NEW x
    PROVE  LET S == SchemaOf(d, selected) IN
           /\ S.id = d /\ S.options = Options(d, selected)
           /\ d = "whenTyped" => Adjusted(x, S) = NoValue
           /\ d # "whenTyped" /\ ~IsLeaf(d) => Adjusted(x, S) = Default(d)
           /\ IsLeaf(d) => \/ Adjusted(x, S) = x /\ x.type = Defn[d].kind /\ FitsSchema(x, S)
                           \/ Adjusted(x, S) = Default(d)
           /\ IsLeaf(d) /\ x.type = Defn[d].kind /\ FitsSchema(x, S) => Adjusted(x, S) = x
<1>1. d = "whenTyped" <=> Defn[d].kind = "conditional"
    BY DefnFacts DEF Roles
<1>2. SchemaOf(d, selected).id = d /\ SchemaOf(d, selected).options = Options(d, selected)
    BY DEF SchemaOf
<1>3. IsLeaf(d) => d # "whenTyped"
    BY <1>1 DEF IsLeaf
<1> QED
    BY <1>1, <1>2, <1>3 DEF Adjusted

\* The kinds of the definitions, and which are leaves.
LEMMA KindFacts ==
    /\ \A d \in Roles : Defn[d].kind \in Kinds
    /\ \A d \in Roles : IsLeaf(d) <=> d \in {"type", "spec_ref", "name"}
    /\ \A d \in Roles : Defn[d].kind = "list" <=> d \in {"specs", "instances"}
    /\ \A d \in Roles : Default(d) = [type |-> Defn[d].kind, strings |-> {}]
    /\ NoValue = [type |-> "none", strings |-> {}]
BY DefnFacts DEF Roles, IsLeaf, Kinds, Default, Value, NoValue

\* Nodes that are added are as they must be.
LEMMA AddedIsNode ==
    ASSUME NEW b \in Places, Role(b) \in Named \cup {"contents"}
    PROVE  /\ NewNode(EdgeTo(Role(b)), NoDefn).edge = EdgeTo(Role(b))
           /\ NewNode(EdgeTo(Role(b)), NoDefn).defn = NoDefn
           /\ NewNode(EdgeTo(Role(b)), NoDefn).schema = NoSchema
           /\ NewNode(EdgeTo(Role(b)), NoDefn).data = NoValue
           /\ EdgeTo(Role(b)) \in Edges
           /\ NoSchema \in [id : Roles \cup {NoDefn}, options : SUBSET Text]
           /\ NoValue \in [type : Kinds \cup {"none"}, strings : SUBSET Text]
           /\ NoSchema.id = NoDefn
           /\ NoValue.type = "none"
<1>1. EdgeTo(Role(b)) \in Edges
    <2>1. Role(b) \in {"specs", "instances", "type", "whenTyped", "name", "spec_ref", "contents"}
        BY DEF Named
    <2>2. \A x \in EdgeNames : ChildEdge(x) \in Edges
        BY DEF Edges, ChildEdge
    <2>3. CondEdge \in Edges
        BY DEF Edges, CondEdge, EdgeNames
    <2>4. ASSUME NEW d \in {"specs", "instances", "type", "whenTyped", "name", "spec_ref", "contents"}
          PROVE  EdgeTo(d) = CondEdge \/ \E x \in EdgeNames : EdgeTo(d) = ChildEdge(x)
        BY DEF EdgeTo, EdgeNames
    <2> QED
        BY <2>1, <2>2, <2>3, <2>4
<1>2. /\ NoSchema \in [id : Roles \cup {NoDefn}, options : SUBSET Text]
      /\ NoValue \in [type : Kinds \cup {"none"}, strings : SUBSET Text]
      /\ NoSchema.id = NoDefn /\ NoValue.type = "none"
    BY DEF NoSchema, NoValue, Value
<1> QED
    BY <1>1, <1>2 DEF NewNode

\* Instantiated, a node is as it must be.
LEMMA GrownNode ==
    ASSUME NEW t, Shape(t), NEW a \in DOMAIN t, NEW selected \in SUBSET Text, NEW d \in Roles
    PROVE  /\ SchemaOf(d, selected) \in [id : Roles \cup {NoDefn}, options : SUBSET Text]
           /\ Adjusted(t[a].data, SchemaOf(d, selected)) \in [type : Kinds \cup {"none"}, strings : SUBSET Text]
           /\ Adjusted(t[a].data, SchemaOf(d, selected)).type = "list" => d \in {"specs", "instances"}
<1> DEFINE S == SchemaOf(d, selected)
           y == Adjusted(t[a].data, S)
<1>1. S \in [id : Roles \cup {NoDefn}, options : SUBSET Text]
    <2>1. Options(d, selected) \subseteq Text
        BY DEF Options, Text
    <2> QED
        BY <2>1 DEF SchemaOf
<1>2. t[a].data \in [type : Kinds \cup {"none"}, strings : SUBSET Text]
    BY DEF Shape, Node
<1>3. y = NoValue \/ y = Default(d) \/ (y = t[a].data /\ y.type = Defn[d].kind)
    BY AdjustedFacts DEF IsLeaf
<1>4. NoValue \in [type : Kinds \cup {"none"}, strings : SUBSET Text] /\ NoValue.type = "none"
    BY DEF NoValue, Value
<1>5. Default(d) \in [type : Kinds \cup {"none"}, strings : SUBSET Text] /\ Default(d).type = Defn[d].kind
    BY KindFacts
<1>6. Defn[d].kind = "list" => d \in {"specs", "instances"}
    BY KindFacts
<1> HIDE DEF y, S
<1>7. y \in [type : Kinds \cup {"none"}, strings : SUBSET Text]
    BY <1>2, <1>3, <1>4, <1>5
<1>8. y.type = "list" => d \in {"specs", "instances"}
    BY <1>3, <1>4, <1>5, <1>6
<1> QED
    BY <1>1, <1>7, <1>8 DEF y, S

\* What of a node stays when one is instantiated.
Stays(t, a, d, selected, v) ==
    /\ \A b \in DOMAIN t : v[b].edge = t[b].edge
    /\ \A b \in DOMAIN t \ {a} : v[b].schema = t[b].schema /\ v[b].data = t[b].data
    /\ \A b \in DOMAIN t : ~Kid(a, b) => v[b].defn = t[b].defn
    /\ \A b \in DOMAIN v \ DOMAIN t :
           /\ Kid(a, b) /\ b # a /\ Role(b) \in Named \cup {"contents"}
           /\ v[b].edge = EdgeTo(Role(b)) /\ v[b].schema = NoSchema /\ v[b].data = NoValue
    /\ \A b \in DOMAIN v : Kid(a, b) => v[b].defn = IF d = "whenTyped" /\ selected = {} THEN NoDefn ELSE Role(b)

\* What an instantiation leaves alone.
LEMMA GrownStays ==
    ASSUME NEW t, Shape(t), NEW a, NEW d, NEW selected, NEW v, GrownAs(t, a, d, selected, v)
    PROVE  Stays(t, a, d, selected, v)
<1>1. ASSUME NEW b \in DOMAIN t
      PROVE  /\ v[b].edge = t[b].edge
             /\ b # a => v[b].schema = t[b].schema /\ v[b].data = t[b].data
             /\ ~Kid(a, b) => v[b].defn = t[b].defn
    <2>1. b \in DOMAIN v
        BY DEF GrownAs
    <2>2. CASE Kid(a, b)
        BY <2>1, <2>2 DEF GrownAs, Old
    <2>3. CASE b = a
        <3>1. ~Kid(a, b)
            BY <2>3 DEF GrownAs
        <3>2. v[a].edge = t[a].edge /\ v[a].defn = t[a].defn
            BY DEF GrownAs
        <3> QED
            BY <2>3, <3>1, <3>2
    <2>4. CASE ~Kid(a, b) /\ b # a
        BY <2>1, <2>4 DEF GrownAs
    <2> QED
        BY <2>2, <2>3, <2>4
<1>2. ASSUME NEW b \in DOMAIN v \ DOMAIN t
      PROVE  /\ Kid(a, b) /\ b # a /\ Role(b) \in Named \cup {"contents"}
             /\ v[b].edge = EdgeTo(Role(b)) /\ v[b].schema = NoSchema /\ v[b].data = NoValue
    <2>1. Kid(a, b) /\ Last(b) \in Fixed(d) /\ b # a /\ b \in Places /\ d = Role(a)
        BY DEF GrownAs, Rooted
    <2>2. Role(b) = PartAt(d, Last(b))
        BY <2>1, PlaceParent DEF Kid
    <2>3. Role(b) \in Named \cup {"contents"}
        BY <2>1, <2>2 DEF Fixed, PartAt, Named
    <2>4. v[b].edge = Old(t, b).edge /\ v[b].schema = Old(t, b).schema /\ v[b].data = Old(t, b).data
        BY <2>1 DEF GrownAs
    <2>5. Old(t, b) = NewNode(EdgeTo(Role(b)), NoDefn)
        BY DEF Old
    <2> QED
        BY <2>1, <2>3, <2>4, <2>5, AddedIsNode
<1>3. \A b \in DOMAIN v : Kid(a, b) => v[b].defn = IF d = "whenTyped" /\ selected = {} THEN NoDefn ELSE Role(b)
    BY DEF GrownAs
<1> QED
    BY <1>1, <1>2, <1>3 DEF Stays

\* An instantiation keeps the shape of the tree.
LEMMA ShapeGrown ==
    ASSUME NEW t, Shape(t), NEW a, NEW d, NEW selected \in SUBSET Text,
           NEW v, GrownAs(t, a, d, selected, v)
    PROVE  Shape(v)
<1>1. /\ d = Role(a) /\ d \in Roles /\ Rooted(DOMAIN v) /\ v = [b \in DOMAIN v |-> v[b]]
      /\ DOMAIN t \subseteq DOMAIN v /\ a \in DOMAIN t /\ a \in DOMAIN v
    BY DEF GrownAs
<1>2. /\ \A b \in DOMAIN t : v[b].edge = t[b].edge
      /\ \A b \in DOMAIN t \ {a} : v[b].schema = t[b].schema /\ v[b].data = t[b].data
      /\ \A b \in DOMAIN t : ~Kid(a, b) => v[b].defn = t[b].defn
    BY GrownStays DEF Stays
<1>3. \A b \in DOMAIN v \ DOMAIN t :
          /\ Kid(a, b) /\ b # a /\ Role(b) \in Named \cup {"contents"}
          /\ v[b].edge = EdgeTo(Role(b)) /\ v[b].schema = NoSchema /\ v[b].data = NoValue
    BY GrownStays DEF Stays
<1>4. \A b \in DOMAIN v : Kid(a, b) => v[b].defn = IF d = "whenTyped" /\ selected = {} THEN NoDefn ELSE Role(b)
    BY GrownStays DEF Stays
<1>5. /\ v[a].schema = SchemaOf(d, selected) /\ v[a].data = Adjusted(t[a].data, SchemaOf(d, selected))
      /\ v[a].defn = d /\ SchemaOf(d, selected).id = d
    BY DEF GrownAs, SchemaOf
<1>6. ASSUME NEW b \in DOMAIN v PROVE b \in Places /\ Role(b) \in Roles /\ Role(b) # NoDefn
    BY <1>1, RoleFacts DEF Rooted
<1>7. ASSUME NEW b \in DOMAIN v
      PROVE  /\ v[b] = [edge |-> v[b].edge, defn |-> v[b].defn, schema |-> v[b].schema, data |-> v[b].data]
             /\ v[b].edge \in Edges
             /\ v[b].schema \in [id : Roles \cup {NoDefn}, options : SUBSET Text]
             /\ v[b].data \in [type : Kinds \cup {"none"}, strings : SUBSET Text]
             /\ InRole(v, b)
    <2>1. CASE b \in DOMAIN t
        <3>1. t[b] \in Node /\ InRole(t, b)
            BY <2>1 DEF Shape
        <3>2. /\ t[b] = [edge |-> t[b].edge, defn |-> t[b].defn, schema |-> t[b].schema, data |-> t[b].data]
              /\ t[b].edge \in Edges
              /\ t[b].schema \in [id : Roles \cup {NoDefn}, options : SUBSET Text]
              /\ t[b].data \in [type : Kinds \cup {"none"}, strings : SUBSET Text]
            BY <3>1 DEF Node
        <3>3. v[b] = [edge |-> v[b].edge, defn |-> v[b].defn, schema |-> v[b].schema, data |-> v[b].data]
            <4>1. CASE Kid(a, b)
                BY <4>1 DEF GrownAs
            <4>2. CASE b = a
                BY <4>2 DEF GrownAs
            <4>3. CASE ~Kid(a, b) /\ b # a
                BY <3>2, <4>3 DEF GrownAs
            <4> QED
                BY <4>1, <4>2, <4>3
        <3>4. CASE b = a
            <4>1. /\ v[a].schema \in [id : Roles \cup {NoDefn}, options : SUBSET Text]
                  /\ v[a].data \in [type : Kinds \cup {"none"}, strings : SUBSET Text]
                  /\ v[a].data.type = "list" => d \in {"specs", "instances"}
                BY <1>1, <1>5, GrownNode
            <4>2. InRole(v, a)
                BY <1>1, <1>5, <4>1 DEF InRole
            <4>3. v[b].edge \in Edges
                BY <1>2, <2>1, <3>2
            <4> QED
                BY <3>3, <3>4, <4>1, <4>2, <4>3
        <3>5. CASE b # a
            <4>1. v[b].schema = t[b].schema /\ v[b].data = t[b].data /\ v[b].edge = t[b].edge
                BY <1>2, <2>1, <3>5
            <4>2. v[b].defn \in {NoDefn, Role(b)}
                BY <1>2, <1>4, <2>1, <3>1 DEF InRole
            <4>3. InRole(v, b)
                BY <3>1, <4>1, <4>2 DEF InRole
            <4> QED
                BY <3>2, <3>3, <4>1, <4>3
        <3> QED
            BY <3>4, <3>5
    <2>2. CASE b \notin DOMAIN t
        <3>1. /\ Kid(a, b) /\ v[b].edge = EdgeTo(Role(b)) /\ v[b].schema = NoSchema /\ v[b].data = NoValue
              /\ Role(b) \in Named \cup {"contents"}
            BY <1>3, <2>2
        <3>2. /\ EdgeTo(Role(b)) \in Edges
              /\ NoSchema \in [id : Roles \cup {NoDefn}, options : SUBSET Text]
              /\ NoValue \in [type : Kinds \cup {"none"}, strings : SUBSET Text]
              /\ NoSchema.id = NoDefn /\ NoValue.type = "none"
            BY <1>6, <3>1, AddedIsNode
        <3>3. v[b] = [edge |-> v[b].edge, defn |-> v[b].defn, schema |-> v[b].schema, data |-> v[b].data]
            BY <3>1 DEF GrownAs
        <3>4. v[b].defn \in {NoDefn, Role(b)}
            BY <1>4, <3>1
        <3>5. InRole(v, b)
            BY <3>1, <3>2, <3>4 DEF InRole
        <3> QED
            BY <3>1, <3>2, <3>3, <3>5
    <2> QED
        BY <2>1, <2>2
<1>8. v \in [DOMAIN v -> Node]
    <2>1. ASSUME NEW b \in DOMAIN v PROVE v[b] \in Node
        <3>1. v[b].defn \in Roles \cup {NoDefn}
            BY <1>6, <1>7 DEF InRole
        <3>2. /\ v[b] = [edge |-> v[b].edge, defn |-> v[b].defn, schema |-> v[b].schema, data |-> v[b].data]
              /\ v[b].edge \in Edges
              /\ v[b].schema \in [id : Roles \cup {NoDefn}, options : SUBSET Text]
              /\ v[b].data \in [type : Kinds \cup {"none"}, strings : SUBSET Text]
            BY <1>7
        <3> QED
            BY <3>1, <3>2 DEF Node
    <2> QED
        BY <1>1, <2>1
<1>9. v[Root].defn = "system"
    <2>1. Root \in DOMAIN t /\ ~Kid(a, Root) /\ t[Root].defn = "system"
        BY DEF Shape, Rooted, Kid
    <2> QED
        BY <1>2, <2>1
<1>10. ASSUME NEW b \in DOMAIN v \ {Root} PROVE Placed(v, b)
    <2>1. Front(b) \in DOMAIN v
        BY <1>1 DEF Rooted
    <2>2. v[Front(b)].schema.id = Role(Front(b))
        <3>1. CASE Front(b) = a
            BY <1>1, <1>5, <3>1
        <3>2. CASE Front(b) # a
            <4>1. b \in DOMAIN t
                BY <1>3, <3>2 DEF Kid
            <4>2. Front(b) \in DOMAIN t /\ t[Front(b)].schema.id = Role(Front(b))
                BY <4>1 DEF Shape, Rooted, Placed
            <4> QED
                BY <1>2, <3>2, <4>2
        <3> QED
            BY <3>1, <3>2
    <2>3. IF Role(b) \in Items THEN v[b].edge.type = "item" /\ v[b].edge.name = "" ELSE v[b].edge = EdgeTo(Role(b))
        <3>1. CASE b \in DOMAIN t
            BY <1>2, <3>1 DEF Shape, Placed
        <3>2. CASE b \notin DOMAIN t
            <4>1. v[b].edge = EdgeTo(Role(b)) /\ Role(b) \in Named \cup {"contents"}
                BY <1>3, <3>2
            <4> QED
                BY <4>1 DEF Named, Items
        <3> QED
            BY <3>1, <3>2
    <2>4. Role(b) \notin Optional => v[b].defn # NoDefn
        <3>1. CASE Kid(a, b)
            <4>1. v[b].defn = IF d = "whenTyped" /\ selected = {} THEN NoDefn ELSE Role(b)
                BY <1>4, <3>1
            <4>2. CASE d = "whenTyped"
                <5>1. b \in Places /\ Role(Front(b)) = "whenTyped" /\ b # Root
                    BY <1>1, <1>6, <3>1, <4>2 DEF Kid
                <5>2. Role(b) = PartAt("whenTyped", Last(b))
                    BY <5>1, PlaceParent
                <5>3. Role(b) = "contents"
                    BY <1>6, <5>2 DEF PartAt
                <5> QED
                    BY <5>3 DEF Optional
            <4>3. CASE d # "whenTyped"
                BY <1>6, <4>1, <4>3
            <4> QED
                BY <4>2, <4>3
        <3>2. CASE ~Kid(a, b)
            <4>1. b \in DOMAIN t /\ v[b].defn = t[b].defn
                BY <1>2, <1>3, <3>2
            <4> QED
                BY <4>1 DEF Shape, Placed
        <3> QED
            BY <3>1, <3>2
    <2> QED
        BY <2>2, <2>3, <2>4 DEF Placed
<1>11. ASSUME NEW c \in DOMAIN v, Role(c) \in {"system", "spec"}, Append(c, 1) \in DOMAIN v
       PROVE  Append(c, 2) \in DOMAIN v
    <2>1. c \in Seq(Pos) /\ 1 \in Pos
        BY <1>6 DEF Places, Pos
    <2>2. Append(c, 1) # Root /\ Front(Append(c, 1)) = c /\ Last(Append(c, 1)) = 1
        BY <2>1, KidFacts
    <2>3. CASE Append(c, 1) \in DOMAIN t
        <3>1. c \in DOMAIN t
            BY <2>2, <2>3 DEF Shape, Rooted
        <3>2. Append(c, 2) \in DOMAIN t
            BY <1>11, <2>3, <3>1 DEF Shape
        <3> QED
            BY <1>1, <3>2
    <2>4. CASE Append(c, 1) \notin DOMAIN t
        <3>1. c = a
            BY <1>3, <1>11, <2>2, <2>4 DEF Kid
        <3>2. 2 \in Fixed(d)
            BY <1>1, <1>11, <3>1 DEF Fixed
        <3> QED
            BY <3>1, <3>2 DEF GrownAs
    <2> QED
        BY <2>3, <2>4
<1> QED
    BY <1>1, <1>7, <1>8, <1>9, <1>10, <1>11 DEF Shape

-----------------------------------------------------------------------------
(* What depends on a definition *)

\* What a definition depends on at once.
On(e) ==
    CASE e = "specs" -> {"system"}
      [] e = "spec" -> {"specs"}
      [] e = "type" -> {"spec"}
      [] e = "whenTyped" -> {"type", "spec"}
      [] e = "contents" -> {"whenTyped"}
      [] e = "name" -> {"contents"}
      [] e = "instances" -> {"system"}
      [] e = "instance" -> {"instances"}
      [] e = "spec_ref" -> {"name", "instance"}
      [] OTHER -> {}

\* What depends on it, by way of others too.
Reached(d) ==
    CASE d = "system" -> Roles
      [] d = "specs" -> {"specs", "spec", "type", "whenTyped", "contents", "name", "spec_ref"}
      [] d = "spec" -> {"spec", "type", "whenTyped", "contents", "name", "spec_ref"}
      [] d = "type" -> {"type", "whenTyped", "contents", "name", "spec_ref"}
      [] d = "whenTyped" -> {"whenTyped", "contents", "name", "spec_ref"}
      [] d = "contents" -> {"contents", "name", "spec_ref"}
      [] d = "name" -> {"name", "spec_ref"}
      [] d = "instances" -> {"instances", "instance", "spec_ref"}
      [] d = "instance" -> {"instance", "spec_ref"}
      [] d = "spec_ref" -> {"spec_ref"}
      [] OTHER -> {}

\* The definitions of the children of a node.
LEMMA PartsAre ==
    ASSUME NEW d \in Roles
    PROVE  Parts(d) = CASE d = "system" -> {"specs", "instances"}
                        [] d = "specs" -> {"spec"}
                        [] d = "spec" -> {"type", "whenTyped"}
                        [] d = "whenTyped" -> {"contents"}
                        [] d = "contents" -> {"name"}
                        [] d = "instances" -> {"instance"}
                        [] d = "instance" -> {"spec_ref"}
                        [] OTHER -> {}
<1>1. ASSUME NEW x, NEW y PROVE Range(<<x, y>>) = {x, y} /\ Range(<<x>>) = {x}
    BY DEF Range
<1>2. ASSUME NEW x, NEW y PROVE {c.defn : c \in {x, y}} = {x.defn, y.defn} /\ {c.defn : c \in {x}} = {x.defn}
    OBVIOUS
<1>3. \A x, y : Child(x, y).defn = y
    BY DEF Child
<1>4. CASE d = "system"
    <2>1. Parts(d) = {c.defn : c \in Range(Defn[d].children)}
        BY <1>4, DefnFacts DEF Parts
    <2>2. Range(Defn[d].children) = {Child("specs", "specs"), Child("instances", "instances")}
        BY <1>1, <1>4, DefnChildren
    <2> QED
        BY <1>2, <1>3, <1>4, <2>1, <2>2
<1>5. CASE d = "spec"
    <2>1. Parts(d) = {c.defn : c \in Range(Defn[d].children)}
        BY <1>5, DefnFacts DEF Parts
    <2>2. Range(Defn[d].children) = {Child("agent_type", "type"), Child("contents", "whenTyped")}
        BY <1>1, <1>5, DefnChildren
    <2> QED
        BY <1>2, <1>3, <1>5, <2>1, <2>2
<1>6. CASE d = "contents"
    <2>1. Parts(d) = {c.defn : c \in Range(Defn[d].children)}
        BY <1>6, DefnFacts DEF Parts
    <2>2. Range(Defn[d].children) = {Child("name", "name")}
        BY <1>1, <1>6, DefnChildren
    <2> QED
        BY <1>2, <1>3, <1>6, <2>1, <2>2
<1>7. CASE d = "instance"
    <2>1. Parts(d) = {c.defn : c \in Range(Defn[d].children)}
        BY <1>7, DefnFacts DEF Parts
    <2>2. Range(Defn[d].children) = {Child("spec_ref", "spec_ref")}
        BY <1>1, <1>7, DefnChildren
    <2> QED
        BY <1>2, <1>3, <1>7, <2>1, <2>2
<1>8. CASE d \in {"specs", "instances", "whenTyped"}
    BY <1>8, DefnFacts, DefnChildren DEF Parts
<1>9. CASE d \in {"type", "name", "spec_ref"}
    BY <1>9, DefnFacts DEF Parts
<1> QED
    BY <1>4, <1>5, <1>6, <1>7, <1>8, <1>9 DEF Roles

\* add_node_dependencies and get_node_deps come to On.
LEMMA DependsOnIs ==
    ASSUME NEW e \in Roles
    PROVE  DependsOn(e) = On(e)
<1>1. DependsOn(e) = RefersTo(e) \cup {p \in Roles : e \in Parts(p)}
    BY DefnFacts DEF DependsOn
<1>2. RefersTo(e) = IF e = "whenTyped" THEN {"type"} ELSE IF e = "spec_ref" THEN {"name"} ELSE {}
    BY DEF RefersTo
<1>3. \A p \in Roles : e \in Parts(p) <=>
          \/ p = "system" /\ e \in {"specs", "instances"}
          \/ p = "specs" /\ e = "spec"
          \/ p = "spec" /\ e \in {"type", "whenTyped"}
          \/ p = "whenTyped" /\ e = "contents"
          \/ p = "contents" /\ e = "name"
          \/ p = "instances" /\ e = "instance"
          \/ p = "instance" /\ e = "spec_ref"
    BY PartsAre
<1>4. \A p : p \in On(e) <=> p \in Roles /\ (\/ e = "whenTyped" /\ p = "type"
                                             \/ e = "spec_ref" /\ p = "name"
                                             \/ p = "system" /\ e \in {"specs", "instances"}
                                             \/ p = "specs" /\ e = "spec"
                                             \/ p = "spec" /\ e \in {"type", "whenTyped"}
                                             \/ p = "whenTyped" /\ e = "contents"
                                             \/ p = "contents" /\ e = "name"
                                             \/ p = "instances" /\ e = "instance"
                                             \/ p = "instance" /\ e = "spec_ref")
    BY DEF On, Roles
<1>5. \A p : p \in RefersTo(e) <=> p \in Roles /\ ((e = "whenTyped" /\ p = "type") \/ (e = "spec_ref" /\ p = "name"))
    BY <1>2 DEF Roles
<1> QED
    BY <1>1, <1>3, <1>4, <1>5

\* The equation that DependsByWay solves has the solution that Reached tells.
Depends(d, f) == f = [e \in DOMAIN Defn |-> e = d \/ \E p \in DependsOn(e) : f[p]]

\* Reached is a solution.
LEMMA ReachedSolves ==
    ASSUME NEW d \in Roles
    PROVE  Depends(d, [e \in DOMAIN Defn |-> e \in Reached(d)])
<1> DEFINE f == [e \in DOMAIN Defn |-> e \in Reached(d)]
<1>1. ASSUME NEW e \in Roles
      PROVE  e \in Reached(d) <=> e = d \/ \E p \in On(e) : p \in Reached(d)
    <2>1. e \in Reached(d) <=>
              \/ d = e
              \/ e = "specs" /\ d = "system"
              \/ e = "spec" /\ d \in {"system", "specs"}
              \/ e = "type" /\ d \in {"system", "specs", "spec"}
              \/ e = "whenTyped" /\ d \in {"system", "specs", "spec", "type"}
              \/ e = "contents" /\ d \in {"system", "specs", "spec", "type", "whenTyped"}
              \/ e = "name" /\ d \in {"system", "specs", "spec", "type", "whenTyped", "contents"}
              \/ e = "instances" /\ d = "system"
              \/ e = "instance" /\ d \in {"system", "instances"}
              \/ e = "spec_ref"
        BY DEF Reached, Roles
    <2>2. CASE e = "system"
        BY <2>1, <2>2 DEF On, Roles
    <2>3. CASE e = "specs"
        <3>1. On(e) = {"system"}
            BY <2>3 DEF On
        <3>2. "system" \in Reached(d) <=> d = "system"
            BY DEF Reached, Roles
        <3> QED
            BY <2>1, <2>3, <3>1, <3>2
    <2>4. CASE e = "spec"
        <3>1. On(e) = {"specs"}
            BY <2>4 DEF On
        <3>2. "specs" \in Reached(d) <=> d \in {"system", "specs"}
            BY DEF Reached, Roles
        <3> QED
            BY <2>1, <2>4, <3>1, <3>2
    <2>5. CASE e = "type"
        <3>1. On(e) = {"spec"}
            BY <2>5 DEF On
        <3>2. "spec" \in Reached(d) <=> d \in {"system", "specs", "spec"}
            BY DEF Reached, Roles
        <3> QED
            BY <2>1, <2>5, <3>1, <3>2
    <2>6. CASE e = "whenTyped"
        <3>1. On(e) = {"type", "spec"}
            BY <2>6 DEF On
        <3>2. "spec" \in Reached(d) <=> d \in {"system", "specs", "spec"}
            BY DEF Reached, Roles
        <3>3. "type" \in Reached(d) <=> d \in {"system", "specs", "spec", "type"}
            BY DEF Reached, Roles
        <3> QED
            BY <2>1, <2>6, <3>1, <3>2, <3>3
    <2>7. CASE e = "contents"
        <3>1. On(e) = {"whenTyped"}
            BY <2>7 DEF On
        <3>2. "whenTyped" \in Reached(d) <=> d \in {"system", "specs", "spec", "type", "whenTyped"}
            BY DEF Reached, Roles
        <3> QED
            BY <2>1, <2>7, <3>1, <3>2
    <2>8. CASE e = "name"
        <3>1. On(e) = {"contents"}
            BY <2>8 DEF On
        <3>2. "contents" \in Reached(d) <=> d \in {"system", "specs", "spec", "type", "whenTyped", "contents"}
            BY DEF Reached, Roles
        <3> QED
            BY <2>1, <2>8, <3>1, <3>2
    <2>9. CASE e = "instances"
        <3>1. On(e) = {"system"}
            BY <2>9 DEF On
        <3>2. "system" \in Reached(d) <=> d = "system"
            BY DEF Reached, Roles
        <3> QED
            BY <2>1, <2>9, <3>1, <3>2
    <2>10. CASE e = "instance"
        <3>1. On(e) = {"instances"}
            BY <2>10 DEF On
        <3>2. "instances" \in Reached(d) <=> d \in {"system", "instances"}
            BY DEF Reached, Roles
        <3> QED
            BY <2>1, <2>10, <3>1, <3>2
    <2>11. CASE e = "spec_ref"
        <3>1. On(e) = {"name", "instance"}
            BY <2>11 DEF On
        <3>2. d \in {"instance", "instances"} => "instance" \in Reached(d)
            BY DEF Reached
        <3>3. d \notin {"instance", "instances", "spec_ref"} => "name" \in Reached(d)
            BY DEF Reached, Roles
        <3> QED
            BY <2>1, <2>11, <3>1, <3>2, <3>3
    <2> QED
        BY <2>2, <2>3, <2>4, <2>5, <2>6, <2>7, <2>8, <2>9, <2>10, <2>11 DEF Roles
<1>2. ASSUME NEW e \in Roles PROVE On(e) \subseteq Roles
    BY DEF On, Roles
<1>3. DOMAIN Defn = Roles
    BY DefnFacts
<1>4. ASSUME NEW e \in Roles PROVE f[e] = (e = d \/ \E p \in DependsOn(e) : f[p])
    <2>1. f[e] <=> e \in Reached(d)
        BY <1>3
    <2>2. \A p \in DependsOn(e) : f[p] <=> p \in Reached(d)
        BY <1>2, <1>3, DependsOnIs
    <2>3. f[e] \in BOOLEAN
        BY <1>3
    <2>4. f[e] <=> (e = d \/ \E p \in DependsOn(e) : f[p])
        BY <1>1, <2>1, <2>2, DependsOnIs
    <2> QED
        BY <2>3, <2>4
<1>5. f = [e \in DOMAIN Defn |-> e = d \/ \E p \in DependsOn(e) : f[p]]
    BY <1>3, <1>4
<1> QED
    BY <1>5 DEF Depends

\* And only that one.
LEMMA ReachedOnly ==
    ASSUME NEW d \in Roles, NEW f, Depends(d, f)
    PROVE  \A e \in Roles : f[e] <=> e \in Reached(d)
<1>1. ASSUME NEW e \in Roles PROVE f[e] <=> (e = d \/ \E p \in On(e) : f[p])
    <2>1. e \in DOMAIN Defn /\ DependsOn(e) = On(e)
        BY DefnFacts, DependsOnIs
    <2>2. f[e] = (e = d \/ \E p \in DependsOn(e) : f[p])
        BY <2>1 DEF Depends
    <2> QED
        BY <2>1, <2>2
<1>2. f["system"] <=> d = "system"
    <2>1. "system" \in Roles /\ On("system") = {}
        BY DEF On, Roles
    <2> QED
        BY <1>1, <2>1
<1>3. f["specs"] <=> d = "specs" \/ f["system"]
    <2>1. "specs" \in Roles /\ On("specs") = {"system"}
        BY DEF On, Roles
    <2> QED
        BY <1>1, <2>1
<1>4. f["spec"] <=> d = "spec" \/ f["specs"]
    <2>1. "spec" \in Roles /\ On("spec") = {"specs"}
        BY DEF On, Roles
    <2> QED
        BY <1>1, <2>1
<1>5. f["type"] <=> d = "type" \/ f["spec"]
    <2>1. "type" \in Roles /\ On("type") = {"spec"}
        BY DEF On, Roles
    <2> QED
        BY <1>1, <2>1
<1>6. f["whenTyped"] <=> d = "whenTyped" \/ f["type"] \/ f["spec"]
    <2>1. "whenTyped" \in Roles /\ On("whenTyped") = {"type", "spec"}
        BY DEF On, Roles
    <2> QED
        BY <1>1, <2>1
<1>7. f["contents"] <=> d = "contents" \/ f["whenTyped"]
    <2>1. "contents" \in Roles /\ On("contents") = {"whenTyped"}
        BY DEF On, Roles
    <2> QED
        BY <1>1, <2>1
<1>8. f["name"] <=> d = "name" \/ f["contents"]
    <2>1. "name" \in Roles /\ On("name") = {"contents"}
        BY DEF On, Roles
    <2> QED
        BY <1>1, <2>1
<1>9. f["instances"] <=> d = "instances" \/ f["system"]
    <2>1. "instances" \in Roles /\ On("instances") = {"system"}
        BY DEF On, Roles
    <2> QED
        BY <1>1, <2>1
<1>10. f["instance"] <=> d = "instance" \/ f["instances"]
    <2>1. "instance" \in Roles /\ On("instance") = {"instances"}
        BY DEF On, Roles
    <2> QED
        BY <1>1, <2>1
<1>11. f["spec_ref"] <=> d = "spec_ref" \/ f["name"] \/ f["instance"]
    <2>1. "spec_ref" \in Roles /\ On("spec_ref") = {"name", "instance"}
        BY DEF On, Roles
    <2> QED
        BY <1>1, <2>1
<1>12. ASSUME NEW e \in Roles
       PROVE  e \in Reached(d) <=>
              \/ d = e
              \/ e = "specs" /\ d = "system"
              \/ e = "spec" /\ d \in {"system", "specs"}
              \/ e = "type" /\ d \in {"system", "specs", "spec"}
              \/ e = "whenTyped" /\ d \in {"system", "specs", "spec", "type"}
              \/ e = "contents" /\ d \in {"system", "specs", "spec", "type", "whenTyped"}
              \/ e = "name" /\ d \in {"system", "specs", "spec", "type", "whenTyped", "contents"}
              \/ e = "instances" /\ d = "system"
              \/ e = "instance" /\ d \in {"system", "instances"}
              \/ e = "spec_ref"
    BY DEF Reached, Roles
<1>13. /\ f["specs"] <=> d \in {"system", "specs"}
       /\ f["spec"] <=> d \in {"system", "specs", "spec"}
       /\ f["type"] <=> d \in {"system", "specs", "spec", "type"}
       /\ f["whenTyped"] <=> d \in {"system", "specs", "spec", "type", "whenTyped"}
       /\ f["contents"] <=> d \in {"system", "specs", "spec", "type", "whenTyped", "contents"}
       /\ f["name"] <=> d \in {"system", "specs", "spec", "type", "whenTyped", "contents", "name"}
       /\ f["instances"] <=> d \in {"system", "instances"}
       /\ f["instance"] <=> d \in {"system", "instances", "instance"}
    BY <1>2, <1>3, <1>4, <1>5, <1>6, <1>7, <1>8, <1>9, <1>10
<1>14. f["spec_ref"]
    BY <1>11, <1>13 DEF Roles
<1>15. ASSUME NEW e \in Roles PROVE f[e] <=> e \in Reached(d)
    <2>1. e \in {"system", "specs", "spec", "type", "whenTyped", "contents", "name", "instances", "instance",
                 "spec_ref"}
        BY DEF Roles
    <2>2. CASE e \in {"system", "specs", "spec", "type", "whenTyped"}
        BY <1>2, <1>12, <1>13, <2>2
    <2>3. CASE e \in {"contents", "name", "instances", "instance", "spec_ref"}
        BY <1>12, <1>13, <1>14, <2>3
    <2> QED
        BY <2>1, <2>2, <2>3
<1> QED
    BY <1>15

\* It is the only one: build_defn_dependency_graph comes to Reached.
LEMMA DependentsAre ==
    /\ DOMAIN Dependents = Roles
    /\ \A d \in Roles : Dependents[d] = Reached(d)
<1>1. ASSUME NEW d \in Roles, NEW e \in Roles PROVE DependsByWay(d)[e] <=> e \in Reached(d)
    <2>1. \E f : Depends(d, f)
        BY ReachedSolves
    <2>2. DependsByWay(d) = CHOOSE f : f = [x \in DOMAIN Defn |-> x = d \/ \E p \in DependsOn(x) : f[p]]
        BY DEF DependsByWay
    <2>3. DependsByWay(d) = CHOOSE f : Depends(d, f)
        BY <2>2 DEF Depends
    <2>4. Depends(d, DependsByWay(d))
        BY <2>1, <2>3
    <2> QED
        BY <2>4, ReachedOnly
<1>2. \A d \in Roles : Reached(d) \subseteq Roles
    BY DEF Reached, Roles
<1>3. ASSUME NEW d \in Roles PROVE Dependents[d] = Reached(d)
    <2>1. Dependents[d] = {e \in Roles : DependsByWay(d)[e]}
        BY DefnFacts DEF Dependents
    <2> QED
        BY <1>1, <1>2, <2>1
<1>4. DOMAIN Dependents = Roles
    BY DefnFacts DEF Dependents
<1> QED
    BY <1>3, <1>4

\* Where a definition comes in the order.
Rank(d) ==
    CASE d = "system" -> 1 [] d = "specs" -> 2 [] d = "spec" -> 3 [] d = "type" -> 4
      [] d = "whenTyped" -> 5 [] d = "contents" -> 6 [] d = "name" -> 7
      [] d = "instances" -> 8 [] d = "instance" -> 9 [] OTHER -> 10

\* Order and Rank are inverse to each other.
LEMMA RankFacts ==
    /\ \A d \in Roles : Rank(d) \in 1..10 /\ Order[Rank(d)] = d
    /\ \A n \in 1..10 : Order[n] \in Roles /\ Rank(Order[n]) = n
    /\ \A d, e \in Roles : Rank(d) = Rank(e) => d = e
<1>1. \A d \in Roles : Rank(d) \in 1..10 /\ Order[Rank(d)] = d
    BY OrderFacts DEF Rank, Roles
<1>2. ASSUME NEW n \in 1..10 PROVE Order[n] \in Roles /\ Rank(Order[n]) = n
    <2>1. n \in {1, 2, 3, 4, 5, 6, 7, 8, 9, 10}
        OBVIOUS
    <2> QED
        BY <2>1, OrderFacts DEF Rank, Roles
<1>3. \A d, e \in Roles : Rank(d) = Rank(e) => d = e
    BY <1>1
<1> QED
    BY <1>1, <1>2, <1>3

\* What depends on a definition contains what depends on that in turn, and comes after it.
LEMMA ReachFacts ==
    ASSUME NEW d \in Roles
    PROVE  /\ d \in Reached(d) /\ Reached(d) \subseteq Roles /\ Reached("system") = Roles
           /\ \A p \in Reached(d) : Rank(p) >= Rank(d)
           /\ \A p \in Reached(d), i \in Pos : PartAt(p, i) # NoDefn => PartAt(p, i) \in Reached(d)
           /\ "type" \in Reached(d) => "whenTyped" \in Reached(d)
           /\ "name" \in Reached(d) \/ "contents" \in Reached(d) => "spec_ref" \in Reached(d)
           /\ "whenTyped" \in Reached(d) => "contents" \in Reached(d)
<1>1. d \in Reached(d) /\ Reached(d) \subseteq Roles /\ Reached("system") = Roles
    BY DEF Reached, Roles
<1>2. \A p \in Reached(d) : Rank(p) >= Rank(d)
    BY DEF Reached, Roles, Rank
<1>3. \A p, e \in Roles : p \in Reached(d) /\ p \in On(e) => e \in Reached(d)
    <2>1. ASSUME NEW e \in Roles, NEW p \in Roles, p \in Reached(d), p \in On(e)
          PROVE  e \in Reached(d)
        <3>1. [x \in DOMAIN Defn |-> x \in Reached(d)][e] <=> (e = d \/ \E q \in DependsOn(e) : [x \in DOMAIN Defn |-> x \in Reached(d)][q])
            <4> DEFINE f == [x \in DOMAIN Defn |-> x \in Reached(d)]
            <4>1. f = [x \in DOMAIN Defn |-> x = d \/ \E q \in DependsOn(x) : f[q]]
                BY ReachedSolves DEF Depends
            <4> HIDE DEF f
            <4>2. f[e] <=> (e = d \/ \E q \in DependsOn(e) : f[q])
                BY <4>1, DefnFacts
            <4> QED
                BY <4>2 DEF f
        <3>2. DOMAIN Defn = Roles /\ DependsOn(e) = On(e)
            BY DefnFacts, DependsOnIs
        <3> QED
            BY <2>1, <3>1, <3>2
    <2> QED
        BY <2>1
<1>4. ASSUME NEW p \in Reached(d), NEW i \in Pos, PartAt(p, i) # NoDefn
      PROVE  PartAt(p, i) \in Reached(d)
    <2>1. PartAt(p, i) \in Roles /\ p \in On(PartAt(p, i)) /\ p \in Roles
        BY <1>1, <1>4 DEF PartAt, On, Roles
    <2> QED
        BY <1>3, <2>1
<1>5. /\ "type" \in On("whenTyped") /\ "name" \in On("spec_ref") /\ "contents" \in On("name")
      /\ "whenTyped" \in On("contents")
      /\ {"type", "whenTyped", "name", "spec_ref", "contents"} \subseteq Roles
    BY DEF On, Roles
<1>6. /\ "type" \in Reached(d) => "whenTyped" \in Reached(d)
      /\ "whenTyped" \in Reached(d) => "contents" \in Reached(d)
      /\ "contents" \in Reached(d) => "name" \in Reached(d)
      /\ "name" \in Reached(d) => "spec_ref" \in Reached(d)
    BY <1>3, <1>5
<1> QED
    BY <1>1, <1>2, <1>4, <1>6

-----------------------------------------------------------------------------
(* References *)

\* What an instantiation refers to are nodes, where it is found.
LEMMA ReferredNodes ==
    ASSUME NEW t, Shape(t), NEW b \in DOMAIN t
    PROVE  Referred(t, b) \subseteq DOMAIN t \cup {NoNode}
<1>1. ASSUME NEW a \in DOMAIN t PROVE Follow(t, Where(t, a)) \in DOMAIN t \cup {NoNode}
    <2> DEFINE path == Where(t, a)
               n == Len(a)
    <2>1. n \in Nat /\ DOMAIN path = 1..n /\ \A i \in 1..n : path[i] \in Edges
        BY WhereFacts
    <2>2. Root \in DOMAIN t
        BY DEF Shape, Rooted
    <2> HIDE DEF path, n
    <2>3. Follow(t, path) \in DOMAIN t \cup {NoNode}
        BY <2>1, <2>2, LookupStays
    <2> QED
        BY <2>3 DEF path
<1>2. ASSUME NEW d PROVE ResolveAny(t, d) \subseteq DOMAIN t \cup {NoNode}
    BY <1>1 DEF ResolveAny, Nodes
<1>3. ASSUME NEW d PROVE ResolveUnique(t, b, d) \subseteq DOMAIN t \cup {NoNode}
    <2>1. \E nearest \in SUBSET Nodes(t, d) :
              ResolveUnique(t, b, d) = IF Cardinality(nearest) > 1 THEN {NoNode} ELSE {Follow(t, Where(t, a)) : a \in nearest}
        BY DEF ResolveUnique
    <2> QED
        BY <1>1, <2>1 DEF Nodes
<1> QED
    BY <1>2, <1>3 DEF Referred

\* The strings that are referred to are strings that there are.
LEMMA StringsAreText ==
    ASSUME NEW t, Shape(t), NEW refs, refs \subseteq DOMAIN t \cup {NoNode}, Readable(t, refs)
    PROVE  Strings(t, refs) \in SUBSET Text
<1>1. ASSUME NEW b \in refs PROVE t[b].data.strings \subseteq Text
    <2>1. b \in DOMAIN t
        BY DEF Readable
    <2> QED
        BY <2>1 DEF Shape, Node
<1> QED
    BY <1>1 DEF Strings

\* A specification's parts are found by the indices of the specifications.
LEMMA BelowSpecs ==
    ASSUME NEW t, Shape(t), ~SpecsStale(t), NEW a \in DOMAIN t, Role(a) \in {"type", "whenTyped", "name"}
    PROVE  /\ \A n \in 1..Len(a) : Exact(t, Pre(a, n))
           /\ Follow(t, Where(t, a)) = a
<1>1. a \in Places /\ a \in Seq(Pos) /\ Rooted(DOMAIN t)
    BY DEF Shape, Rooted, Places
<1>2. Len(a) >= 1 /\ a[1] = 1
    BY <1>1 DEF Role, NoDefn
<1>3. ASSUME NEW n \in 1..Len(a) PROVE Exact(t, Pre(a, n))
    <2>1. Pre(a, n) \in DOMAIN t /\ Pre(a, n)[1] = 1
        <3>1. n \in 0..Len(a)
            BY <1>1
        <3>2. Pre(a, n) \in DOMAIN t
            BY <1>1, <3>1, WayIsThere
        <3>3. Pre(a, n)[1] = a[1]
            BY <1>1 DEF Pre
        <3> QED
            BY <1>2, <3>2, <3>3
    <2>2. Role(Pre(a, n)) # "instance"
        BY <2>1 DEF Role, NoDefn
    <2> QED
        BY <2>1, <2>2 DEF Exact, SpecsStale, Items
<1> QED
    BY <1>3, Found

\* So every name is found, where no specification has moved up.
LEMMA NamesFound ==
    ASSUME NEW t, Shape(t), ~SpecsStale(t)
    PROVE  ResolveAny(t, "name") = Nodes(t, "name")
<1>1. ASSUME NEW a \in Nodes(t, "name") PROVE Follow(t, Where(t, a)) = a
    <2>1. a \in DOMAIN t /\ Role(a) = "name"
        BY DEF Nodes, Shape, InRole, NoDefn
    <2> QED
        BY <2>1, BelowSpecs
<1> QED
    BY <1>1 DEF ResolveAny

\* The path to a node on the way to another has the edges of the way there.
LEMMA SamePath ==
    ASSUME NEW t, Shape(t), NEW a \in DOMAIN t, NEW b \in DOMAIN t, NEW n \in 1..Len(a), n <= Len(b)
    PROVE  IsPrefix(Where(t, Pre(a, n)), Where(t, b)) <=> \A i \in 1..n : t[Pre(a, i)].edge = t[Pre(b, i)].edge
<1>1. a \in Seq(Pos) /\ b \in Seq(Pos) /\ Len(a) \in Nat /\ Len(b) \in Nat /\ n \in Nat
    BY DEF Shape, Rooted, Places
<1>2. Pre(a, n) \in DOMAIN t /\ Len(Pre(a, n)) = n
    <2>1. n \in 0..Len(a)
        BY <1>1
    <2> QED
        BY <1>1, <2>1, WayIsThere, PreFacts DEF Shape
<1>3. \A i \in 1..n : Pre(Pre(a, n), i) = Pre(a, i)
    BY <1>1 DEF Pre
<1> DEFINE p == Where(t, Pre(a, n))
           q == Where(t, b)
<1>4. p = [i \in 1..n |-> t[Pre(a, i)].edge] /\ q = [i \in 1..Len(b) |-> t[Pre(b, i)].edge]
    <2>1. DOMAIN Pre(a, n) = 1..n /\ DOMAIN b = 1..Len(b)
        BY <1>1, <1>2, PreFacts
    <2>2. p = [i \in 1..n |-> t[Pre(Pre(a, n), i)].edge]
        BY <2>1 DEF Where, Pre
    <2>3. q = [i \in 1..Len(b) |-> t[Pre(b, i)].edge]
        BY <2>1 DEF Where, Pre
    <2> QED
        BY <1>3, <2>2, <2>3
<1> HIDE DEF p, q
<1>5. \A i \in 1..n : i \in 1..Len(b)
    BY <1>1
<1>6. p \in Seq({p[i] : i \in 1..n}) /\ Len(p) = n /\ q \in Seq({q[i] : i \in 1..Len(b)}) /\ Len(q) = Len(b)
    <2>1. ASSUME NEW r, NEW m \in Nat, NEW f, r = [i \in 1..m |-> f[i]]
          PROVE  r \in Seq({r[i] : i \in 1..m}) /\ Len(r) = m
        <3>1. r \in [1..m -> {r[i] : i \in 1..m}]
            BY <2>1
        <3>2. r \in Seq({r[i] : i \in 1..m})
            BY <2>1, <3>1
        <3>3. DOMAIN r = 1..m
            BY <2>1
        <3> QED
            BY <2>1, <3>2, <3>3
    <2>2. p = [i \in 1..n |-> [j \in 1..n |-> t[Pre(a, j)].edge][i]]
        BY <1>4
    <2>3. q = [i \in 1..Len(b) |-> [j \in 1..Len(b) |-> t[Pre(b, j)].edge][i]]
        BY <1>4
    <2>4. p \in Seq({p[i] : i \in 1..n}) /\ Len(p) = n
        BY <1>1, <2>1, <2>2
    <2>5. q \in Seq({q[i] : i \in 1..Len(b)}) /\ Len(q) = Len(b)
        <3> DEFINE m == Len(b)
                   g == [j \in 1..m |-> t[Pre(b, j)].edge]
        <3>1. m \in Nat /\ q = [i \in 1..m |-> g[i]]
            BY <1>1, <2>3
        <3> HIDE DEF m, g
        <3>2. q \in Seq({q[i] : i \in 1..m}) /\ Len(q) = m
            BY <2>1, <3>1
        <3> QED
            BY <3>2 DEF m
    <2> QED
        BY <2>4, <2>5
<1>7. IsPrefix(p, q) <=> \A i \in 1..n : p[i] = q[i]
    <2>1. SubSeq(p, 1, n) = [i \in 1..n |-> p[i]]
        BY <1>1, <1>6
    <2>2. SubSeq(q, 1, n) = [i \in 1..n |-> q[i]]
        BY <1>1, <1>5, <1>6
    <2>3. IsPrefix(p, q) <=> SubSeq(p, 1, n) = SubSeq(q, 1, n)
        BY <1>1, <1>6 DEF IsPrefix
    <2>4. [i \in 1..n |-> p[i]] = [i \in 1..n |-> q[i]] => \A i \in 1..n : p[i] = q[i]
        <3>1. ASSUME [i \in 1..n |-> p[i]] = [i \in 1..n |-> q[i]], NEW i \in 1..n
              PROVE  p[i] = q[i]
            <4>1. [j \in 1..n |-> p[j]][i] = [j \in 1..n |-> q[j]][i]
                BY <3>1
            <4> QED
                BY <4>1
        <3> QED
            BY <3>1
    <2> QED
        BY <2>1, <2>2, <2>3, <2>4
<1>8. \A i \in 1..n : p[i] = t[Pre(a, i)].edge /\ q[i] = t[Pre(b, i)].edge
    BY <1>4, <1>5
<1>9. IsPrefix(p, q) <=> \A i \in 1..n : t[Pre(a, i)].edge = t[Pre(b, i)].edge
    BY <1>7, <1>8
<1> QED
    BY <1>9 DEF p, q

\* How far the ways to two nodes are the same.
Common(t, here, a) ==
    Cardinality({n \in 1..Len(a) : IsPrefix(Where(t, SubSeq(a, 1, n)), Where(t, here))})

Nearest(t, here, d) ==
    {a \in Nodes(t, d) : \A b \in Nodes(t, d) :
        ~(\/ Common(t, here, a) < Common(t, here, b)
          \/ Common(t, here, a) = Common(t, here, b) /\ Len(a) > Len(b))}

\* resolve_reference, Unique, told with Nearest.
LEMMA UniqueIs ==
    ASSUME NEW t, NEW here, NEW d
    PROVE  ResolveUnique(t, here, d)
             = IF Cardinality(Nearest(t, here, d)) > 1 THEN {NoNode}
               ELSE {Follow(t, Where(t, a)) : a \in Nearest(t, here, d)}
BY Zenon DEF ResolveUnique, Nearest, Common

\* A specification's type and what it is a condition for are siblings.
Beside(t, b, s) ==
    /\ s \in DOMAIN t /\ Role(s) = "type" /\ t[s].defn = "type" /\ s # b /\ s # Root /\ Front(s) = Front(b)
    /\ b # Root /\ Front(b) \in DOMAIN t /\ Role(Front(b)) = "spec" /\ b = Append(Front(b), 2)

\* The type is there, with its definition.
LEMMA TypeBeside ==
    ASSUME NEW t, Shape(t), NEW b \in DOMAIN t, Role(b) = "whenTyped"
    PROVE  Beside(t, b, Append(Front(b), 1))
<1> DEFINE s == Append(Front(b), 1)
<1>1. b \in Places /\ b # Root
    <2>1. b \in Places
        BY DEF Shape, Rooted
    <2> QED
        BY <2>1, RoleFacts
<1>2. /\ Front(b) \in Places /\ Last(b) \in Pos /\ b = Append(Front(b), Last(b))
      /\ PartAt(Role(Front(b)), Last(b)) = "whenTyped"
    BY <1>1, PlaceParent
<1>3. Role(Front(b)) = "spec" /\ Last(b) = 2
    BY <1>2 DEF PartAt, NoDefn
<1>4. Front(b) \in DOMAIN t /\ Front(b) \in Seq(Pos)
    BY <1>1, <1>2 DEF Shape, Rooted, Places
<1>5. s \in DOMAIN t
    <2>0. Append(Front(b), 2) = b
        BY <1>2, <1>3, Zenon
    <2>1. 2 \in Pos /\ 2 > 1 /\ Append(Front(b), 2) \in DOMAIN t
        <3>1. 2 \in Pos /\ 2 > 1
            BY DEF Pos
        <3>2. b \in DOMAIN t
            OBVIOUS
        <3> QED
            BY <2>0, <3>1, <3>2
    <2>2. Append(Front(b), 2 - 1) \in DOMAIN t
        BY <1>4, <2>1 DEF Shape, Rooted
    <2>3. 2 - 1 = 1
        OBVIOUS
    <2> QED
        BY <2>2, <2>3
<1>6. Role(s) = "type" /\ s # Root /\ Front(s) = Front(b)
    <2>1. 1 \in Pos
        BY DEF Pos
    <2>2. Role(s) = PartAt("spec", 1)
        BY <1>3, <1>4, <2>1, KidRole
    <2> QED
        BY <1>4, <2>1, <2>2, KidFacts DEF PartAt
<1> HIDE DEF s
<1>7. t[s].defn = "type"
    <2>1. Placed(t, s) /\ InRole(t, s)
        BY <1>5, <1>6 DEF Shape
    <2> QED
        BY <1>6, <2>1 DEF Placed, InRole, Optional
<1>8. s # b
    BY <1>6
<1> QED
    BY <1>1, <1>2, <1>3, <1>4, <1>5, <1>6, <1>7, <1>8 DEF Beside, s

\* A specification's type and its condition, and the way to them.
LEMMA PartOfSpec ==
    ASSUME NEW t, Shape(t), NEW x \in DOMAIN t, Role(x) \in {"type", "whenTyped"}
    PROVE  /\ Len(x) = 3 /\ x[1] = 1 /\ (Role(x) = "type" => x[3] = 1) /\ (Role(x) = "whenTyped" => x[3] = 2)
           /\ Pre(x, 1) \in DOMAIN t /\ Pre(x, 1) # Root /\ Pre(x, 2) \in DOMAIN t /\ Pre(x, 2) # Root
           /\ Last(Pre(x, 2)) = x[2] /\ Pre(x, 3) = x
           /\ Role(Pre(x, 1)) = "specs" /\ Role(Pre(x, 2)) = "spec"
<1>1. x \in Places /\ x \in Seq(Pos) /\ Rooted(DOMAIN t)
    BY DEF Shape, Rooted, Places
<1>2. Len(x) = 3 /\ x[1] = 1 /\ (Role(x) = "type" => x[3] = 1) /\ (Role(x) = "whenTyped" => x[3] = 2)
    BY <1>1 DEF Role, NoDefn
<1>3. 1 \in 0..Len(x) /\ 2 \in 0..Len(x) /\ 1 \in 1..Len(x) /\ 2 \in 1..Len(x)
    BY <1>2
<1>4. Pre(x, 1) \in DOMAIN t /\ Pre(x, 2) \in DOMAIN t
    BY <1>1, <1>3, WayIsThere
<1>5. /\ Pre(x, 1) # Root /\ Pre(x, 2) # Root /\ Last(Pre(x, 2)) = x[2]
      /\ Len(Pre(x, 1)) = 1 /\ Len(Pre(x, 2)) = 2 /\ Pre(x, Len(x)) = x
    BY <1>1, <1>3, PreFacts
<1>6. Pre(x, 1)[1] = 1 /\ Pre(x, 2)[1] = 1
    BY <1>1, <1>2 DEF Pre
<1>7. Role(Pre(x, 1)) = "specs"
    <2>1. ASSUME NEW y, Len(y) = 1, y[1] = 1 PROVE Role(y) = "specs"
        BY <2>1 DEF Role
    <2> QED
        BY <1>5, <1>6, <2>1
<1>8. Role(Pre(x, 2)) = "spec"
    <2>1. ASSUME NEW y, Len(y) = 2, y[1] = 1 PROVE Role(y) = "spec"
        BY <2>1 DEF Role
    <2> QED
        BY <1>5, <1>6, <2>1
<1> QED
    BY <1>2, <1>4, <1>5, <1>7, <1>8

\* How far the way to a type is that to a condition.
LEMMA TypeCommon ==
    ASSUME NEW t, Shape(t), ~SpecsStale(t), NEW b \in DOMAIN t, Role(b) = "whenTyped",
           NEW c \in DOMAIN t, Role(c) = "type"
    PROVE  /\ Len(c) = 3
           /\ c = Append(Front(b), 1) => Common(t, b, c) = 2
           /\ c # Append(Front(b), 1) => Common(t, b, c) = 1
<1>1. b \in Seq(Pos) /\ c \in Seq(Pos)
    BY DEF Shape, Rooted, Places
<1>2. Len(b) = 3 /\ b[1] = 1 /\ b[3] = 2 /\ Len(c) = 3 /\ c[1] = 1 /\ c[3] = 1
    BY PartOfSpec
<1>24. /\ Pre(b, 1) \in DOMAIN t /\ Pre(b, 1) # Root /\ Pre(b, 2) \in DOMAIN t /\ Pre(b, 2) # Root
       /\ Pre(c, 1) \in DOMAIN t /\ Pre(c, 1) # Root /\ Pre(c, 2) \in DOMAIN t /\ Pre(c, 2) # Root
       /\ Last(Pre(b, 2)) = b[2] /\ Last(Pre(c, 2)) = c[2]
    BY PartOfSpec
<1>5. Pre(b, 3) = b /\ Pre(c, 3) = c
    BY PartOfSpec
<1>7. Role(Pre(b, 1)) = "specs" /\ Role(Pre(c, 1)) = "specs" /\ Role(Pre(b, 2)) = "spec" /\ Role(Pre(c, 2)) = "spec"
    BY PartOfSpec
<1>21. ASSUME NEW x \in DOMAIN t, x # Root
       PROVE  /\ t[x].edge \in Edges
              /\ Role(x) \in Items => t[x].edge.type = "item" /\ t[x].edge.name = ""
              /\ Role(x) \notin Items => t[x].edge = EdgeTo(Role(x))
    <2>1. Placed(t, x) /\ t[x] \in Node
        BY <1>21 DEF Shape
    <2> QED
        BY <2>1 DEF Placed, Node
<1>8. t[Pre(b, 1)].edge = EdgeTo("specs") /\ t[Pre(c, 1)].edge = EdgeTo("specs")
    <2>1. "specs" \notin Items
        BY DEF Items
    <2>2. t[Pre(b, 1)].edge = EdgeTo("specs")
        BY <1>7, <1>21, <1>24, <2>1
    <2>3. t[Pre(c, 1)].edge = EdgeTo("specs")
        BY <1>7, <1>21, <1>24, <2>1
    <2> QED
        BY <2>2, <2>3
<1>9. t[b].edge = ChildEdge("contents") /\ t[c].edge = ChildEdge("agent_type")
    <2>1. b # Root /\ c # Root
        BY RoleFacts
    <2>2. t[b].edge = EdgeTo("whenTyped") /\ t[c].edge = EdgeTo("type")
        BY <1>21, <2>1 DEF Items
    <2> QED
        BY <2>2 DEF EdgeTo
<1>10. t[b].edge # t[c].edge
    BY <1>9 DEF ChildEdge
<1>11. t[Pre(b, 2)].edge = t[Pre(c, 2)].edge <=> b[2] = c[2]
    <2>1. t[Pre(b, 2)].edge.idx = b[2] - 1 /\ t[Pre(c, 2)].edge.idx = c[2] - 1
        BY <1>7, <1>24 DEF SpecsStale
    <2>2. /\ t[Pre(b, 2)].edge.type = "item" /\ t[Pre(b, 2)].edge.name = "" /\ t[Pre(b, 2)].edge \in Edges
          /\ t[Pre(c, 2)].edge.type = "item" /\ t[Pre(c, 2)].edge.name = "" /\ t[Pre(c, 2)].edge \in Edges
        <3>1. "spec" \in Items
            BY DEF Items
        <3>2. t[Pre(b, 2)].edge.type = "item" /\ t[Pre(b, 2)].edge.name = "" /\ t[Pre(b, 2)].edge \in Edges
            BY <1>7, <1>21, <1>24, <3>1
        <3>3. t[Pre(c, 2)].edge.type = "item" /\ t[Pre(c, 2)].edge.name = "" /\ t[Pre(c, 2)].edge \in Edges
            BY <1>7, <1>21, <1>24, <3>1
        <3> QED
            BY <3>2, <3>3
    <2>3. b[2] \in Int /\ c[2] \in Int
        BY <1>1, <1>2 DEF Pos
    <2> DEFINE e == t[Pre(b, 2)].edge
               f == t[Pre(c, 2)].edge
    <2>4. e \in Edges /\ f \in Edges /\ e.type = f.type /\ e.name = f.name /\ e.idx = b[2] - 1 /\ f.idx = c[2] - 1
        BY <2>1, <2>2
    <2> HIDE DEF e, f
    <2>5. e = f <=> b[2] - 1 = c[2] - 1
        BY <2>4 DEF Edges
    <2>6. e = f <=> b[2] = c[2]
        BY <2>3, <2>5
    <2> QED
        BY <2>6 DEF e, f
<1>12. b[2] = c[2] <=> c = Append(Front(b), 1)
    <2> DEFINE s == Append(Front(b), 1)
    <2>1. s \in Seq(Pos) /\ Len(s) = 3 /\ s[1] = b[1] /\ s[2] = b[2] /\ s[3] = 1
        BY <1>1, <1>2 DEF Front, Pos
    <2>2. s = c => b[2] = c[2]
        BY <2>1
    <2>3. b[2] = c[2] => s = c
        <3>1. DOMAIN s = 1..3 /\ DOMAIN c = 1..3
            BY <1>1, <1>2, <2>1
        <3>2. b[2] = c[2] => \A i \in 1..3 : s[i] = c[i]
            BY <1>2, <2>1
        <3> QED
            BY <1>1, <2>1, <3>1, <3>2
    <2> QED
        BY <2>2, <2>3
<1> DEFINE N == {n \in 1..Len(c) : IsPrefix(Where(t, SubSeq(c, 1, n)), Where(t, b))}
<1>13. \A n \in 1..3 : n \in N <=> \A i \in 1..n : t[Pre(c, i)].edge = t[Pre(b, i)].edge
    <2>1. ASSUME NEW n \in 1..3
          PROVE  n \in N <=> \A i \in 1..n : t[Pre(c, i)].edge = t[Pre(b, i)].edge
        <3>1. n \in 1..Len(c) /\ n <= Len(b)
            BY <1>2
        <3>2. IsPrefix(Where(t, Pre(c, n)), Where(t, b)) <=> \A i \in 1..n : t[Pre(c, i)].edge = t[Pre(b, i)].edge
            BY <3>1, SamePath
        <3> QED
            BY <3>1, <3>2 DEF Pre
    <2> QED
        BY <2>1
<1>14. N \subseteq 1..3
    BY <1>2
<1>15. 1 \in N /\ 3 \notin N
    <2>1. \A i \in 1..1 : i = 1
        OBVIOUS
    <2>2. 1 \in 1..3 /\ 3 \in 1..3
        OBVIOUS
    <2> HIDE DEF N
    <2>3. 1 \in N
        BY <1>8, <1>13, <2>1, <2>2
    <2>4. 3 \notin N
        BY <1>5, <1>10, <1>13, <2>2
    <2> QED
        BY <2>3, <2>4
<1>16. 2 \in N <=> b[2] = c[2]
    <2>1. \A i \in 1..2 : i = 1 \/ i = 2
        OBVIOUS
    <2>2. 2 \in 1..3 /\ 1 \in 1..2 /\ 2 \in 1..2
        OBVIOUS
    <2> HIDE DEF N
    <2> QED
        BY <1>8, <1>11, <1>13, <2>1, <2>2
<1> HIDE DEF N
<1>17. Common(t, b, c) = Cardinality(N)
    BY DEF Common, N
<1>22. \A n \in N : n = 1 \/ n = 2 \/ n = 3
    BY <1>14
<1>18. b[2] = c[2] => N = {1, 2}
    BY <1>15, <1>16, <1>22
<1>19. b[2] # c[2] => N = {1}
    BY <1>15, <1>16, <1>22
<1>20. Cardinality({1}) = 1 /\ Cardinality({1, 2}) = 2
    <2>1. IsFiniteSet({1}) /\ Cardinality({1}) = 1
        BY FS_Singleton
    <2>2. {1} \cup {2} = {1, 2} /\ 2 \notin {1}
        OBVIOUS
    <2>3. Cardinality({1} \cup {2}) = Cardinality({1}) + 1
        BY <2>1, <2>2, FS_AddElement
    <2> QED
        BY <2>1, <2>2, <2>3
<1> QED
    BY <1>2, <1>12, <1>17, <1>18, <1>19, <1>20

\* So it is the one that the condition finds, where no specification has moved up.
LEMMA TypeFound ==
    ASSUME NEW t, Shape(t), ~SpecsStale(t), NEW b \in DOMAIN t, Role(b) = "whenTyped"
    PROVE  ResolveUnique(t, b, "type") = {Append(Front(b), 1)}
<1> DEFINE s == Append(Front(b), 1)
           K == Nodes(t, "type")
           near == Nearest(t, b, "type")
<1>1. s \in DOMAIN t /\ Role(s) = "type" /\ t[s].defn = "type"
    <2>1. Beside(t, b, s)
        BY TypeBeside
    <2> HIDE DEF s
    <2> QED
        BY <2>1 DEF Beside
<1>2. s \in K
    BY <1>1 DEF Nodes
<1>3. \A c \in K : c \in DOMAIN t /\ Role(c) = "type"
    BY DEF Nodes, Shape, InRole, NoDefn
<1>4. \A c \in K : Len(c) = 3 /\ (c = s => Common(t, b, c) = 2) /\ (c # s => Common(t, b, c) = 1)
    BY <1>3, TypeCommon
<1> HIDE DEF s
<1>5. s \in near
    <2>1. ASSUME NEW e \in K
          PROVE ~(\/ Common(t, b, s) < Common(t, b, e)
                  \/ Common(t, b, s) = Common(t, b, e) /\ Len(s) > Len(e))
        BY <1>2, <1>4
    <2> QED
        BY <1>2, <2>1 DEF Nearest
<1>6. ASSUME NEW c \in near PROVE c = s
    <2>1. c \in K /\ ~(Common(t, b, c) < Common(t, b, s))
        BY <1>2 DEF Nearest
    <2> QED
        BY <1>2, <1>4, <2>1
<1>7. near = {s}
    BY <1>5, <1>6
<1> HIDE DEF near
<1>8. ~(Cardinality(near) > 1)
    <2>1. Cardinality({s}) = 1
        BY FS_Singleton
    <2> QED
        BY <1>7, <2>1
<1>9. ResolveUnique(t, b, "type") = {Follow(t, Where(t, a)) : a \in near}
    BY <1>8, UniqueIs DEF near
<1>10. Follow(t, Where(t, s)) = s
    BY <1>1, BelowSpecs
<1>11. ResolveUnique(t, b, "type") = {s}
    BY <1>7, <1>9, <1>10
<1> QED
    BY <1>11 DEF s

-----------------------------------------------------------------------------
(* An update, one node after the other *)

\* What an update is of: nothing, or what depends on a definition, except a node of that.
Scope(ds, skipped) ==
    ds = {} \/ \E d \in Roles : ds = Reached(d) /\ \A b \in skipped : Role(b) = d

\* The node b, of definition d, is current already when the definitions before the n-th and
\* the nodes in T have been updated.
Claimed(b, d, n, T, ds, skipped) == d \notin ds \/ b \in skipped \/ Rank(d) < n \/ b \in T

\* Of u, what an update that started from t has come to.
Traced(t, u) ==
    /\ u = [tree |-> u.tree, ok |-> u.ok] /\ u.ok \in BOOLEAN
    /\ Shape(u.tree)
    /\ DOMAIN t \subseteq DOMAIN u.tree
    /\ \A b \in DOMAIN t : u.tree[b].edge = t[b].edge
    /\ \A b \in DOMAIN u.tree \ DOMAIN t : Role(b) \notin Items

DataTraced(t, ds, skipped, n, T, u) ==
    \A b \in DOMAIN t :
        \/ u.tree[b].data = t[b].data
        \/ /\ Role(b) \in ds /\ b \notin skipped /\ (Rank(Role(b)) < n \/ b \in T)
           /\ u.tree[b].schema.id = Role(b)
           /\ u.tree[b].data = Adjusted(t[b].data, u.tree[b].schema)

ClaimsHold(ds, skipped, sure, n, T, u) ==
    \A b \in DOMAIN u.tree :
        u.tree[b].defn # NoDefn /\ Claimed(b, u.tree[b].defn, n, T, ds, skipped) => Current(u.tree, b, sure)

UpdateInv(t, ds, skipped, sure, n, T, u) ==
    /\ Traced(t, u)
    /\ DataTraced(t, ds, skipped, n, T, u)
    /\ ~SpecsStale(t) => u.ok
    /\ u.ok => ClaimsHold(ds, skipped, sure, n, T, u)

\* An item is where it was, with its edge.
LEMMA StaleSame ==
    ASSUME NEW t, NEW u, Traced(t, u)
    PROVE  SpecsStale(u.tree) <=> SpecsStale(t)
<1>1. SpecsStale(u.tree) => SpecsStale(t)
    <2>1. ASSUME NEW b \in DOMAIN u.tree, Role(b) = "spec", u.tree[b].edge.idx # Last(b) - 1
          PROVE  SpecsStale(t)
        <3>1. b \in DOMAIN t /\ u.tree[b].edge = t[b].edge
            BY <2>1 DEF Traced, Items
        <3> QED
            BY <2>1, <3>1 DEF SpecsStale
    <2> QED
        BY <2>1 DEF SpecsStale
<1>2. SpecsStale(t) => SpecsStale(u.tree)
    <2>1. ASSUME NEW b \in DOMAIN t, Role(b) = "spec", t[b].edge.idx # Last(b) - 1
          PROVE  SpecsStale(u.tree)
        <3>1. b \in DOMAIN u.tree /\ u.tree[b].edge = t[b].edge
            BY DEF Traced
        <3> QED
            BY <2>1, <3>1 DEF SpecsStale
    <2> QED
        BY <2>1 DEF SpecsStale
<1> QED
    BY <1>1, <1>2

\* What is referred to is found and can be read, when it is current itself.
LEMMA RefsReadable ==
    ASSUME NEW t, Shape(t), ~SpecsStale(t), NEW b \in DOMAIN t, t[b].defn # NoDefn,
           t[b].defn = "whenTyped" => \A c \in Nodes(t, "type") : Plain(t, c),
           t[b].defn = "spec_ref" => \A c \in Nodes(t, "name") : Plain(t, c)
    PROVE  /\ Readable(t, Referred(t, b))
           /\ t[b].defn = "whenTyped" => Strings(t, Referred(t, b)) = t[Append(Front(b), 1)].data.strings
           /\ t[b].defn = "spec_ref" => Strings(t, Referred(t, b)) = UNION {t[c].data.strings : c \in Nodes(t, "name")}
<1>1. Role(b) = t[b].defn /\ Role(b) \in Roles /\ NoNode \notin DOMAIN t
    <2>1. b \in Places /\ NoNode \notin DOMAIN t
        BY RoleFacts DEF Shape, Rooted
    <2> QED
        BY <2>1, RoleFacts DEF Shape, InRole
<1>2. CASE t[b].defn = "whenTyped"
    <2> DEFINE s == Append(Front(b), 1)
    <2>1. Beside(t, b, s)
        BY <1>1, <1>2, TypeBeside
    <2>2. Referred(t, b) = {s}
        BY <1>1, <1>2, TypeFound DEF Referred
    <2> HIDE DEF s
    <2>3. s \in DOMAIN t /\ t[s].defn = "type" /\ s \in Nodes(t, "type")
        BY <2>1 DEF Beside, Nodes
    <2>4. t[s].data.type = "enum"
        <3>1. Plain(t, s)
            BY <1>2, <2>3
        <3>2. IsLeaf("type") /\ Defn["type"].kind = "enum"
            BY DefnFacts DEF IsLeaf
        <3> QED
            BY <2>3, <3>1, <3>2 DEF Plain
    <2>5. Readable(t, {s})
        BY <1>1, <2>3, <2>4 DEF Readable
    <2>6. Strings(t, {s}) = t[s].data.strings
        BY DEF Strings
    <2>7. Strings(t, Referred(t, b)) = t[s].data.strings
        BY <2>2, <2>6
    <2> QED
        BY <1>2, <2>2, <2>5, <2>7 DEF s
<1>3. CASE t[b].defn = "spec_ref"
    <2>1. Referred(t, b) = Nodes(t, "name")
        BY <1>3, NamesFound DEF Referred
    <2>2. ASSUME NEW c \in Nodes(t, "name") PROVE c # NoNode /\ t[c].data.type = "string"
        <3>1. c \in DOMAIN t /\ t[c].defn = "name" /\ Plain(t, c)
            BY <1>3 DEF Nodes
        <3>2. IsLeaf("name") /\ Defn["name"].kind = "string"
            BY DefnFacts DEF IsLeaf
        <3> QED
            BY <1>1, <3>1, <3>2 DEF Plain
    <2> QED
        BY <1>3, <2>1, <2>2 DEF Readable, Strings
<1>4. CASE t[b].defn \notin {"whenTyped", "spec_ref"}
    BY <1>4 DEF Referred, Readable
<1> QED
    BY <1>2, <1>3, <1>4

\* A definition comes before those of the children.
LEMMA RankOfPart ==
    ASSUME NEW d \in Roles, NEW i \in Pos, PartAt(d, i) # NoDefn
    PROVE  Rank(PartAt(d, i)) > Rank(d) /\ PartAt(d, i) # d /\ PartAt(d, i) \in Roles
<1>1. /\ Rank("system") = 1 /\ Rank("specs") = 2 /\ Rank("spec") = 3 /\ Rank("type") = 4 /\ Rank("whenTyped") = 5
      /\ Rank("contents") = 6 /\ Rank("name") = 7 /\ Rank("instances") = 8 /\ Rank("instance") = 9 /\ Rank("spec_ref") = 10
    BY DEF Rank
<1> DEFINE e == PartAt(d, i)
<1>2. /\ d = "system" => e \in {"specs", "instances"}
      /\ d = "specs" => e = "spec"
      /\ d = "spec" => e \in {"type", "whenTyped"}
      /\ d = "whenTyped" => e = "contents"
      /\ d = "contents" => e = "name"
      /\ d = "instances" => e = "instance"
      /\ d = "instance" => e = "spec_ref"
      /\ d \in {"type", "name", "spec_ref"} => e = NoDefn
    BY DEF PartAt
<1>3. e # NoDefn
    OBVIOUS
<1> HIDE DEF e
<1>4. e \in Roles /\ Rank(e) > Rank(d)
    BY <1>1, <1>2, <1>3 DEF Roles
<1>5. e # d
    BY <1>2, <1>3 DEF Roles
<1> QED
    BY <1>4, <1>5 DEF e

\* What comes after a definition that is being updated is not current yet.
LEMMA LaterUnclaimed ==
    ASSUME NEW ds, NEW skipped, Scope(ds, skipped), NEW d \in ds, NEW e \in ds, Rank(e) > Rank(d),
           NEW c, Role(c) = e, NEW n, n = Rank(d), NEW T, \A x \in T : Role(x) = d
    PROVE  ~Claimed(c, e, n, T, ds, skipped)
<1>1. PICK z \in Roles : ds = Reached(z) /\ \A b \in skipped : Role(b) = z
    BY DEF Scope
<1>2. d \in Roles /\ e \in Roles
    BY <1>1, ReachFacts
<1>3. Rank(d) \in Int /\ Rank(e) \in Int /\ Rank(z) \in Int /\ Rank(d) >= Rank(z)
    BY <1>1, <1>2, ReachFacts, RankFacts
<1>4. e # z /\ e # d
    BY <1>3
<1>5. c \notin skipped /\ c \notin T
    BY <1>1, <1>4
<1>6. ~(Rank(e) < n)
    BY <1>3
<1> QED
    BY <1>5, <1>6 DEF Claimed

-----------------------------------------------------------------------------
(* What instantiating a node makes of what the others are *)

\* The nodes of an address: below a place only its children are.
LEMMA OnlyKid ==
    ASSUME NEW t, Shape(t), NEW c \in DOMAIN t, NEW i \in Pos, NEW b
    PROVE  Kid(b, Append(c, i)) <=> b = c
<1>1. c \in Seq(Pos)
    BY DEF Shape, Rooted, Places
<1> QED
    BY <1>1, KidFacts DEF Kid

\* A node that is not instantiated, nor its parent, is what its definition says if it was.
LEMMA PlainKept ==
    ASSUME NEW t, Shape(t), NEW b, NEW d, NEW selected, NEW v, GrownAs(t, b, d, selected, v),
           NEW c \in DOMAIN v, c # b, ~Kid(b, c), Plain(t, c)
    PROVE  Plain(v, c)
<1>1. c \in DOMAIN t /\ v[c] = t[c] /\ DOMAIN t \subseteq DOMAIN v
    BY DEF GrownAs
<1>2. ASSUME NEW i \in Pos, Append(c, i) \in DOMAIN v
      PROVE  Append(c, i) \in DOMAIN t /\ v[Append(c, i)].defn = t[Append(c, i)].defn
    <2>1. ~Kid(b, Append(c, i))
        BY <1>1, OnlyKid
    <2>2. Append(c, i) \in DOMAIN t
        BY <1>2, <2>1 DEF GrownAs
    <2>3. Stays(t, b, d, selected, v)
        BY GrownStays
    <2> QED
        BY <2>1, <2>2, <2>3 DEF Stays
<1> DEFINE e == t[c].defn
<1>3. e \in {"specs", "instances"} =>
          \A i \in Pos : Append(c, i) \in DOMAIN v => v[Append(c, i)].defn = PartAt(e, i)
    BY <1>2 DEF Plain
<1>4. v[c].defn = e
    BY <1>1
<1>5. /\ e \in {"system", "spec"} => Append(c, 1) \in DOMAIN v /\ Append(c, 2) \in DOMAIN v
      /\ e \in {"contents", "instance", "whenTyped"} => Append(c, 1) \in DOMAIN v
    BY <1>1 DEF Plain
<1>6. /\ t[c].schema.id = e
      /\ e = "type" => t[c].schema.options = Types
      /\ IsLeaf(e) => t[c].data.type = Defn[e].kind /\ FitsSchema(t[c].data, t[c].schema)
      /\ ~IsLeaf(e) => t[c].data = IF e = "whenTyped" THEN NoValue ELSE Default(e)
    BY DEF Plain
<1> HIDE DEF e
<1> QED
    BY <1>1, <1>3, <1>4, <1>5, <1>6 DEF Plain

\* The names are what they were, when neither a name nor what has one is instantiated.
LEMMA NamesKept ==
    ASSUME NEW t, Shape(t), NEW b, NEW d, NEW selected, NEW v, GrownAs(t, b, d, selected, v),
           Shape(v), d \notin {"name", "contents"}
    PROVE  UNION {v[c].data.strings : c \in Nodes(v, "name")} = UNION {t[c].data.strings : c \in Nodes(t, "name")}
<1>1. Stays(t, b, d, selected, v)
    BY GrownStays
<1>2. DOMAIN t \subseteq DOMAIN v /\ b \in DOMAIN t /\ Role(b) = d
    BY DEF GrownAs
<1>3. ASSUME NEW c \in DOMAIN v, Role(c) = "name" PROVE ~Kid(b, c) /\ c # b /\ c \in DOMAIN t
    <2>1. ~Kid(b, c)
        <3>1. SUFFICES ASSUME Kid(b, c) PROVE FALSE
            OBVIOUS
        <3>2. c \in Places /\ c # Root /\ Front(c) = b
            BY <3>1 DEF Kid, Shape, Rooted
        <3>3. Role(c) = PartAt(d, Last(c))
            BY <1>2, <3>2, PlaceParent
        <3>4. PartAt(d, Last(c)) # "name"
            BY DEF PartAt, NoDefn
        <3> QED
            BY <1>3, <3>3, <3>4
    <2>2. c # b
        BY <1>2, <1>3
    <2> QED
        BY <1>1, <2>1, <2>2 DEF Stays
<1>4. \A c \in Nodes(v, "name") : Role(c) = "name"
    BY DEF Nodes, Shape, InRole, NoDefn
<1>5. \A c \in Nodes(t, "name") : Role(c) = "name" /\ c \in DOMAIN v
    BY <1>2 DEF Nodes, Shape, InRole, NoDefn
<1>6. Nodes(v, "name") = Nodes(t, "name")
    <2>1. ASSUME NEW c \in Nodes(v, "name") PROVE c \in Nodes(t, "name")
        <3>1. c \in DOMAIN t /\ ~Kid(b, c) /\ v[c].defn = "name"
            BY <1>3, <1>4 DEF Nodes
        <3> QED
            BY <1>1, <3>1 DEF Stays, Nodes
    <2>2. ASSUME NEW c \in Nodes(t, "name") PROVE c \in Nodes(v, "name")
        <3>1. c \in DOMAIN t /\ ~Kid(b, c) /\ t[c].defn = "name" /\ c \in DOMAIN v
            BY <1>3, <1>5 DEF Nodes
        <3> QED
            BY <1>1, <3>1 DEF Stays, Nodes
    <2> QED
        BY <2>1, <2>2
<1>7. \A c \in Nodes(t, "name") : v[c].data.strings = t[c].data.strings
    BY <1>1, <1>3, <1>5 DEF Stays, Nodes
<1> QED
    BY <1>6, <1>7

\* What refers to a node that is not instantiated still agrees with it.
LEMMA ReferringKept ==
    ASSUME NEW t, Shape(t), NEW b, NEW d, NEW selected, NEW v, GrownAs(t, b, d, selected, v), Shape(v),
           NEW c \in DOMAIN v, c # b, ~Kid(b, c), Plain(t, c), Referring(t, c),
           t[c].defn = "whenTyped" => d # "type",
           t[c].defn = "spec_ref" => d \notin {"name", "contents"}
    PROVE  Referring(v, c)
<1>1. c \in DOMAIN t /\ v[c] = t[c] /\ DOMAIN t \subseteq DOMAIN v /\ d = Role(b)
    BY DEF GrownAs
<1>2. Stays(t, b, d, selected, v)
    BY GrownStays
<1>3. ASSUME t[c].defn = "whenTyped"
      PROVE  v[Append(c, 1)].defn = IF v[Append(Front(c), 1)].data.strings = {} THEN NoDefn ELSE "contents"
    <2> DEFINE s == Append(Front(c), 1)
    <2>1. Role(c) = "whenTyped"
        BY <1>1, <1>3 DEF Shape, InRole, NoDefn
    <2>2. s \in DOMAIN t /\ Role(s) = "type"
        BY <1>1, <2>1, TypeBeside DEF Beside
    <2>3. s # b
        BY <1>1, <1>3, <2>2
    <2>4. v[s].data = t[s].data
        BY <1>2, <2>2, <2>3 DEF Stays
    <2>5. Append(c, 1) \in DOMAIN t
        BY <1>3 DEF Plain
    <2>6. 1 \in Pos
        BY DEF Pos
    <2>7. ~Kid(b, Append(c, 1))
        BY <1>1, <2>6, OnlyKid
    <2>8. v[Append(c, 1)].defn = t[Append(c, 1)].defn
        BY <1>2, <2>5, <2>7 DEF Stays
    <2>9. t[Append(c, 1)].defn = IF t[s].data.strings = {} THEN NoDefn ELSE "contents"
        BY <1>3 DEF Referring
    <2> QED
        BY <2>4, <2>8, <2>9
<1>4. ASSUME t[c].defn = "spec_ref"
      PROVE  v[c].schema.options = UNION {v[x].data.strings : x \in Nodes(v, "name")}
    <2>1. UNION {v[x].data.strings : x \in Nodes(v, "name")} = UNION {t[x].data.strings : x \in Nodes(t, "name")}
        BY <1>4, NamesKept
    <2>2. t[c].schema.options = UNION {t[x].data.strings : x \in Nodes(t, "name")}
        BY <1>4 DEF Referring
    <2> QED
        BY <1>1, <2>1, <2>2
<1>5. v[c].defn = t[c].defn
    BY <1>1
<1> QED
    BY <1>3, <1>4, <1>5 DEF Referring

\* A node that is instantiated is what its definition says, with the options it is given.
LEMMA GrownPlain ==
    ASSUME NEW t, Shape(t), NEW a, NEW d, NEW selected, NEW v, GrownAs(t, a, d, selected, v), Shape(v)
    PROVE  Plain(v, a)
<1>1. /\ a \in DOMAIN t /\ d \in Roles /\ d = Role(a) /\ a \in DOMAIN v
      /\ v[a].defn = d /\ v[a].schema = SchemaOf(d, selected)
      /\ v[a].data = Adjusted(t[a].data, SchemaOf(d, selected))
    BY DEF GrownAs
<1>2. Stays(t, a, d, selected, v)
    BY GrownStays
<1>3. a \in Places /\ a \in Seq(Pos)
    BY <1>1 DEF Shape, Rooted, Places
<1>4. v[a].schema.id = d
    BY <1>1, AdjustedFacts
<1>5. /\ d \in {"system", "spec"} => Append(a, 1) \in DOMAIN v /\ Append(a, 2) \in DOMAIN v
      /\ d \in {"contents", "instance", "whenTyped"} => Append(a, 1) \in DOMAIN v
    <2>1. \A i \in Fixed(d) : Append(a, i) \in DOMAIN v
        BY DEF GrownAs
    <2>2. d \in {"system", "spec"} => Fixed(d) = 1..2
        BY DEF Fixed
    <2>3. d \in {"contents", "instance", "whenTyped"} => Fixed(d) = 1..1
        BY DEF Fixed
    <2>4. 1 \in 1..2 /\ 2 \in 1..2 /\ 1 \in 1..1
        OBVIOUS
    <2> QED
        BY <2>1, <2>2, <2>3, <2>4
<1>6. d \in {"specs", "instances"} =>
          \A i \in Pos : Append(a, i) \in DOMAIN v => v[Append(a, i)].defn = PartAt(d, i)
    <2>1. ASSUME d \in {"specs", "instances"}, NEW i \in Pos, Append(a, i) \in DOMAIN v
          PROVE  v[Append(a, i)].defn = PartAt(d, i)
        <3>1. Kid(a, Append(a, i))
            BY <1>3, KidFacts DEF Kid
        <3>2. v[Append(a, i)].defn = Role(Append(a, i))
            BY <1>2, <2>1, <3>1 DEF Stays
        <3>3. Role(Append(a, i)) = PartAt(d, i)
            BY <1>1, <1>3, KidRole
        <3> QED
            BY <3>2, <3>3
    <2> QED
        BY <2>1
<1>7. d = "type" => v[a].schema.options = Types
    BY <1>1, AdjustedFacts DEF Options
<1>8. IsLeaf(d) => v[a].data.type = Defn[d].kind /\ FitsSchema(v[a].data, v[a].schema)
    <2> DEFINE S == SchemaOf(d, selected)
    <2>1. S.id = d /\ (IsLeaf(d) => \/ Adjusted(t[a].data, S) = t[a].data /\ t[a].data.type = Defn[d].kind /\ FitsSchema(t[a].data, S)
                                    \/ Adjusted(t[a].data, S) = Default(d))
        BY <1>1, AdjustedFacts
    <2>2. Default(d).type = Defn[d].kind /\ Default(d).strings = {}
        BY <1>1, KindFacts
    <2>3. FitsSchema(Default(d), S)
        BY <2>2, FS_EmptySet DEF FitsSchema
    <2> HIDE DEF S
    <2>4. v[a].data = Adjusted(t[a].data, S) /\ v[a].schema = S
        BY <1>1 DEF S
    <2> QED
        BY <2>1, <2>2, <2>3, <2>4
<1>9. ~IsLeaf(d) => v[a].data = IF d = "whenTyped" THEN NoValue ELSE Default(d)
    BY <1>1, AdjustedFacts
<1> QED
    BY <1>1, <1>4, <1>5, <1>6, <1>7, <1>8, <1>9 DEF Plain

\* It also agrees with what it refers to, if that is what has been selected.
LEMMA GrownReferring ==
    ASSUME NEW t, Shape(t), NEW a, NEW d, NEW selected, NEW v, GrownAs(t, a, d, selected, v), Shape(v),
           d = "whenTyped" => selected = t[Append(Front(a), 1)].data.strings,
           d = "spec_ref" => selected = UNION {t[c].data.strings : c \in Nodes(t, "name")}
    PROVE  Referring(v, a)
<1>1. a \in DOMAIN t /\ a \in DOMAIN v /\ d = Role(a) /\ v[a].defn = d /\ v[a].schema = SchemaOf(d, selected) /\ d \in Roles
    BY DEF GrownAs
<1>2. Stays(t, a, d, selected, v)
    BY GrownStays
<1>3. a \in Seq(Pos)
    BY <1>1 DEF Shape, Rooted, Places
<1>4. ASSUME d = "whenTyped"
      PROVE  v[Append(a, 1)].defn = IF v[Append(Front(a), 1)].data.strings = {} THEN NoDefn ELSE "contents"
    <2> DEFINE s == Append(Front(a), 1)
    <2>1. s \in DOMAIN t /\ s # a
        BY <1>1, <1>4, TypeBeside DEF Beside
    <2>2. v[s].data = t[s].data
        BY <1>2, <2>1 DEF Stays
    <2>3. 1 \in Pos /\ 1 \in 1..1
        BY DEF Pos
    <2>4. Append(a, 1) \in DOMAIN v
        BY <1>4, <2>3 DEF GrownAs, Fixed
    <2>5. Kid(a, Append(a, 1))
        BY <1>3, <2>3, KidFacts DEF Kid
    <2>6. Role(Append(a, 1)) = "contents"
        BY <1>1, <1>3, <1>4, <2>3, KidRole DEF PartAt
    <2>7. v[Append(a, 1)].defn = IF selected = {} THEN NoDefn ELSE "contents"
        BY <1>2, <1>4, <2>4, <2>5, <2>6 DEF Stays
    <2>8. selected = v[s].data.strings
        BY <1>4, <2>2
    <2> QED
        BY <2>7, <2>8
<1>5. ASSUME d = "spec_ref"
      PROVE  v[a].schema.options = UNION {v[c].data.strings : c \in Nodes(v, "name")}
    <2>1. UNION {v[c].data.strings : c \in Nodes(v, "name")} = UNION {t[c].data.strings : c \in Nodes(t, "name")}
        BY <1>5, NamesKept
    <2>2. v[a].schema.options = selected
        BY <1>1, <1>5, AdjustedFacts DEF Options
    <2> QED
        BY <1>5, <2>1, <2>2
<1> QED
    BY <1>1, <1>4, <1>5 DEF Referring

\* Nothing is lost when a node has been looked at that makes no difference.
LEMMA TracedOnward ==
    ASSUME NEW t, NEW ds, NEW skipped, NEW n, NEW T, NEW b, NEW u, NEW w, w.tree = u.tree,
           DataTraced(t, ds, skipped, n, T, u)
    PROVE  DataTraced(t, ds, skipped, n, T \cup {b}, w)
BY DEF DataTraced

\* A node that comes after those in T is due.
DueNow(ds, skipped, n, T, u, b, d) ==
    /\ d = Order[n] /\ d \in ds /\ d \in Roles /\ Rank(d) = n /\ n \in 1..10
    /\ b \in DOMAIN u.tree /\ u.tree[b].defn = d /\ b \notin skipped /\ b \notin T
    /\ \A x \in T : Role(x) = d

\* What is referred to by a node that is due has been updated before.
LEMMA DueReadable ==
    ASSUME NEW t, NEW ds, NEW skipped, Scope(ds, skipped), NEW sure, NEW n, NEW T, NEW u,
           UpdateInv(t, ds, skipped, sure, n, T, u), u.ok, ~SpecsStale(t),
           NEW b, NEW d, DueNow(ds, skipped, n, T, u, b, d)
    PROVE  /\ Readable(u.tree, Referred(u.tree, b))
           /\ d = "whenTyped" => Strings(u.tree, Referred(u.tree, b)) = u.tree[Append(Front(b), 1)].data.strings
           /\ d = "spec_ref" => Strings(u.tree, Referred(u.tree, b)) = UNION {u.tree[c].data.strings : c \in Nodes(u.tree, "name")}
<1>1. Traced(t, u) /\ ClaimsHold(ds, skipped, sure, n, T, u)
    BY DEF UpdateInv
<1>2. Shape(u.tree) /\ ~SpecsStale(u.tree)
    BY <1>1, StaleSame DEF Traced
<1>3. b \in DOMAIN u.tree /\ u.tree[b].defn = d /\ d # NoDefn /\ n = Rank(d)
    BY RoleFacts DEF DueNow
<1>4. Rank("type") = 4 /\ Rank("name") = 7 /\ Rank("whenTyped") = 5 /\ Rank("spec_ref") = 10
    BY DEF Rank
<1>5. "type" # NoDefn /\ "name" # NoDefn
    BY DEF NoDefn
<1>6. u.tree[b].defn = "whenTyped" => \A c \in Nodes(u.tree, "type") : Plain(u.tree, c)
    BY <1>1, <1>3, <1>4, <1>5 DEF ClaimsHold, Claimed, Current, Nodes
<1>7. u.tree[b].defn = "spec_ref" => \A c \in Nodes(u.tree, "name") : Plain(u.tree, c)
    BY <1>1, <1>3, <1>4, <1>5 DEF ClaimsHold, Claimed, Current, Nodes
<1> QED
    BY <1>2, <1>3, <1>6, <1>7, RefsReadable

\* The claims on the tree in which the node b has been instantiated.
LEMMA ClaimsGrown ==
    ASSUME NEW t, NEW ds, NEW skipped, Scope(ds, skipped), NEW sure, sure => ~SpecsStale(t), NEW n, NEW T, NEW u,
           UpdateInv(t, ds, skipped, sure, n, T, u), u.ok,
           NEW b, NEW d, DueNow(ds, skipped, n, T, u, b, d),
           NEW selected, selected = Strings(u.tree, Referred(u.tree, b)),
           NEW v, GrownAs(u.tree, b, d, selected, v), Shape(v),
           NEW c \in DOMAIN v, v[c].defn # NoDefn, Claimed(c, v[c].defn, n, T \cup {b}, ds, skipped)
    PROVE  Current(v, c, sure)
<1>1. Traced(t, u) /\ ClaimsHold(ds, skipped, sure, n, T, u) /\ Shape(u.tree)
    BY DEF UpdateInv, Traced
<1>2. /\ b \in DOMAIN u.tree /\ d \in Roles /\ d \in ds /\ n = Rank(d) /\ Role(b) = d
      /\ \A x \in T \cup {b} : Role(x) = d
    BY DEF DueNow, GrownAs
<1>3. Stays(u.tree, b, d, selected, v)
    BY <1>1, GrownStays
<1>4. CASE c = b
    <2>1. Plain(v, b)
        BY <1>1, GrownPlain
    <2>2. ASSUME sure PROVE Referring(v, b)
        <3>1. /\ d = "whenTyped" => selected = u.tree[Append(Front(b), 1)].data.strings
              /\ d = "spec_ref" => selected = UNION {u.tree[x].data.strings : x \in Nodes(u.tree, "name")}
            <4>1. ~SpecsStale(t)
                BY <2>2
            <4> DEFINE found == Strings(u.tree, Referred(u.tree, b))
            <4>2. /\ d = "whenTyped" => found = u.tree[Append(Front(b), 1)].data.strings
                  /\ d = "spec_ref" => found = UNION {u.tree[x].data.strings : x \in Nodes(u.tree, "name")}
                BY <4>1, DueReadable
            <4>3. selected = found
                OBVIOUS
            <4> HIDE DEF found
            <4> QED
                BY <4>2, <4>3, Zenon
        <3> QED
            BY <1>1, <3>1, GrownReferring
    <2> QED
        BY <1>4, <2>1, <2>2 DEF Current
<1>5. CASE Kid(b, c)
    <2>1. c \in Places /\ c # Root /\ Front(c) = b
        BY <1>5 DEF Kid, Shape, Rooted
    <2>2. Last(c) \in Pos /\ Role(c) = PartAt(d, Last(c))
        BY <1>2, <2>1, PlaceParent
    <2>3. Role(c) # NoDefn
        BY <2>1 DEF Places
    <2>4. v[c].defn = Role(c)
        BY <1>3, <1>5 DEF Stays
    <2>5. Rank(Role(c)) > Rank(d) /\ Role(c) \in ds
        <3>1. PICK z \in Roles : ds = Reached(z)
            BY <1>2 DEF Scope
        <3> QED
            BY <1>2, <2>2, <2>3, <3>1, ReachFacts, RankOfPart
    <2>6. ~Claimed(c, Role(c), n, T \cup {b}, ds, skipped)
        BY <1>2, <2>5, LaterUnclaimed
    <2> QED
        BY <2>4, <2>6
<1>6. CASE c # b /\ ~Kid(b, c)
    <2>1. c \in DOMAIN u.tree /\ v[c] = u.tree[c]
        BY <1>6 DEF GrownAs
    <2> DEFINE e == u.tree[c].defn
    <2>2. e # NoDefn /\ Claimed(c, e, n, T, ds, skipped) /\ e = Role(c)
        BY <1>1, <1>6, <2>1 DEF Claimed, Shape, InRole
    <2>3. Plain(u.tree, c) /\ (sure => Referring(u.tree, c))
        BY <1>1, <2>1, <2>2 DEF ClaimsHold, Current
    <2>4. Plain(v, c)
        BY <1>1, <1>6, <2>3, PlainKept
    <2>5. Rank("type") = 4 /\ Rank("name") = 7 /\ Rank("whenTyped") = 5 /\ Rank("spec_ref") = 10 /\ Rank("contents") = 6
        BY DEF Rank
    <2>6. PICK z \in Roles : ds = Reached(z)
        BY <1>2 DEF Scope
    <2>7. e = "whenTyped" => d # "type"
        <3>1. SUFFICES ASSUME e = "whenTyped", d = "type" PROVE FALSE
            OBVIOUS
        <3>2. "whenTyped" \in ds
            BY <1>2, <2>6, <3>1, ReachFacts
        <3>3. Rank(e) > Rank(d) /\ e \in ds
            BY <2>5, <3>1, <3>2
        <3>4. ~Claimed(c, e, n, T, ds, skipped)
            BY <1>2, <2>2, <3>3, LaterUnclaimed
        <3> QED
            BY <2>2, <3>4
    <2>8. e = "spec_ref" => d \notin {"name", "contents"}
        <3>1. SUFFICES ASSUME e = "spec_ref", d \in {"name", "contents"} PROVE FALSE
            OBVIOUS
        <3>2. "spec_ref" \in ds
            BY <1>2, <2>6, <3>1, ReachFacts
        <3>3. Rank(e) > Rank(d) /\ e \in ds
            BY <2>5, <3>1, <3>2
        <3>4. ~Claimed(c, e, n, T, ds, skipped)
            BY <1>2, <2>2, <3>3, LaterUnclaimed
        <3> QED
            BY <2>2, <3>4
    <2>9. sure => Referring(v, c)
        BY <1>1, <1>6, <2>3, <2>7, <2>8, ReferringKept
    <2> QED
        BY <2>4, <2>9 DEF Current
<1> QED
    BY <1>4, <1>5, <1>6

\* A step of an update: what was current stays so, and the node becomes so; only its data
\* is adjusted, and it fails only where a specification's index is stale.
LEMMA ProcessedKeeps ==
    ASSUME NEW t, NEW ds, NEW skipped, Scope(ds, skipped), NEW sure, sure => ~SpecsStale(t), NEW n, NEW T, NEW u,
           UpdateInv(t, ds, skipped, sure, n, T, u),
           NEW b, NEW d, DueNow(ds, skipped, n, T, u, b, d)
    PROVE  UpdateInv(t, ds, skipped, sure, n, T \cup {b}, Processed(b, u))
<1> DEFINE refs == Referred(u.tree, b)
<1>1. Traced(t, u) /\ Shape(u.tree) /\ u = [tree |-> u.tree, ok |-> u.ok] /\ DataTraced(t, ds, skipped, n, T, u)
    BY DEF UpdateInv, Traced
<1>2. b \in DOMAIN u.tree /\ u.tree[b].defn = d /\ d # NoDefn /\ n = Rank(d) /\ d \in ds
    BY RoleFacts DEF DueNow
<1>3. CASE ~u.ok
    <2>1. Processed(b, u) = u
        BY <1>3 DEF Processed
    <2>2. DataTraced(t, ds, skipped, n, T \cup {b}, u)
        BY <1>1, TracedOnward
    <2> QED
        BY <1>1, <1>3, <2>1, <2>2 DEF UpdateInv
<1>4. CASE u.ok /\ ~Readable(u.tree, refs)
    <2> DEFINE w == [tree |-> u.tree, ok |-> FALSE]
    <2>1. Processed(b, u) = [u EXCEPT !.ok = FALSE]
        BY <1>4 DEF Processed
    <2>2. Processed(b, u) = w
        BY <1>1, <2>1
    <2>3. SpecsStale(t)
        BY <1>4, DueReadable
    <2>4. w.tree = u.tree /\ w.ok = FALSE
        OBVIOUS
    <2> HIDE DEF w
    <2>5. DataTraced(t, ds, skipped, n, T \cup {b}, w)
        BY <1>1, <2>4, TracedOnward
    <2>6. Traced(t, w)
        <3>1. w = [tree |-> w.tree, ok |-> w.ok]
            BY DEF w
        <3> QED
            BY <1>1, <2>4, <3>1 DEF Traced
    <2> QED
        BY <2>2, <2>3, <2>4, <2>5, <2>6 DEF UpdateInv
<1>5. CASE u.ok /\ Readable(u.tree, refs)
    <2> DEFINE selected == Strings(u.tree, refs)
               v == Instantiated(u.tree, b, selected)
               w == [tree |-> v, ok |-> TRUE]
    <2>1. Processed(b, u) = [u EXCEPT !.tree = Instantiated(u.tree, b, Strings(u.tree, refs))]
        BY <1>5 DEF Processed
    <2>2. u.ok = TRUE
        BY <1>1, <1>5 DEF Traced
    <2>3. Processed(b, u) = w
        BY <1>1, <2>1, <2>2
    <2>4. selected \in SUBSET Text
        BY <1>1, <1>2, <1>5, ReferredNodes, StringsAreText
    <2>5. Grows(u.tree, b, d, selected, v)
        BY <1>1, <1>2, InstantiatedGrows
    <2> HIDE DEF v
    <2>6. GrownAs(u.tree, b, d, selected, v)
        BY <1>1, <1>2, <2>5, GrownFrom
    <2>7. Shape(v)
        BY <1>1, <2>4, <2>6, ShapeGrown
    <2>8. Stays(u.tree, b, d, selected, v)
        BY <1>1, <2>6, GrownStays
    <2>9. w.tree = v /\ w.ok = TRUE /\ w = [tree |-> w.tree, ok |-> w.ok]
        OBVIOUS
    <2> HIDE DEF w
    <2>10. DOMAIN u.tree \subseteq DOMAIN v /\ Role(b) = d
        BY <2>6 DEF GrownAs
    <2>11. Traced(t, w)
        <3>1. DOMAIN t \subseteq DOMAIN v
            BY <1>1, <2>10 DEF Traced
        <3>2. \A c \in DOMAIN t : v[c].edge = t[c].edge
            BY <1>1, <2>8 DEF Traced, Stays
        <3>3. ASSUME NEW c \in DOMAIN v \ DOMAIN t PROVE Role(c) \notin Items
            <4>1. CASE c \in DOMAIN u.tree
                BY <1>1, <4>1 DEF Traced
            <4>2. CASE c \notin DOMAIN u.tree
                BY <2>8, <4>2 DEF Stays, Named, Items
            <4> QED
                BY <4>1, <4>2
        <3> QED
            BY <2>7, <2>9, <3>1, <3>2, <3>3 DEF Traced
    <2>12. DataTraced(t, ds, skipped, n, T \cup {b}, w)
        <3>1. ASSUME NEW c \in DOMAIN t, c # b
              PROVE  \/ v[c].data = t[c].data
                     \/ /\ Role(c) \in ds /\ c \notin skipped /\ (Rank(Role(c)) < n \/ c \in T \cup {b})
                        /\ v[c].schema.id = Role(c)
                        /\ v[c].data = Adjusted(t[c].data, v[c].schema)
            <4>1. c \in DOMAIN u.tree
                BY <1>1 DEF Traced
            <4>2. v[c].schema = u.tree[c].schema /\ v[c].data = u.tree[c].data
                BY <2>8, <3>1, <4>1 DEF Stays
            <4> QED
                BY <1>1, <4>2 DEF DataTraced
        <3>2. ASSUME b \in DOMAIN t
              PROVE  /\ Role(b) \in ds /\ b \notin skipped /\ b \in T \cup {b}
                     /\ v[b].schema.id = Role(b)
                     /\ v[b].data = Adjusted(t[b].data, v[b].schema)
            <4>1. u.tree[b].data = t[b].data
                <5>1. ~(Rank(d) < n)
                    <6>1. Rank(d) \in Int
                        BY RankFacts DEF DueNow
                    <6> QED
                        BY <1>2, <6>1
                <5>2. b \notin T
                    BY DEF DueNow
                <5> QED
                    BY <1>1, <2>10, <3>2, <5>1, <5>2 DEF DataTraced
            <4>2. v[b].schema = SchemaOf(d, selected) /\ v[b].data = Adjusted(u.tree[b].data, SchemaOf(d, selected))
                BY <2>6 DEF GrownAs
            <4>3. SchemaOf(d, selected).id = d
                BY DEF SchemaOf
            <4> QED
                BY <1>2, <2>10, <4>1, <4>2, <4>3 DEF DueNow
        <3> QED
            BY <2>9, <3>1, <3>2 DEF DataTraced
    <2>13. ClaimsHold(ds, skipped, sure, n, T \cup {b}, w)
        <3>1. ASSUME NEW c \in DOMAIN v, v[c].defn # NoDefn, Claimed(c, v[c].defn, n, T \cup {b}, ds, skipped)
              PROVE  Current(v, c, sure)
            BY <1>5, <2>6, <2>7, <3>1, ClaimsGrown
        <3> QED
            BY <2>9, <3>1 DEF ClaimsHold
    <2> QED
        BY <2>3, <2>9, <2>11, <2>12, <2>13 DEF UpdateInv
<1> QED
    BY <1>3, <1>4, <1>5

\* Which nodes are due does not change while they are updated.
LEMMA ProcessedDue ==
    ASSUME NEW t, NEW ds, NEW skipped, NEW sure, NEW n, NEW T, NEW u,
           UpdateInv(t, ds, skipped, sure, n, T, u),
           NEW b, NEW d, DueNow(ds, skipped, n, T, u, b, d)
    PROVE  Nodes(Processed(b, u).tree, d) = Nodes(u.tree, d)
<1> DEFINE refs == Referred(u.tree, b)
<1>1. Shape(u.tree) /\ u = [tree |-> u.tree, ok |-> u.ok]
    BY DEF UpdateInv, Traced
<1>2. b \in DOMAIN u.tree /\ u.tree[b].defn = d /\ d # NoDefn /\ d \in Roles
    BY RoleFacts DEF DueNow
<1>3. CASE ~u.ok \/ ~Readable(u.tree, refs)
    <2>1. Processed(b, u) = u \/ Processed(b, u) = [u EXCEPT !.ok = FALSE]
        BY <1>3 DEF Processed
    <2>2. Processed(b, u).tree = u.tree
        BY <1>1, <2>1
    <2> QED
        BY <2>2
<1>4. CASE u.ok /\ Readable(u.tree, refs)
    <2> DEFINE selected == Strings(u.tree, refs)
               v == Instantiated(u.tree, b, selected)
    <2>1. Processed(b, u) = [u EXCEPT !.tree = Instantiated(u.tree, b, Strings(u.tree, refs))]
        BY <1>4 DEF Processed
    <2>2. Processed(b, u).tree = v
        BY <1>1, <2>1
    <2>3. selected \in SUBSET Text
        BY <1>1, <1>2, <1>4, ReferredNodes, StringsAreText
    <2>4. Grows(u.tree, b, d, selected, v)
        BY <1>1, <1>2, InstantiatedGrows
    <2> HIDE DEF v, selected
    <2>5. GrownAs(u.tree, b, d, selected, v)
        BY <1>1, <1>2, <2>4, GrownFrom
    <2>6. Shape(v)
        BY <1>1, <2>3, <2>5, ShapeGrown
    <2>7. Stays(u.tree, b, d, selected, v) /\ DOMAIN u.tree \subseteq DOMAIN v /\ Role(b) = d
        BY <1>1, <2>5, GrownStays DEF GrownAs
    <2>8. ASSUME NEW c \in DOMAIN v, Role(c) = d PROVE ~Kid(b, c) /\ c \in DOMAIN u.tree
        <3>1. SUFFICES ASSUME Kid(b, c) PROVE FALSE
            BY <2>7 DEF Stays
        <3>2. c \in Places /\ c # Root /\ Front(c) = b
            BY <2>6, <3>1 DEF Kid, Shape, Rooted
        <3>3. Role(c) = PartAt(d, Last(c)) /\ Last(c) \in Pos
            BY <2>7, <3>2, PlaceParent
        <3> QED
            BY <1>2, <2>8, <3>3, RankOfPart
    <2>9. \A c \in DOMAIN v : v[c].defn = d => Role(c) = d
        BY <1>2, <2>6 DEF Shape, InRole
    <2>10. \A c \in DOMAIN u.tree : u.tree[c].defn = d => Role(c) = d
        BY <1>1, <1>2 DEF Shape, InRole
    <2>11. Nodes(v, d) = Nodes(u.tree, d)
        BY <2>7, <2>8, <2>9, <2>10 DEF Nodes, Stays
    <2> QED
        BY <2>2, <2>11
<1> QED
    BY <1>3, <1>4

\* All that are due of the definition d are current.
AllDone(t, ds, skipped, sure, n, d, u) ==
    LET D == Nodes(u.tree, d) \ skipped
        w == ProcessAll(D, u)
    IN UpdateInv(t, ds, skipped, sure, n, D, w) /\ Nodes(w.tree, d) = Nodes(u.tree, d)

\* The nodes of a definition that are due, updated one after the other.
LEMMA ProcessAllKeeps ==
    ASSUME NEW t, NEW ds, NEW skipped, Scope(ds, skipped), NEW sure, sure => ~SpecsStale(t),
           NEW n \in 1..10, Order[n] \in ds,
           NEW u, UpdateInv(t, ds, skipped, sure, n, {}, u)
    PROVE  AllDone(t, ds, skipped, sure, n, Order[n], u)
<1> DEFINE d == Order[n]
           D == Nodes(u.tree, d) \ skipped
           Good(S) == /\ UpdateInv(t, ds, skipped, sure, n, S, ProcessAll(S, u))
                      /\ Nodes(ProcessAll(S, u).tree, d) = Nodes(u.tree, d)
           P == {m \in Nat : \A S \in SUBSET D : Cardinality(S) = m => Good(S)}
<1>1. d \in Roles /\ Rank(d) = n /\ d # NoDefn
    BY RankFacts, RoleFacts
<1>2. Shape(u.tree)
    BY DEF UpdateInv, Traced
<1>3. IsFiniteSet(D) /\ D \subseteq DOMAIN u.tree
    <2>1. D \subseteq DOMAIN u.tree
        BY DEF Nodes
    <2> QED
        BY <1>2, <2>1, FS_Subset DEF Shape, Rooted
<1>4. \A x \in D : Role(x) = d
    BY <1>1, <1>2 DEF Nodes, Shape, InRole
<1>5. \A x \in D : x \in Nodes(u.tree, d) /\ x \notin skipped
    OBVIOUS
<1> HIDE DEF D, d
<1>6. Good({})
    <2>1. ProcessAll({}, u) = u
        BY ProcessAllUnfolds, FS_EmptySet
    <2> QED
        BY <2>1
<1>7. ASSUME NEW S \in SUBSET D, S # {}, \A x \in S : Good(S \ {x})
      PROVE  Good(S)
    <2>1. IsFiniteSet(S)
        BY <1>3, FS_Subset
    <2>2. PICK b \in S : ProcessAll(S, u) = Processed(b, ProcessAll(S \ {b}, u))
        BY <1>7, <2>1, ProcessAllUnfolds
    <2> DEFINE w == ProcessAll(S \ {b}, u)
    <2>3. UpdateInv(t, ds, skipped, sure, n, S \ {b}, w) /\ Nodes(w.tree, d) = Nodes(u.tree, d)
        BY <1>7
    <2> HIDE DEF w
    <2>4. DueNow(ds, skipped, n, S \ {b}, w, b, d)
        <3>1. b \in Nodes(w.tree, d) /\ b \notin skipped
            BY <1>5, <2>3
        <3> QED
            BY <1>1, <1>4, <3>1 DEF DueNow, Nodes, d
    <2>5. UpdateInv(t, ds, skipped, sure, n, (S \ {b}) \cup {b}, Processed(b, w))
        BY <2>3, <2>4, ProcessedKeeps
    <2>6. Nodes(Processed(b, w).tree, d) = Nodes(u.tree, d)
        BY <2>3, <2>4, ProcessedDue
    <2>7. (S \ {b}) \cup {b} = S
        OBVIOUS
    <2>8. ProcessAll(S, u) = Processed(b, w)
        BY <2>2 DEF w
    <2> QED
        BY <2>5, <2>6, <2>7, <2>8
<1> HIDE DEF Good
<1>8. Cardinality(D) \in Nat
    BY <1>3, FS_CardinalityType
<1>9. 0 \in P
    <2>1. ASSUME NEW S \in SUBSET D, Cardinality(S) = 0 PROVE Good(S)
        <3>1. IsFiniteSet(S)
            BY <1>3, FS_Subset
        <3>2. S = {}
            BY <2>1, <3>1, FS_EmptySet
        <3> QED
            BY <1>6, <3>2
    <2> QED
        BY <2>1
<1>10. \A m \in 0..(Cardinality(D) - 1) : m \in P => m + 1 \in P
    <2>1. ASSUME NEW m \in 0..(Cardinality(D) - 1), m \in P PROVE m + 1 \in P
        <3>1. m \in Nat /\ m + 1 \in Nat /\ m + 1 # 0 /\ (m + 1) - 1 = m
            BY <1>8
        <3>2. ASSUME NEW S \in SUBSET D, Cardinality(S) = m + 1 PROVE Good(S)
            <4>1. IsFiniteSet(S)
                BY <1>3, FS_Subset
            <4>2. S # {}
                <5>1. Cardinality({}) = 0
                    BY FS_EmptySet
                <5>2. Cardinality(S) # 0
                    BY <3>1, <3>2, Zenon
                <5> QED
                    BY <5>1, <5>2, Zenon
            <4>3. ASSUME NEW x \in S PROVE Good(S \ {x})
                <5>1. Cardinality(S \ {x}) = m
                    <6>1. Cardinality(S \ {x}) = Cardinality(S) - 1
                        BY <4>1, FS_RemoveElement
                    <6>2. Cardinality(S \ {x}) = (m + 1) - 1
                        BY <3>2, <6>1, Zenon
                    <6> QED
                        BY <3>1, <6>2, Zenon
                <5>2. S \ {x} \in SUBSET D
                    OBVIOUS
                <5> QED
                    BY <2>1, <5>1, <5>2
            <4> QED
                BY <1>7, <4>2, <4>3
        <3> QED
            BY <3>1, <3>2
    <2> QED
        BY <2>1
<1>11. \A m \in 0..Cardinality(D) : m \in P
    <2> HIDE DEF P
    <2> QED
        BY <1>8, <1>9, <1>10, CountingUp
<1>12. Cardinality(D) \in P
    BY <1>8, <1>11
<1>13. Good(D)
    BY <1>12
<1> QED
    BY <1>13 DEF Good, D, d, AllDone

\* After all that were due of a definition, its nodes are current.
LEMMA RankDone ==
    ASSUME NEW t, NEW ds, NEW skipped, NEW sure, NEW n \in 1..10, NEW d, d = Order[n], NEW D, NEW u,
           UpdateInv(t, ds, skipped, sure, n, D, u),
           d \in ds => D = Nodes(u.tree, d) \ skipped,
           d \notin ds => D = {}
    PROVE  UpdateInv(t, ds, skipped, sure, n + 1, {}, u)
<1>1. d \in Roles /\ Rank(d) = n /\ \A e \in Roles : Rank(e) \in Int
    BY RankFacts
<1>2. Traced(t, u) /\ Shape(u.tree)
    BY DEF UpdateInv, Traced
<1>3. \A b \in DOMAIN u.tree : Role(b) \in Roles /\ (u.tree[b].defn # NoDefn => u.tree[b].defn = Role(b))
    BY <1>2, RoleFacts DEF Shape, Rooted, InRole
<1>4. \A b \in D : Role(b) = d
    BY <1>1, <1>2, RoleFacts DEF Nodes, Shape, InRole
<1>5. DataTraced(t, ds, skipped, n + 1, {}, u)
    <2>1. \A b \in DOMAIN t : Rank(Role(b)) \in Int
        BY <1>1, <1>2, <1>3 DEF Traced
    <2>2. \A b \in DOMAIN t : Rank(Role(b)) < n \/ b \in D => Rank(Role(b)) < n + 1
        BY <1>1, <1>4, <2>1
    <2> QED
        BY <2>2 DEF UpdateInv, DataTraced
<1>6. ASSUME NEW b \in DOMAIN u.tree, u.tree[b].defn # NoDefn, Claimed(b, u.tree[b].defn, n + 1, {}, ds, skipped)
      PROVE  Claimed(b, u.tree[b].defn, n, D, ds, skipped)
    <2> DEFINE e == u.tree[b].defn
    <2>1. e \in Roles
        BY <1>3, <1>6
    <2>2. CASE Rank(e) = n
        <3>1. e = d
            BY <1>1, <2>1, <2>2, RankFacts
        <3> QED
            BY <3>1 DEF Claimed, Nodes
    <2>3. CASE Rank(e) # n
        <3>1. Rank(e) < n + 1 => Rank(e) < n
            BY <1>1, <2>1, <2>3
        <3> QED
            BY <1>6, <3>1 DEF Claimed
    <2> QED
        BY <2>2, <2>3
<1>7. u.ok => ClaimsHold(ds, skipped, sure, n + 1, {}, u)
    BY <1>6 DEF UpdateInv, ClaimsHold
<1> QED
    BY <1>2, <1>5, <1>7 DEF UpdateInv

\* The definitions one after the other.
LEMMA UptoKeeps ==
    ASSUME NEW t, NEW ds, NEW skipped, Scope(ds, skipped), NEW sure, sure => ~SpecsStale(t),
           NEW base, UpdateInv(t, ds, skipped, sure, 1, {}, base)
    PROVE  UpdateInv(t, ds, skipped, sure, 11, {}, Upto(ds, skipped, base, 10))
<1> DEFINE P == {m \in Nat : UpdateInv(t, ds, skipped, sure, m + 1, {}, Upto(ds, skipped, base, m))}
<1>1. 0 \in P
    <2>1. Upto(ds, skipped, base, 0) = base
        BY UptoUnfolds
    <2> QED
        BY <2>1
<1>2. ASSUME NEW m \in 0..9, m \in P PROVE m + 1 \in P
    <2> DEFINE u == Upto(ds, skipped, base, m)
               w == Upto(ds, skipped, base, m + 1)
               d == Order[m + 1]
    <2>1. m \in Nat /\ m + 1 \in 1..10 /\ (m + 1) - 1 = m
        OBVIOUS
    <2>2. UpdateInv(t, ds, skipped, sure, m + 1, {}, u)
        BY <1>2
    <2>3. w = ProcessAll(Due(u.tree, d, ds, skipped), u)
        <3>1. \A n \in 1..10 : Upto(ds, skipped, base, n)
                  = ProcessAll(Due(Upto(ds, skipped, base, n - 1).tree, Order[n], ds, skipped),
                               Upto(ds, skipped, base, n - 1))
            BY UptoUnfolds
        <3>2. Upto(ds, skipped, base, m + 1)
                  = ProcessAll(Due(Upto(ds, skipped, base, (m + 1) - 1).tree, Order[m + 1], ds, skipped),
                               Upto(ds, skipped, base, (m + 1) - 1))
            BY <2>1, <3>1
        <3> QED
            BY <2>1, <3>2
    <2> HIDE DEF u, w
    <2>4. CASE d \in ds
        <3> DEFINE D == Nodes(u.tree, d) \ skipped
        <3>1. Due(u.tree, d, ds, skipped) = D
            BY <2>4 DEF Due
        <3>2. UpdateInv(t, ds, skipped, sure, m + 1, D, w) /\ Nodes(w.tree, d) = Nodes(u.tree, d)
            <4>1. AllDone(t, ds, skipped, sure, m + 1, Order[m + 1], u)
                BY <2>1, <2>2, <2>4, ProcessAllKeeps
            <4>2. AllDone(t, ds, skipped, sure, m + 1, d, u)
                BY <4>1
            <4> HIDE DEF D
            <4>3. w = ProcessAll(D, u)
                BY <2>3, <3>1
            <4> QED
                BY <4>2, <4>3 DEF AllDone, D
        <3>3. D = Nodes(w.tree, d) \ skipped
            BY <3>2
        <3> HIDE DEF D
        <3>4. UpdateInv(t, ds, skipped, sure, (m + 1) + 1, {}, w)
            BY <2>1, <2>4, <3>2, <3>3, RankDone
        <3> QED
            BY <2>1, <3>4 DEF w
    <2>5. CASE d \notin ds
        <3>1. w = u
            <4>1. Due(u.tree, d, ds, skipped) = {}
                BY <2>5 DEF Due
            <4>2. ProcessAll({}, u) = u
                BY ProcessAllUnfolds, FS_EmptySet
            <4> QED
                BY <2>3, <4>1, <4>2
        <3> DEFINE D == {}
        <3>2. UpdateInv(t, ds, skipped, sure, m + 1, D, w) /\ D = {}
            BY <2>2, <3>1
        <3> HIDE DEF D
        <3>3. UpdateInv(t, ds, skipped, sure, (m + 1) + 1, {}, w)
            BY <2>1, <2>5, <3>2, RankDone
        <3> QED
            BY <2>1, <3>3 DEF w
    <2> QED
        BY <2>4, <2>5
<1>3. \A m \in 0..(10 - 1) : m \in P => m + 1 \in P
    BY <1>2
<1>4. 10 \in P
    <2> HIDE DEF P
    <2>1. \A m \in 0..10 : m \in P
        BY <1>1, <1>3, CountingUp
    <2> QED
        BY <2>1
<1> QED
    BY <1>4

\* What an update from the node a is of, and what it leaves out.
DsOf(t, a) == IF t[a].defn = NoDefn THEN {} ELSE Reached(t[a].defn)
SkippedAt(a, includeRoot) == IF includeRoot THEN {} ELSE {a}

\* Of u, what an update of t has made.
Updated(t, ds, skipped, sure, u) ==
    /\ Traced(t, u)
    /\ ~SpecsStale(t) => u.ok
    /\ u.ok => \A b \in DOMAIN u.tree : u.tree[b].defn # NoDefn => Current(u.tree, b, sure)
    /\ \A b \in DOMAIN t :
           \/ u.tree[b].data = t[b].data
           \/ /\ Role(b) \in ds /\ b \notin skipped
              /\ u.tree[b].schema.id = Role(b)
              /\ u.tree[b].data = Adjusted(t[b].data, u.tree[b].schema)

\* update_sd_tree makes a tree current in one pass, when the nodes that it is not of are
\* current before; it fails only where a specification's index is stale.
LEMMA UpdateMakes ==
    ASSUME NEW t, Shape(t), NEW a \in DOMAIN t, NEW includeRoot \in BOOLEAN, NEW sure, sure => ~SpecsStale(t),
           \A b \in DOMAIN t :
               t[b].defn # NoDefn /\ (t[b].defn \notin DsOf(t, a) \/ b \in SkippedAt(a, includeRoot))
                   => Current(t, b, sure)
    PROVE  Updated(t, DsOf(t, a), SkippedAt(a, includeRoot), sure, Update(t, a, includeRoot))
<1> DEFINE ds == DsOf(t, a)
           skipped == SkippedAt(a, includeRoot)
           base == [tree |-> t, ok |-> TRUE]
           u == Upto(ds, skipped, base, 10)
<1>1. Update(t, a, includeRoot) = u
    <2>1. t[a].defn \in Roles \cup {NoDefn}
        BY DEF Shape, Node
    <2>2. ds = IF t[a].defn = NoDefn THEN {} ELSE Dependents[t[a].defn]
        BY <2>1, DependentsAre DEF DsOf
    <2>3. skipped = IF includeRoot THEN {} ELSE {a}
        BY DEF SkippedAt
    <2>4. base = [tree |-> t, ok |-> TRUE]
        OBVIOUS
    <2> HIDE DEF ds, skipped, base
    <2> QED
        BY <2>2, <2>3, <2>4, UpdateUnfolds
<1>2. Scope(ds, skipped)
    <2>1. t[a].defn # NoDefn => t[a].defn = Role(a) /\ Role(a) \in Roles
        BY RoleFacts DEF Shape, InRole, Rooted
    <2> QED
        BY <2>1 DEF Scope, DsOf, SkippedAt
<1>3. base.tree = t /\ base.ok = TRUE /\ base = [tree |-> base.tree, ok |-> base.ok]
    OBVIOUS
<1>4. UpdateInv(t, ds, skipped, sure, 1, {}, base)
    <2> HIDE DEF ds, skipped, base
    <2>1. Traced(t, base)
        BY <1>3 DEF Traced
    <2>2. DataTraced(t, ds, skipped, 1, {}, base)
        BY <1>3 DEF DataTraced
    <2>3. ClaimsHold(ds, skipped, sure, 1, {}, base)
        <3>1. ASSUME NEW b \in DOMAIN t, t[b].defn # NoDefn, Claimed(b, t[b].defn, 1, {}, ds, skipped)
              PROVE  Current(t, b, sure)
            <4>1. t[b].defn \in Roles
                BY <3>1, RoleFacts DEF Shape, InRole, Rooted
            <4>2. ~(Rank(t[b].defn) < 1)
                <5>1. Rank(t[b].defn) \in 1..10
                    BY <4>1, RankFacts
                <5> QED
                    BY <5>1
            <4>3. t[b].defn \notin ds \/ b \in skipped
                BY <3>1, <4>2 DEF Claimed
            <4> QED
                BY <3>1, <4>3 DEF ds, skipped
        <3> QED
            BY <1>3, <3>1 DEF ClaimsHold
    <2> QED
        BY <1>3, <2>1, <2>2, <2>3 DEF UpdateInv
<1>5. UpdateInv(t, ds, skipped, sure, 11, {}, u)
    <2> HIDE DEF ds, skipped, base
    <2> QED
        BY <1>2, <1>4, UptoKeeps
<1>6. Updated(t, ds, skipped, sure, u)
    <2> HIDE DEF ds, skipped, u
    <2>1. Traced(t, u) /\ Shape(u.tree) /\ DataTraced(t, ds, skipped, 11, {}, u)
        BY <1>5 DEF UpdateInv, Traced
    <2>2. ASSUME u.ok, NEW b \in DOMAIN u.tree, u.tree[b].defn # NoDefn PROVE Current(u.tree, b, sure)
        <3>1. u.tree[b].defn \in Roles
            BY <2>1, <2>2, RoleFacts DEF Shape, InRole, Rooted
        <3>2. Rank(u.tree[b].defn) < 11
            <4>1. Rank(u.tree[b].defn) \in 1..10
                BY <3>1, RankFacts
            <4> QED
                BY <4>1
        <3>3. Claimed(b, u.tree[b].defn, 11, {}, ds, skipped)
            BY <3>2 DEF Claimed
        <3> QED
            BY <1>5, <2>2, <3>3 DEF UpdateInv, ClaimsHold
    <2> QED
        BY <1>5, <2>1, <2>2 DEF Updated, UpdateInv, DataTraced
<1> QED
    BY <1>1, <1>6

-----------------------------------------------------------------------------
(* The commands *)

\* A specification that is not where its edge says is an item with a stale index.
LEMMA StaleIndex ==
    ASSUME NEW t, Shape(t), SpecsStale(t)
    PROVE  IndexStale(t)
<1>1. PICK b \in DOMAIN t : Role(b) = "spec" /\ t[b].edge.idx # Last(b) - 1
    BY DEF SpecsStale
<1>2. b # Root
    BY <1>1, RoleFacts
<1>3. t[b].edge.type = "item"
    BY <1>1, <1>2 DEF Shape, Placed, Items
<1> QED
    BY <1>1, <1>2, <1>3 DEF IndexStale

\* A tree that has not been opened.
LEMMA EmptyShape ==
    /\ Shape(Empty) /\ ~SpecsStale(Empty) /\ DOMAIN Empty = {Root}
    /\ Empty[Root].defn = "system"
<1>1. DOMAIN Empty = {Root} /\ Empty[Root] = NewNode(ChildEdge(""), "system") /\ Empty = [a \in DOMAIN Empty |-> Empty[a]]
    BY DEF Empty
<1> DEFINE n == NewNode(ChildEdge(""), "system")
<1>11. n.defn = "system" /\ n.schema = NoSchema /\ n.data = NoValue /\ n.edge = ChildEdge("")
    BY DEF NewNode
<1>12. n = [edge |-> ChildEdge(""), defn |-> "system", schema |-> NoSchema, data |-> NoValue]
    BY DEF NewNode
<1>13. Empty[Root] = n
    BY <1>1
<1> HIDE DEF n
<1>2. Empty[Root].defn = "system" /\ Empty[Root].schema = NoSchema /\ Empty[Root].data = NoValue /\ Empty[Root].edge = ChildEdge("")
    BY <1>11, <1>13
<1>3. Root \in Places /\ Role(Root) = "system"
    BY RoleFacts
<1>4. Empty[Root] \in Node
    <2>1. ChildEdge("") \in Edges
        BY DEF ChildEdge, Edges, EdgeNames
    <2>2. NoSchema \in [id : Roles \cup {NoDefn}, options : SUBSET Text]
        BY DEF NoSchema
    <2>3. NoValue \in [type : Kinds \cup {"none"}, strings : SUBSET Text]
        BY DEF NoValue, Value
    <2>4. "system" \in Roles
        BY DEF Roles
    <2> QED
        <3>1. [edge |-> ChildEdge(""), defn |-> "system", schema |-> NoSchema, data |-> NoValue] \in Node
            BY <2>1, <2>2, <2>3, <2>4 DEF Node
        <3> QED
            BY <1>12, <1>13, <3>1
<1>5. ASSUME NEW a \in {Root}, NEW i \in Pos PROVE Append(a, i) \notin {Root}
    <2>1. a \in Seq(Pos)
        BY <1>3 DEF Places
    <2> QED
        BY <2>1, KidFacts
<1>6. Rooted(DOMAIN Empty)
    BY <1>1, <1>3, <1>5, FS_Singleton DEF Rooted
<1>7. InRole(Empty, Root)
    <2>1. NoSchema.id = NoDefn /\ NoValue.type = "none"
        BY DEF NoSchema, NoValue, Value
    <2> QED
        BY <1>2, <1>3, <2>1 DEF InRole
<1>8. 1 \in Pos
    BY DEF Pos
<1>9. Shape(Empty)
    BY <1>1, <1>2, <1>4, <1>5, <1>6, <1>7, <1>8 DEF Shape
<1>10. ~SpecsStale(Empty)
    BY <1>1, <1>3 DEF SpecsStale
<1> QED
    BY <1>1, <1>2, <1>9, <1>10

\* An update of everything.
LEMMA RootDs ==
    ASSUME NEW t, Shape(t)
    PROVE  Root \in DOMAIN t /\ DsOf(t, Root) = Roles /\ \A b \in DOMAIN t : t[b].defn \in Roles \cup {NoDefn}
<1>1. t[Root].defn = "system" /\ Root \in DOMAIN t /\ "system" # NoDefn /\ "system" \in Roles
    BY DEF Shape, Rooted, NoDefn, Roles
<1>2. Reached("system") = Roles
    BY <1>1, ReachFacts
<1>3. \A b \in DOMAIN t : t[b].defn \in Roles \cup {NoDefn}
    BY DEF Shape, Node
<1> QED
    BY <1>1, <1>2, <1>3 DEF DsOf

\* What a command leaves in tree', as far as the nodes go.
WellKept(t) ==
    /\ Shape(t)
    /\ \A b \in DOMAIN t : t[b].defn # NoDefn => Current(t, b, ~SpecsStale(t))

\* What an update of everything below the root makes.
LEMMA RootUpdate ==
    ASSUME NEW t, Shape(t), NEW includeRoot \in BOOLEAN, ~includeRoot => Plain(t, Root)
    PROVE  LET u == Update(t, Root, includeRoot) IN
           /\ Updated(t, Roles, SkippedAt(Root, includeRoot), ~SpecsStale(t), u)
           /\ Traced(t, u) /\ Shape(u.tree)
           /\ u.ok => WellKept(u.tree)
           /\ ~u.ok => IndexStale(u.tree) /\ SpecsStale(t)
<1> DEFINE sure == ~SpecsStale(t)
           skipped == SkippedAt(Root, includeRoot)
           u == Update(t, Root, includeRoot)
<1>1. Root \in DOMAIN t /\ DsOf(t, Root) = Roles
    BY RootDs
<1>2. ASSUME NEW b \in DOMAIN t, t[b].defn # NoDefn, t[b].defn \notin DsOf(t, Root) \/ b \in skipped
      PROVE  Current(t, b, sure)
    <2>1. t[b].defn \in Roles
        BY <1>2, RootDs
    <2>2. b = Root /\ ~includeRoot
        BY <1>1, <1>2, <2>1 DEF SkippedAt
    <2>3. t[Root].defn = "system"
        BY DEF Shape
    <2>4. Referring(t, Root)
        BY <2>3 DEF Referring
    <2> QED
        BY <2>2, <2>4 DEF Current
<1>3. Updated(t, Roles, skipped, sure, u)
    <2>1. Updated(t, DsOf(t, Root), skipped, sure, u)
        <3>1. sure => ~SpecsStale(t)
            OBVIOUS
        <3>2. \A b \in DOMAIN t :
                  t[b].defn # NoDefn /\ (t[b].defn \notin DsOf(t, Root) \/ b \in SkippedAt(Root, includeRoot))
                      => Current(t, b, sure)
            BY <1>2
        <3> HIDE DEF sure
        <3> QED
            BY <1>1, <3>1, <3>2, UpdateMakes
    <2> QED
        BY <1>1, <2>1
<1> HIDE DEF u
<1>4. Traced(t, u) /\ Shape(u.tree) /\ (SpecsStale(u.tree) <=> SpecsStale(t)) /\ (~SpecsStale(t) => u.ok)
    BY <1>3, StaleSame DEF Updated, Traced
<1>5. u.ok => WellKept(u.tree)
    BY <1>3, <1>4 DEF Updated, WellKept
<1>6. ~u.ok => IndexStale(u.tree) /\ SpecsStale(t)
    BY <1>4, StaleIndex
<1> QED
    BY <1>3, <1>4, <1>5, <1>6 DEF u

\* Where the nodes keep their edges, the way to each is what it was.
LEMMA WhereKept ==
    ASSUME NEW t, Shape(t), NEW v, \A b \in DOMAIN t : v[b].edge = t[b].edge, NEW a \in DOMAIN t
    PROVE  Where(t, a) = Where(v, a)
<1>1. Rooted(DOMAIN t) /\ a \in Seq(Pos)
    BY DEF Shape, Rooted, Places
<1>2. \A n \in 0..Len(a) : Pre(a, n) \in DOMAIN t
    BY <1>1, WayIsThere
<1>3. ASSUME NEW n \in DOMAIN a PROVE t[SubSeq(a, 1, n)].edge = v[SubSeq(a, 1, n)].edge
    <2>1. n \in 0..Len(a)
        BY <1>1
    <2>2. SubSeq(a, 1, n) \in DOMAIN t
        BY <1>2, <2>1 DEF Pre
    <2> QED
        BY <2>2
<1> QED
    BY <1>3 DEF Where

\* So it is in an update.
LEMMA WhereSame ==
    ASSUME NEW t, Shape(t), NEW u, Traced(t, u), NEW a \in DOMAIN t
    PROVE  Where(t, a) = Where(u.tree, a)
<1>1. \A b \in DOMAIN t : u.tree[b].edge = t[b].edge
    BY DEF Traced
<1> QED
    BY <1>1, WhereKept

\* The position after a reload.
LEMMA PositionFound ==
    ASSUME NEW t, Shape(t), NEW u, Traced(t, u), NEW a \in DOMAIN t
    PROVE  /\ Follow(u.tree, Where(t, a)) \in DOMAIN u.tree \cup {NoNode}
           /\ Follow(u.tree, Where(t, a)) = NoNode => IndexStale(u.tree)
<1> DEFINE p == Where(t, a)
<1>1. Shape(u.tree) /\ a \in DOMAIN u.tree /\ p = Where(u.tree, a)
    BY WhereSame DEF Traced
<1>2. Len(a) \in Nat /\ DOMAIN p = 1..Len(a) /\ \A n \in 1..Len(a) : p[n] \in Edges
    BY WhereFacts
<1>3. Root \in DOMAIN u.tree /\ NoNode \notin DOMAIN u.tree /\ a \in Seq(Pos) /\ Rooted(DOMAIN u.tree)
    BY <1>1, RoleFacts DEF Shape, Rooted, Places
<1> HIDE DEF p
<1>4. Follow(u.tree, p) \in DOMAIN u.tree \cup {NoNode}
    BY <1>2, <1>3, LookupStays
<1>5. ASSUME Follow(u.tree, p) = NoNode PROVE IndexStale(u.tree)
    <2>1. ~(\A n \in 1..Len(a) : Exact(u.tree, Pre(a, n)))
        BY <1>1, <1>3, <1>5, Found
    <2>2. PICK n \in 1..Len(a) : ~Exact(u.tree, Pre(a, n))
        BY <2>1
    <2> DEFINE c == Pre(a, n)
    <2>3. c # Root
        BY <1>3, PreFacts
    <2>4. c \in DOMAIN u.tree
        BY <1>1, <1>2, <1>3, WayIsThere
    <2>5. Role(c) \in Items /\ u.tree[c].edge.idx # Last(c) - 1
        BY <2>2 DEF Exact
    <2>6. u.tree[c].edge.type = "item"
        BY <1>1, <2>3, <2>4, <2>5 DEF Shape, Placed
    <2> QED
        BY <2>3, <2>4, <2>5, <2>6 DEF IndexStale
<1> QED
    BY <1>4, <1>5 DEF p

\* reload_pt_schema, of a tree that has been changed below the root.
LEMMA ReloadKeeps ==
    ASSUME NEW t, Shape(t), Plain(t, Root), nav \in DOMAIN t, Reload(t)
    PROVE  TreeInv'
<1> DEFINE u == Update(t, Root, FALSE)
           pos == Follow(u.tree, Where(t, nav))
<1>1. /\ Traced(t, u) /\ Shape(u.tree)
      /\ u.ok => WellKept(u.tree)
      /\ ~u.ok => IndexStale(u.tree)
    BY RootUpdate
<1>2. pos \in DOMAIN u.tree \cup {NoNode} /\ (pos = NoNode => IndexStale(u.tree))
    BY <1>1, PositionFound
<1>3. /\ tree' = u.tree
      /\ nav' = IF pos = NoNode THEN nav ELSE pos
      /\ editor' = IF u.ok /\ pos # NoNode THEN "editing" ELSE "failed"
      /\ cutOff' = FALSE
    BY DEF Reload
<1> HIDE DEF u, pos
<1>4. CASE u.ok /\ pos # NoNode
    <2>1. editor' = "editing" /\ nav' \in DOMAIN tree' /\ WellKept(tree') /\ cutOff' = FALSE
        BY <1>1, <1>2, <1>3, <1>4
    <2> QED
        BY <2>1 DEF TreeInv, WellKept
<1>5. CASE ~(u.ok /\ pos # NoNode)
    <2>1. editor' = "failed" /\ IndexStale(tree') /\ Shape(tree') /\ cutOff' = FALSE
        BY <1>1, <1>2, <1>3, <1>5
    <2> QED
        BY <2>1 DEF TreeInv
<1> QED
    BY <1>4, <1>5

\* The way to a node leads to a node, if anywhere; that of the root to itself.
LEMMA WayLeads ==
    ASSUME NEW t, Shape(t), NEW a \in DOMAIN t
    PROVE  /\ Follow(t, Where(t, a)) \in DOMAIN t \cup {NoNode}
           /\ a = Root => Follow(t, Where(t, a)) = Root
<1> DEFINE p == Where(t, a)
<1>1. /\ Len(a) \in Nat /\ DOMAIN p = 1..Len(a)
      /\ \A n \in 1..Len(a) : p[n] \in Edges
    BY WhereFacts
<1> HIDE DEF p
<1>2. Follow(t, p) \in DOMAIN t \cup {NoNode}
    BY <1>1, LookupStays DEF Shape, Rooted
<1>3. a = Root => Follow(t, p) = Root
    <2>1. Len(Root) = 0
        BY DEF Root
    <2> QED
        BY <1>1, <2>1, FollowUnfolds
<1> QED
    BY <1>2, <1>3 DEF p

\* Where a command may be for.
LEMMA TargetsThere ==
    ASSUME TreeInv, editor = "editing", NEW a \in Targets
    PROVE  a \in DOMAIN tree
<1>1. nav \in DOMAIN tree /\ Rooted(DOMAIN tree)
    BY DEF TreeInv, Shape
<1>2. Children(tree, nav) \subseteq DOMAIN tree
    BY DEF Children
<1>3. nav # Root => Front(nav) \in DOMAIN tree
    BY <1>1 DEF Rooted
<1>4. Descendents \subseteq DOMAIN tree
    <2>1. ASSUME NEW b \in DOMAIN tree PROVE Follow(tree, Where(tree, b)) \in DOMAIN tree \cup {NoNode}
        BY WayLeads DEF TreeInv
    <2> QED
        BY <2>1 DEF Descendents
<1> QED
    BY <1>1, <1>2, <1>3, <1>4 DEF Targets

\* The root is current while the tree is edited.
LEMMA RootCurrent ==
    ASSUME TreeInv, editor = "editing"
    PROVE  Plain(tree, Root) /\ Shape(tree) /\ nav \in DOMAIN tree /\ Root \in DOMAIN tree /\ tree[Root].defn = "system"
<1>1. Shape(tree) /\ Root \in DOMAIN tree /\ tree[Root].defn = "system" /\ nav \in DOMAIN tree
    BY DEF TreeInv, Shape, Rooted
<1>2. "system" # NoDefn
    BY DEF NoDefn
<1> QED
    BY <1>1, <1>2 DEF TreeInv, Current

\* The first update makes the whole tree.
LEMMA OpenKeeps ==
    ASSUME TreeInv, Open
    PROVE  TreeInv'
<1> DEFINE u == Update(Empty, Root, TRUE)
<1>1. /\ Traced(Empty, u) /\ Shape(u.tree)
      /\ u.ok => WellKept(u.tree)
      /\ ~u.ok => SpecsStale(Empty)
    BY EmptyShape, RootUpdate
<1>2. u.ok /\ WellKept(u.tree)
    BY <1>1, EmptyShape
<1>3. tree' = u.tree /\ editor' = "editing" /\ nav' = nav /\ cutOff' = cutOff /\ nav = Root
    BY DEF Open, TreeInv
<1> HIDE DEF u
<1>4. nav' \in DOMAIN tree'
    BY <1>1, <1>3, EmptyShape DEF Traced
<1> QED
    BY <1>2, <1>3, <1>4 DEF TreeInv, WellKept, Current

\* Nothing but the position changes.
LEMMA NavigateKeeps ==
    ASSUME TreeInv, NEW a \in Targets, Navigate(a)
    PROVE  TreeInv'
<1>1. a \in DOMAIN tree
    BY TargetsThere DEF Navigate
<1>2. nav' = a /\ tree' = tree /\ editor' = editor /\ cutOff' = cutOff /\ editor = "editing"
    BY DEF Navigate
<1> QED
    BY <1>1, <1>2 DEF TreeInv

\* A value that a leaf may have disturbs nothing else.
LEMMA ValueSet ==
    ASSUME NEW t, Shape(t), Plain(t, Root), NEW a \in DOMAIN t, NEW v \in [type : Kinds \cup {"none"}, strings : SUBSET Text],
           v.type # "list", a # Root
    PROVE  /\ Shape([t EXCEPT ![a].data = v]) /\ Plain([t EXCEPT ![a].data = v], Root)
           /\ DOMAIN [t EXCEPT ![a].data = v] = DOMAIN t
           /\ [t EXCEPT ![a].data = v][a] = [edge |-> t[a].edge, defn |-> t[a].defn, schema |-> t[a].schema, data |-> v]
           /\ \A b \in DOMAIN t \ {a} : [t EXCEPT ![a].data = v][b] = t[b]
<1> DEFINE w == [t EXCEPT ![a].data = v]
<1>1. \A b \in DOMAIN t : t[b] = [edge |-> t[b].edge, defn |-> t[b].defn, schema |-> t[b].schema, data |-> t[b].data]
    BY DEF Shape, Node
<1>2. t \in [DOMAIN t -> Node]
    BY DEF Shape
<1>3. /\ DOMAIN w = DOMAIN t /\ w = [b \in DOMAIN w |-> w[b]]
      /\ w[a] = [edge |-> t[a].edge, defn |-> t[a].defn, schema |-> t[a].schema, data |-> v]
      /\ \A b \in DOMAIN t \ {a} : w[b] = t[b]
    BY <1>1, <1>2
<1> HIDE DEF w
<1>4. \A b \in DOMAIN t : w[b].edge = t[b].edge /\ w[b].defn = t[b].defn /\ w[b].schema = t[b].schema
    BY <1>3
<1>5. w \in [DOMAIN w -> Node]
    <2>1. ASSUME NEW b \in DOMAIN t PROVE w[b] \in Node
        BY <1>2, <1>3 DEF Node
    <2> QED
        BY <1>3, <2>1
<1>6. \A b \in DOMAIN w : InRole(w, b)
    BY <1>3, <1>4 DEF Shape, InRole
<1>7. \A b \in DOMAIN w \ {Root} : Placed(w, b)
    <2>1. ASSUME NEW b \in DOMAIN t \ {Root} PROVE Placed(w, b)
        <3>1. Front(b) \in DOMAIN t /\ Placed(t, b)
            BY DEF Shape, Rooted
        <3> QED
            BY <1>4, <3>1 DEF Placed
    <2> QED
        BY <1>3, <2>1
<1>8. Shape(w)
    BY <1>3, <1>4, <1>5, <1>6, <1>7 DEF Shape, Rooted
<1>9. Plain(w, Root)
    <2>1. Root \in DOMAIN t /\ w[Root] = t[Root] /\ t[Root].defn = "system"
        BY <1>3 DEF Shape, Rooted
    <2> QED
        BY <1>3, <2>1 DEF Plain
<1> QED
    BY <1>3, <1>8, <1>9 DEF w

\* What is set is not the root, and the value is none of a list.
LEMMA LeafNotRoot ==
    ASSUME TreeInv, NEW a \in Targets, NEW v, SetValue(a, v)
    PROVE  a # Root /\ a \in DOMAIN tree /\ v.type # "list"
<1> DEFINE schema == SchemaNodeAt(Where(tree, a))
<1>1. /\ editor = "editing" /\ schema # NoSchema /\ IsLeaf(schema.id)
      /\ v.type = Defn[schema.id].kind
    BY DEF SetValue
<1>2. a \in DOMAIN tree /\ Shape(tree)
    BY <1>1, TargetsThere DEF TreeInv
<1>3. tree[Root].schema.id = "system"
    BY <1>1, RootCurrent DEF Plain
<1>4. ~IsLeaf("system")
    BY DefnFacts DEF IsLeaf
<1>5. a = Root => schema = tree[Root].schema
    BY <1>1, <1>2, WayLeads DEF SchemaNodeAt
<1>6. v.type # "list"
    BY <1>1 DEF IsLeaf
<1> QED
    BY <1>1, <1>2, <1>3, <1>4, <1>5, <1>6

\* A value is one that a node may have.
LEMMA ValuesTyped ==
    ASSUME NEW v \in Values
    PROVE  v \in [type : Kinds \cup {"none"}, strings : SUBSET Text] /\ v.type # "list"
BY DEF Values, Kinds, Text

\* A leaf gets its value, and all is updated.
LEMMA SetValueKeeps ==
    ASSUME TreeInv, NEW a \in Targets, NEW v \in [type : Kinds \cup {"none"}, strings : SUBSET Text],
           SetValue(a, v)
    PROVE  TreeInv'
<1>1. editor = "editing"
    BY DEF SetValue
<1>2. a # Root /\ a \in DOMAIN tree
    BY LeafNotRoot
<1>3. v.type # "list"
    BY LeafNotRoot
<1>4. Shape(tree) /\ Plain(tree, Root) /\ nav \in DOMAIN tree
    BY <1>1, RootCurrent
<1> DEFINE t == [tree EXCEPT ![a].data = v]
<1>5. Shape(t) /\ Plain(t, Root) /\ DOMAIN t = DOMAIN tree
    BY <1>2, <1>3, <1>4, ValueSet
<1>6. Reload(t)
    BY DEF SetValue
<1> HIDE DEF t
<1> QED
    BY <1>4, <1>5, <1>6, ReloadKeeps

\* Where the editor is at a list, its node is one of the two.
LEMMA AtList ==
    ASSUME TreeInv, editor = "editing", IsList
    PROVE  /\ nav \in DOMAIN tree /\ nav # Root /\ nav \in Seq(Pos) /\ nav \in Places
           /\ Role(nav) \in {"specs", "instances"} /\ tree[nav].schema.id = Role(nav)
           /\ Len(nav) = 1
<1>1. nav \in DOMAIN tree /\ Shape(tree)
    BY DEF TreeInv
<1>2. nav \in Places /\ nav \in Seq(Pos)
    BY <1>1 DEF Shape, Rooted, Places
<1>3. Role(nav) \in {"specs", "instances"} /\ tree[nav].schema.id = Role(nav)
    BY <1>1 DEF Shape, InRole, IsList
<1>4. nav # Root
    BY <1>3, RoleFacts
<1>5. Len(nav) = 1
    <2>1. Front(nav) \in Places /\ Last(nav) \in Pos /\ Role(nav) = PartAt(Role(Front(nav)), Last(nav))
        BY <1>2, <1>4, PlaceParent
    <2>2. Role(Front(nav)) = "system"
        BY <1>3, <2>1 DEF PartAt, NoDefn
    <2>3. Front(nav) = Root
        BY <2>1, <2>2, RoleFacts
    <2>4. Len(Root) = 0
        BY DEF Root
    <2>5. Len(Front(nav)) = Len(nav) - 1 /\ Len(nav) \in Pos
        BY <1>2, <1>4, Parent
    <2> QED
        BY <2>3, <2>4, <2>5 DEF Pos
<1> QED
    BY <1>1, <1>2, <1>3, <1>4, <1>5

\* A list with entries that have been added to its end.
Listed(t, a, n, m, nodes) ==
    /\ Role(a) \in {"specs", "instances"} /\ t[a].schema.id = Role(a)
    /\ \A i \in 1..m : /\ nodes[i] \in Node /\ nodes[i].edge.type = "item" /\ nodes[i].edge.name = ""
                       /\ nodes[i].defn \in {NoDefn, PartAt(Role(a), n + i)} /\ nodes[i].schema = NoSchema
                       /\ nodes[i].data = NoValue

\* What is in v that was not in t are the entries.
Extended(t, a, n, m, nodes, v) ==
    /\ DOMAIN t \subseteq DOMAIN v
    /\ \A b \in DOMAIN v \ DOMAIN t : /\ Role(b) \in Items /\ Front(b) = a /\ b # Root
                                      /\ \E i \in 1..m : Last(b) = n + i /\ v[b] = nodes[i]

IsEntry(n, d, e) ==
    /\ e \in Node
    /\ e.edge.type = "item" /\ e.edge.name = "" /\ e.edge.idx = n
    /\ e.defn = d /\ e.schema = NoSchema /\ e.data = NoValue

\* A new entry of a list.
LEMMA EntryFacts ==
    ASSUME NEW n \in Nat, NEW d \in Roles \cup {NoDefn}
    PROVE  IsEntry(n, d, NewNode(ItemEdge(n), d))
<1> DEFINE w == ItemEdge(n)
           e == NewNode(w, d)
<1>1. w = [type |-> "item", name |-> "", idx |-> n] /\ w.type = "item" /\ w.name = "" /\ w.idx = n
    BY DEF ItemEdge
<1>2. w \in Edges
    BY <1>1 DEF Edges, EdgeNames
<1> HIDE DEF w
<1>3. e = [edge |-> w, defn |-> d, schema |-> NoSchema, data |-> NoValue]
    BY DEF NewNode
<1>4. e.edge = w /\ e.defn = d /\ e.schema = NoSchema /\ e.data = NoValue
    BY <1>3
<1>5. NoSchema \in [id : Roles \cup {NoDefn}, options : SUBSET Text]
    BY DEF NoSchema
<1>6. NoValue \in [type : Kinds \cup {"none"}, strings : SUBSET Text]
    BY DEF NoValue, Value
<1>7. e \in Node
    BY <1>2, <1>3, <1>5, <1>6 DEF Node
<1> HIDE DEF e
<1>8. e.edge.type = "item" /\ e.edge.name = "" /\ e.edge.idx = n
    BY <1>1, <1>4
<1> QED
    BY <1>4, <1>7, <1>8 DEF e, w, IsEntry

\* Entries are added to the end of a list.
LEMMA EntriesAdded ==
    ASSUME NEW t, Shape(t), NEW a \in DOMAIN t, NEW n, NEW m \in Nat, NEW nodes, NEW v,
           AddsAfter(t, a, n, m, nodes, v), Listed(t, a, n, m, nodes)
    PROVE  Shape(v) /\ Extended(t, a, n, m, nodes, v)
<1>1. /\ n \in Nat /\ Rooted(DOMAIN v) /\ v = [b \in DOMAIN v |-> v[b]] /\ DOMAIN t \subseteq DOMAIN v
      /\ \A b \in DOMAIN t : v[b] = t[b]
    BY DEF AddsAfter
<1>2. a \in Seq(Pos) /\ a \in Places
    BY DEF Shape, Rooted, Places
<1>3. ASSUME NEW b \in DOMAIN v \ DOMAIN t
      PROVE  /\ b # Root /\ Front(b) = a /\ Role(b) \in Items
             /\ \E i \in 1..m : Last(b) = n + i /\ v[b] = nodes[i] /\ Role(b) = PartAt(Role(a), n + i)
    <2>1. PICK i \in 1..m : b = Append(a, n + i) /\ v[b] = nodes[i]
        BY DEF AddsAfter
    <2>2. n + i \in Pos
        BY <1>1 DEF Pos
    <2>3. b # Root /\ Front(b) = a /\ Last(b) = n + i /\ Role(b) = PartAt(Role(a), n + i)
        BY <1>2, <2>1, <2>2, KidFacts, KidRole
    <2>4. PartAt(Role(a), n + i) \in Items
        BY DEF Listed, PartAt, Items
    <2> QED
        BY <2>1, <2>3, <2>4
<1>4. v \in [DOMAIN v -> Node]
    <2>1. ASSUME NEW b \in DOMAIN v, b \notin DOMAIN t PROVE v[b] \in Node
        <3>1. PICK i \in 1..m : v[b] = nodes[i]
            BY <1>3, <2>1
        <3> QED
            BY <3>1 DEF Listed
    <2>2. ASSUME NEW b \in DOMAIN t PROVE v[b] \in Node
        BY <1>1 DEF Shape
    <2> QED
        BY <1>1, <2>1, <2>2
<1>5. ASSUME NEW b \in DOMAIN v PROVE InRole(v, b)
    <2>1. CASE b \in DOMAIN t
        BY <1>1, <2>1 DEF Shape, InRole
    <2>2. CASE b \notin DOMAIN t
        <3>1. v[b].defn \in {NoDefn, Role(b)} /\ v[b].schema = NoSchema /\ v[b].data = NoValue
            <4>1. PICK i \in 1..m : v[b] = nodes[i] /\ Role(b) = PartAt(Role(a), n + i)
                BY <1>3, <2>2
            <4> QED
                BY <4>1 DEF Listed
        <3>2. NoSchema.id = NoDefn /\ NoValue.type = "none"
            BY DEF NoSchema, NoValue, Value
        <3> QED
            BY <3>1, <3>2 DEF InRole
    <2> QED
        BY <2>1, <2>2
<1>6. ASSUME NEW b \in DOMAIN v \ {Root} PROVE Placed(v, b)
    <2>1. CASE b \in DOMAIN t
        <3>1. Front(b) \in DOMAIN t /\ Placed(t, b)
            BY <2>1 DEF Shape, Rooted
        <3> QED
            BY <1>1, <2>1, <3>1 DEF Placed
    <2>2. CASE b \notin DOMAIN t
        <3>1. Role(b) \in Items /\ Front(b) = a /\ v[b].edge.type = "item" /\ v[b].edge.name = ""
            <4>1. PICK i \in 1..m : v[b] = nodes[i]
                BY <1>3, <2>2
            <4> QED
                BY <1>3, <2>2, <4>1 DEF Listed
        <3>2. v[a].schema.id = Role(a)
            BY <1>1 DEF Listed
        <3>3. Role(b) \in Optional
            BY <3>1 DEF Items, Optional
        <3> QED
            BY <3>1, <3>2, <3>3 DEF Placed
    <2> QED
        BY <2>1, <2>2
<1>7. ASSUME NEW c \in DOMAIN v, Role(c) \in {"system", "spec"}, Append(c, 1) \in DOMAIN v
      PROVE  Append(c, 2) \in DOMAIN v
    <2>1. c \in Seq(Pos) /\ 1 \in Pos
        BY <1>1 DEF Rooted, Places, Pos
    <2>2. Front(Append(c, 1)) = c
        BY <2>1, KidFacts
    <2>3. Append(c, 1) \in DOMAIN t
        BY <1>3, <1>7, <2>2 DEF Listed
    <2>4. c \in DOMAIN t
        <3>1. Append(c, 1) # Root
            BY <2>1, KidFacts
        <3> QED
            BY <2>2, <2>3, <3>1 DEF Shape, Rooted
    <2> QED
        BY <1>1, <1>7, <2>3, <2>4 DEF Shape
<1>8. v[Root].defn = "system"
    BY <1>1 DEF Shape, Rooted
<1>9. Shape(v)
    BY <1>1, <1>4, <1>5, <1>6, <1>7, <1>8 DEF Shape
<1> QED
    BY <1>1, <1>3, <1>9 DEF Extended

\* The root's part is not disturbed by what is added.
LEMMA RootPlainLarger ==
    ASSUME NEW t, Shape(t), Plain(t, Root), NEW v, DOMAIN t \subseteq DOMAIN v, v[Root] = t[Root]
    PROVE  Plain(v, Root)
<1>1. t[Root].defn = "system"
    BY DEF Shape
<1> QED
    BY <1>1 DEF Plain

\* A new entry comes at the end of the list, and all is updated.
LEMMA AddItemKeeps ==
    ASSUME TreeInv, AddItem
    PROVE  TreeInv'
<1> DEFINE n == ChildCount(tree, nav)
           e == NewNode(ItemEdge(n), NoDefn)
           nodes == <<e>>
           t == AddNodes(tree, nav, nodes)
<1>1. editor = "editing" /\ IsList
    BY DEF AddItem
<1>2. Shape(tree) /\ Plain(tree, Root) /\ Rooted(DOMAIN tree) /\ Root \in DOMAIN tree
    BY <1>1, RootCurrent DEF Shape
<1>3. nav \in DOMAIN tree /\ Role(nav) \in {"specs", "instances"} /\ tree[nav].schema.id = Role(nav)
    BY <1>1, AtList
<1>4. n \in Nat
    BY <1>2, <1>3, KidsCounted
<1>5. DOMAIN nodes = 1..1 /\ nodes[1] = e /\ 1 \in Nat
    OBVIOUS
<1> HIDE DEF e
<1>7. e \in Node /\ e.edge.type = "item" /\ e.edge.name = "" /\ e.defn = NoDefn /\ e.schema = NoSchema /\ e.data = NoValue
    <2>1. NoDefn \in Roles \cup {NoDefn}
        OBVIOUS
    <2> HIDE DEF n
    <2>2. e = NewNode(ItemEdge(n), NoDefn)
        BY DEF e
    <2> QED
        <3>1. IsEntry(n, NoDefn, NewNode(ItemEdge(n), NoDefn))
            BY <1>4, <2>1, EntryFacts
        <3>2. IsEntry(n, NoDefn, e)
            BY <2>2, <3>1
        <3> QED
            BY <3>2 DEF IsEntry
<1>8. n = ChildCount(tree, nav) /\ Reload(t)
    BY DEF AddItem, e
<1> HIDE DEF nodes, n
<1>9. \A i \in 1..1 : PartAt(Role(nav), n + i) # NoDefn
    BY <1>3 DEF PartAt, NoDefn
<1>10. AddsAfter(tree, nav, n, 1, nodes, t)
    BY <1>2, <1>3, <1>5, <1>8, <1>9, AddNodesIs
<1>12. Listed(tree, nav, n, 1, nodes)
    <2>1. ASSUME NEW i \in 1..1 PROVE nodes[i] = e
        <3>1. i = 1
            OBVIOUS
        <3> QED
            BY <1>5, <3>1
    <2> QED
        BY <1>3, <1>7, <2>1 DEF Listed
<1>13. t[Root] = tree[Root] /\ DOMAIN tree \subseteq DOMAIN t
    BY <1>2, <1>10 DEF AddsAfter
<1> HIDE DEF t
<1>14. Shape(t)
    BY <1>2, <1>3, <1>10, <1>12, EntriesAdded
<1>15. Plain(t, Root)
    BY <1>2, <1>13, RootPlainLarger
<1> QED
    BY <1>3, <1>8, <1>13, <1>14, <1>15, ReloadKeeps

-----------------------------------------------------------------------------
(* An item is removed: the items after it, with what is below them, move up *)

\* What is after the i-th child of x, which is a child of the root, or below that.
IsLater(x, i, b) == Len(b) >= 2 /\ b[1] = x[1] /\ b[2] >= i

\* Where a node was before, and where it comes to be.
From(x, i, b) == IF IsLater(x, i, b) THEN [b EXCEPT ![2] = @ + 1] ELSE b
To(x, i, b) == IF IsLater(x, i, b) THEN [b EXCEPT ![2] = @ - 1] ELSE b

\* Addresses with the same positions are the same.
LEMMA SameSeq ==
    ASSUME NEW s \in Seq(Pos), NEW r \in Seq(Pos), Len(s) = Len(r), \A k \in 1..Len(s) : s[k] = r[k]
    PROVE  s = r
OBVIOUS

\* The beginning of an address, by positions.
LEMMA PrefixIs ==
    ASSUME NEW s \in Seq(Pos), NEW r \in Seq(Pos)
    PROVE  IsPrefix(s, r) <=> Len(s) <= Len(r) /\ \A k \in 1..Len(s) : s[k] = r[k]
<1> DEFINE n == Len(s)
           q == SubSeq(r, 1, n)
           p == SubSeq(s, 1, n)
<1>1. n \in Nat /\ Len(r) \in Nat
    OBVIOUS
<1>2. p = s
    BY PreFacts DEF Pre
<1>3. CASE n <= Len(r)
    <2>1. q \in Seq(Pos) /\ Len(q) = n /\ \A k \in 1..n : q[k] = r[k]
        BY <1>1, <1>3
    <2> HIDE DEF p, q
    <2>2. s = q <=> \A k \in 1..n : s[k] = r[k]
        BY <2>1, SameSeq
    <2>3. IsPrefix(s, r) <=> s = q
        BY <1>2, <1>3 DEF IsPrefix, p, q
    <2> QED
        BY <1>3, <2>2, <2>3
<1>4. CASE ~(n <= Len(r))
    BY <1>4 DEF IsPrefix
<1> QED
    BY <1>3, <1>4

\* An item of a list.
LEMMA ItemAt ==
    ASSUME NEW x \in Seq(Pos), Len(x) = 1, NEW i \in Pos
    PROVE  /\ Append(x, i) \in Seq(Pos) /\ Len(Append(x, i)) = 2
           /\ Append(x, i)[1] = x[1] /\ Append(x, i)[2] = i
           /\ \A c \in Seq(Pos) : IsPrefix(Append(x, i), c) <=> Len(c) >= 2 /\ c[1] = x[1] /\ c[2] = i
<1> DEFINE a == Append(x, i)
<1>1. /\ a \in Seq(Pos) /\ Len(a) = Len(x) + 1
      /\ \A k \in 1..Len(x) : a[k] = x[k]
      /\ a[Len(x) + 1] = i
    BY KidFacts
<1>2. 1 \in 1..Len(x) /\ Len(x) + 1 = 2
    OBVIOUS
<1>3. a \in Seq(Pos) /\ Len(a) = 2 /\ a[1] = x[1] /\ a[2] = i
    BY <1>1, <1>2
<1> HIDE DEF a
<1>4. ASSUME NEW c \in Seq(Pos)
      PROVE  IsPrefix(a, c) <=> Len(c) >= 2 /\ c[1] = x[1] /\ c[2] = i
    <2>1. IsPrefix(a, c) <=> Len(a) <= Len(c) /\ \A k \in 1..Len(a) : a[k] = c[k]
        BY <1>3, PrefixIs
    <2>2. (\A k \in 1..2 : a[k] = c[k]) <=> a[1] = c[1] /\ a[2] = c[2]
        <3>1. 1 \in 1..2 /\ 2 \in 1..2 /\ \A k \in 1..2 : k = 1 \/ k = 2
            OBVIOUS
        <3> QED
            BY <3>1
    <2>3. Len(c) \in Nat
        OBVIOUS
    <2> QED
        BY <1>3, <2>1, <2>2, <2>3
<1> QED
    BY <1>3, <1>4 DEF a

\* A position after the first changed.
LEMMA SecondChanged ==
    ASSUME NEW b \in Seq(Pos), Len(b) >= 2, NEW z \in Pos
    PROVE  /\ [b EXCEPT ![2] = z] \in Seq(Pos) /\ Len([b EXCEPT ![2] = z]) = Len(b)
           /\ \A k \in 1..Len(b) : k # 2 => [b EXCEPT ![2] = z][k] = b[k]
           /\ [b EXCEPT ![2] = z][2] = z
<1>1. 2 \in 1..Len(b) /\ Len(b) \in Nat
    OBVIOUS
<1> QED
    BY <1>1

\* Of c, what From makes of b: one position differs, if any.
Shifted(b, c, z) ==
    /\ c \in Seq(Pos) /\ Len(c) = Len(b)
    /\ \A k \in 1..Len(b) : k # 2 => c[k] = b[k]
    /\ Len(b) >= 2 => c[2] = z

\* From moves the second position up, if anything.
LEMMA FromIs ==
    ASSUME NEW x, NEW i \in Pos, NEW b \in Seq(Pos)
    PROVE  Shifted(b, From(x, i, b), IF IsLater(x, i, b) THEN b[2] + 1 ELSE b[2])
<1>1. CASE IsLater(x, i, b)
    <2>1. Len(b) >= 2
        BY <1>1 DEF IsLater
    <2>2. b[2] \in Pos
        BY <2>1
    <2>3. b[2] + 1 \in Pos
        BY <2>2 DEF Pos
    <2> DEFINE c == [b EXCEPT ![2] = b[2] + 1]
    <2>4. From(x, i, b) = c
        BY <1>1 DEF From
    <2>5. c \in Seq(Pos) /\ Len(c) = Len(b) /\ (\A k \in 1..Len(b) : k # 2 => c[k] = b[k]) /\ c[2] = b[2] + 1
        BY <2>1, <2>3, SecondChanged
    <2> HIDE DEF c
    <2> QED
        BY <1>1, <2>4, <2>5 DEF Shifted
<1>2. CASE ~IsLater(x, i, b)
    BY <1>2 DEF From, Shifted
<1> QED
    BY <1>1, <1>2

\* To moves it back.
LEMMA ToIs ==
    ASSUME NEW x, NEW i \in Pos, NEW b \in Seq(Pos), IsLater(x, i, b) => b[2] > i
    PROVE  Shifted(b, To(x, i, b), IF IsLater(x, i, b) THEN b[2] - 1 ELSE b[2])
<1>1. CASE IsLater(x, i, b)
    <2>1. Len(b) >= 2
        BY <1>1 DEF IsLater
    <2>2. b[2] \in Pos /\ b[2] > i
        BY <1>1, <2>1
    <2>3. b[2] - 1 \in Pos
        BY <2>2 DEF Pos
    <2> DEFINE c == [b EXCEPT ![2] = b[2] - 1]
    <2>4. To(x, i, b) = c
        BY <1>1 DEF To
    <2>5. c \in Seq(Pos) /\ Len(c) = Len(b) /\ (\A k \in 1..Len(b) : k # 2 => c[k] = b[k]) /\ c[2] = b[2] - 1
        BY <2>1, <2>3, SecondChanged
    <2> HIDE DEF c
    <2> QED
        BY <1>1, <2>4, <2>5 DEF Shifted
<1>2. CASE ~IsLater(x, i, b)
    BY <1>2 DEF To, Shifted
<1> QED
    BY <1>1, <1>2

\* What has another position as its second has the same role.
LEMMA ShiftedRole ==
    ASSUME NEW b \in Seq(Pos), NEW c, NEW z, Shifted(b, c, z)
    PROVE  Role(c) = Role(b)
<1> DEFINE n == Len(b)
<1>1. n \in Nat /\ Len(c) = n /\ c \in Seq(Pos)
    BY DEF Shifted
<1>2. \A k \in 1..n : k # 2 => c[k] = b[k]
    BY DEF Shifted
<1>3. /\ n >= 1 => c[1] = b[1]
      /\ n >= 3 => c[3] = b[3]
      /\ n >= 4 => c[4] = b[4]
      /\ n >= 5 => c[5] = b[5]
    BY <1>1, <1>2
<1> HIDE DEF n
<1>4. CASE n = 0
    BY <1>1, <1>4 DEF Role, n
<1>5. CASE n = 1
    BY <1>1, <1>3, <1>5 DEF Role, n
<1>6. CASE n = 2
    BY <1>1, <1>3, <1>6 DEF Role, n
<1>7. CASE n = 3
    BY <1>1, <1>3, <1>7 DEF Role, n
<1>8. CASE n = 4
    BY <1>1, <1>3, <1>8 DEF Role, n
<1>9. CASE n = 5
    BY <1>1, <1>3, <1>9 DEF Role, n
<1>10. CASE n \notin 0..5
    BY <1>1, <1>10 DEF Role, n
<1> QED
    BY <1>1, <1>4, <1>5, <1>6, <1>7, <1>8, <1>9, <1>10

\* Where a node was that comes to be at b: it is not removed, and comes to be there.
LEMMA FromReturns ==
    ASSUME NEW x \in Seq(Pos), Len(x) = 1, NEW i \in Pos, NEW b \in Seq(Pos)
    PROVE  ~IsPrefix(Append(x, i), From(x, i, b)) /\ To(x, i, From(x, i, b)) = b
<1> DEFINE c == From(x, i, b)
           a == Append(x, i)
           z == IF IsLater(x, i, b) THEN b[2] + 1 ELSE b[2]
<1>1. c \in Seq(Pos) /\ Len(c) = Len(b) /\ (\A k \in 1..Len(b) : k # 2 => c[k] = b[k]) /\ (Len(b) >= 2 => c[2] = z)
    BY FromIs DEF Shifted
<1>2. \A y \in Seq(Pos) : IsPrefix(a, y) <=> Len(y) >= 2 /\ y[1] = x[1] /\ y[2] = i
    BY ItemAt
<1>3. Len(b) \in Nat /\ (Len(b) >= 2 => b[1] \in Pos /\ b[2] \in Pos /\ c[1] = b[1] /\ c[2] \in Pos) /\ i \in Int /\ 1 # 2
    BY <1>1 DEF Pos
<1> HIDE DEF c, a
<1>4. ~IsPrefix(a, c)
    <2>1. SUFFICES ASSUME IsPrefix(a, c) PROVE FALSE
        OBVIOUS
    <2>2. Len(c) >= 2 /\ c[1] = x[1] /\ c[2] = i
        BY <1>1, <1>2, <2>1
    <2>3. Len(b) >= 2 /\ b[1] = x[1]
        BY <1>1, <1>3, <2>2
    <2>4. b[2] \in Int /\ z = i
        BY <1>1, <1>3, <2>2, <2>3 DEF Pos
    <2>5. IsLater(x, i, b) <=> b[2] >= i
        BY <2>3 DEF IsLater
    <2> QED
        BY <1>3, <2>4, <2>5
<1>5. IsLater(x, i, c) <=> IsLater(x, i, b)
    <2>1. CASE Len(b) >= 2
        <3>1. b[2] \in Int /\ c[2] = z /\ c[1] = b[1] /\ Len(c) >= 2
            BY <1>1, <1>3, <2>1 DEF Pos
        <3> QED
            BY <1>3, <2>1, <3>1 DEF IsLater
    <2>2. CASE ~(Len(b) >= 2)
        BY <1>1, <2>2 DEF IsLater
    <2> QED
        BY <2>1, <2>2
<1>6. To(x, i, c) = b
    <2>1. CASE IsLater(x, i, b)
        <3>1. Len(b) >= 2 /\ b[2] >= i /\ b[2] \in Int /\ c[2] = b[2] + 1
            BY <1>1, <1>3, <2>1 DEF IsLater, Pos
        <3>2. IsLater(x, i, c) /\ c[2] > i /\ c[2] - 1 = b[2]
            BY <1>3, <1>5, <2>1, <3>1
        <3>3. Shifted(c, To(x, i, c), IF IsLater(x, i, c) THEN c[2] - 1 ELSE c[2])
            BY <1>1, <3>2, ToIs
        <3> DEFINE e == To(x, i, c)
        <3>4. e \in Seq(Pos) /\ Len(e) = Len(b) /\ (\A k \in 1..Len(b) : k # 2 => e[k] = b[k]) /\ e[2] = b[2]
            BY <1>1, <3>1, <3>2, <3>3 DEF Shifted
        <3> HIDE DEF e
        <3>5. \A k \in 1..Len(e) : e[k] = b[k]
            BY <3>4
        <3>6. e = b
            BY <3>4, <3>5, SameSeq
        <3> QED
            BY <3>6 DEF e
    <2>2. CASE ~IsLater(x, i, b)
        <3>1. c = b
            BY <2>2 DEF From, c
        <3> QED
            BY <2>2, <3>1 DEF To
    <2> QED
        BY <2>1, <2>2
<1> QED
    BY <1>4, <1>6 DEF c, a

\* A node that is not removed was where it is moved from.
LEMMA ToReturns ==
    ASSUME NEW x \in Seq(Pos), Len(x) = 1, NEW i \in Pos, NEW c \in Seq(Pos), ~IsPrefix(Append(x, i), c)
    PROVE  To(x, i, c) \in Seq(Pos) /\ From(x, i, To(x, i, c)) = c
<1> DEFINE a == Append(x, i)
<1>1. \A y \in Seq(Pos) : IsPrefix(a, y) <=> Len(y) >= 2 /\ y[1] = x[1] /\ y[2] = i
    BY ItemAt
<1>2. Len(c) \in Nat /\ (Len(c) >= 2 => c[1] \in Pos /\ c[2] \in Pos) /\ i \in Int
    BY DEF Pos
<1> HIDE DEF a
<1>3. IsLater(x, i, c) => c[2] > i
    <2>1. SUFFICES ASSUME IsLater(x, i, c), ~(c[2] > i) PROVE FALSE
        OBVIOUS
    <2>2. Len(c) >= 2 /\ c[1] = x[1] /\ c[2] >= i /\ c[2] \in Int
        BY <1>2, <2>1 DEF IsLater, Pos
    <2>3. c[2] = i
        BY <1>2, <2>1, <2>2
    <2>5. IsPrefix(a, c)
        BY <1>1, <2>2, <2>3
    <2> QED
        BY <2>5 DEF a
<1>4. CASE IsLater(x, i, c)
    <2> DEFINE b == To(x, i, c)
    <2>1. Len(c) >= 2 /\ c[1] = x[1] /\ c[2] > i /\ c[2] \in Int
        BY <1>2, <1>3, <1>4 DEF IsLater, Pos
    <2>2. b \in Seq(Pos) /\ Len(b) = Len(c) /\ (\A k \in 1..Len(c) : k # 2 => b[k] = c[k]) /\ b[2] = c[2] - 1
        BY <1>3, <1>4, <2>1, ToIs DEF Shifted
    <2> HIDE DEF b
    <2>3. b[1] = c[1]
        BY <2>1, <2>2
    <2>4. IsLater(x, i, b) /\ b[2] + 1 = c[2]
        BY <1>2, <2>1, <2>2, <2>3 DEF IsLater
    <2>5. Shifted(b, From(x, i, b), IF IsLater(x, i, b) THEN b[2] + 1 ELSE b[2])
        BY <2>2, FromIs
    <2> DEFINE e == From(x, i, b)
    <2>6. e \in Seq(Pos) /\ Len(e) = Len(c) /\ (\A k \in 1..Len(c) : k # 2 => e[k] = c[k]) /\ e[2] = c[2]
        BY <2>1, <2>2, <2>4, <2>5 DEF Shifted
    <2> HIDE DEF e
    <2>7. \A k \in 1..Len(e) : e[k] = c[k]
        BY <2>6
    <2>8. e = c
        BY <2>6, <2>7, SameSeq
    <2> QED
        BY <2>2, <2>8 DEF b, e
<1>5. CASE ~IsLater(x, i, c)
    BY <1>5 DEF To, From
<1> QED
    BY <1>4, <1>5

\* The children of a node that is moved are moved with it; of the list, those from the i-th on.
LEMMA FromKid ==
    ASSUME NEW x \in Seq(Pos), Len(x) = 1, NEW i \in Pos, NEW y \in Seq(Pos), NEW j \in Pos
    PROVE  From(x, i, Append(y, j)) = Append(From(x, i, y), IF y = x /\ j >= i THEN j + 1 ELSE j)
<1> DEFINE b == Append(y, j)
           m == IF y = x /\ j >= i THEN j + 1 ELSE j
           c == From(x, i, b)
           f == From(x, i, y)
           e == Append(f, m)
           n == Len(y)
           z == IF IsLater(x, i, b) THEN b[2] + 1 ELSE b[2]
           w == IF IsLater(x, i, y) THEN y[2] + 1 ELSE y[2]
<1>1. b \in Seq(Pos) /\ Len(b) = n + 1 /\ n \in Nat /\ (\A k \in 1..n : b[k] = y[k]) /\ b[n + 1] = j
    BY KidFacts
<1>2. m \in Pos /\ i \in Int /\ j \in Int
    BY DEF Pos
<1> HIDE DEF b, m
<1>3. c \in Seq(Pos) /\ Len(c) = n + 1 /\ (\A k \in 1..(n + 1) : k # 2 => c[k] = b[k]) /\ (n + 1 >= 2 => c[2] = z)
    BY <1>1, FromIs DEF Shifted
<1>4. f \in Seq(Pos) /\ Len(f) = n /\ (\A k \in 1..n : k # 2 => f[k] = y[k]) /\ (n >= 2 => f[2] = w)
    BY FromIs DEF Shifted
<1> HIDE DEF c, f
<1>5. e \in Seq(Pos) /\ Len(e) = n + 1 /\ (\A k \in 1..n : e[k] = f[k]) /\ e[n + 1] = m
    BY <1>2, <1>4, KidFacts
<1> HIDE DEF e
<1>6. n = 1 => (y = x <=> y[1] = x[1])
    <2>1. ASSUME n = 1, y[1] = x[1] PROVE y = x
        <3>1. \A k \in 1..Len(y) : y[k] = x[k]
            BY <2>1
        <3> QED
            BY <2>1, <3>1, SameSeq
    <2> QED
        BY <2>1
<1> HIDE DEF n
<1>7. ASSUME NEW k \in 1..(n + 1) PROVE c[k] = e[k]
    <2>1. CASE n = 0
        <3>1. k = 1 /\ k # 2 /\ n + 1 = 1 /\ y # x
            BY <2>1 DEF n
        <3>2. c[k] = j /\ e[k] = m
            BY <1>1, <1>3, <1>5, <3>1
        <3> QED
            BY <3>1, <3>2 DEF m
    <2>2. CASE n = 1
        <3>1. (k = 1 \/ k = 2) /\ n + 1 = 2 /\ 1 \in 1..n
            BY <2>2
        <3>2. CASE k = 1
            BY <1>1, <1>3, <1>4, <1>5, <3>1, <3>2
        <3>3. CASE k = 2
            <4>1. b[2] = j /\ b[1] = y[1] /\ Len(b) = 2 /\ c[2] = z /\ e[2] = m
                BY <1>1, <1>3, <1>5, <2>2, <3>1
            <4>2. IsLater(x, i, b) <=> y = x /\ j >= i
                BY <1>6, <2>2, <4>1 DEF IsLater
            <4> QED
                BY <3>3, <4>1, <4>2 DEF m
        <3> QED
            BY <3>1, <3>2, <3>3
    <2>3. CASE n >= 2
        <3>1. y # x /\ m = j /\ 1 \in 1..n /\ 2 \in 1..n /\ n + 1 >= 2 /\ Len(b) >= 2
            BY <1>1, <2>3 DEF m, n
        <3>2. b[1] = y[1] /\ b[2] = y[2]
            BY <1>1, <3>1
        <3>3. IsLater(x, i, b) <=> IsLater(x, i, y)
            BY <2>3, <3>1, <3>2 DEF IsLater, n
        <3>4. CASE k = 2
            BY <1>3, <1>4, <1>5, <2>3, <3>1, <3>2, <3>3, <3>4
        <3>5. CASE k # 2 /\ k \in 1..n
            BY <1>1, <1>3, <1>4, <1>5, <3>5
        <3>6. CASE k = n + 1
            <4>1. k # 2
                BY <1>1, <2>3, <3>6
            <4> QED
                BY <1>1, <1>3, <1>5, <3>1, <3>6, <4>1
        <3> QED
            BY <1>1, <3>4, <3>5, <3>6
    <2> QED
        BY <1>1, <2>1, <2>2, <2>3
<1>8. c = e
    BY <1>3, <1>5, <1>7, SameSeq
<1> QED
    BY <1>8 DEF c, e, f, b, m

-----------------------------------------------------------------------------
(* The tree without an item *)

\* What remove_branch moves, in its terms.
LaterIn(a, b) == IsPrefix(Front(a), b) /\ Len(b) > Len(Front(a)) /\ b[Len(a)] >= Last(a)
FromIn(a, b) == IF LaterIn(a, b) THEN [b EXCEPT ![Len(a)] = @ + 1] ELSE b
ToIn(a, b) == IF LaterIn(a, b) THEN [b EXCEPT ![Len(a)] = @ - 1] ELSE b

\* remove_branch, in terms of where the nodes were.
LEMMA RemovalIs ==
    ASSUME NEW t, NEW a
    PROVE  RemoveBranch(t, a)
             = [b \in {ToIn(a, c) : c \in {c \in DOMAIN t : ~IsPrefix(a, c)}} |-> t[FromIn(a, b)]]
BY DEF RemoveBranch, LaterIn, FromIn, ToIn

\* Of an item, that is what has just been said of one.
LEMMA InIs ==
    ASSUME NEW x \in Seq(Pos), Len(x) = 1, NEW i \in Pos, NEW b \in Seq(Pos)
    PROVE  FromIn(Append(x, i), b) = From(x, i, b) /\ ToIn(Append(x, i), b) = To(x, i, b)
<1> DEFINE a == Append(x, i)
<1>1. Front(a) = x /\ Last(a) = i /\ Len(a) = 2
    BY KidFacts, ItemAt
<1> HIDE DEF a
<1>2. Len(b) \in Nat
    OBVIOUS
<1>3. IsPrefix(x, b) <=> Len(b) >= 1 /\ x[1] = b[1]
    <2>1. IsPrefix(x, b) <=> Len(x) <= Len(b) /\ \A k \in 1..Len(x) : x[k] = b[k]
        BY PrefixIs
    <2>2. (\A k \in 1..1 : x[k] = b[k]) <=> x[1] = b[1]
        <3>1. 1 \in 1..1 /\ \A k \in 1..1 : k = 1
            OBVIOUS
        <3> QED
            BY <3>1
    <2> QED
        BY <1>2, <2>1, <2>2
<1>4. LaterIn(a, b) <=> IsLater(x, i, b)
    BY <1>1, <1>2, <1>3 DEF LaterIn, IsLater
<1>5. FromIn(a, b) = From(x, i, b)
    BY <1>1, <1>4 DEF FromIn, From
<1>6. ToIn(a, b) = To(x, i, b)
    BY <1>1, <1>4 DEF ToIn, To
<1> QED
    BY <1>5, <1>6 DEF a

\* A tree without the i-th item of the list x: a node is what it was before it moved.
Without(t, x, i, v) ==
    /\ v = [b \in DOMAIN v |-> v[b]] /\ IsFiniteSet(DOMAIN v) /\ DOMAIN v \subseteq Seq(Pos)
    /\ \A b \in Seq(Pos) : b \in DOMAIN v <=> From(x, i, b) \in DOMAIN t
    /\ \A b \in DOMAIN v : v[b] = t[From(x, i, b)]

\* remove_branch of an item.
LEMMA BranchRemoved ==
    ASSUME NEW t, Rooted(DOMAIN t), NEW x \in Seq(Pos), Len(x) = 1, NEW i \in Pos
    PROVE  Without(t, x, i, RemoveBranch(t, Append(x, i)))
<1> DEFINE a == Append(x, i)
           C == {c \in DOMAIN t : ~IsPrefix(a, c)}
           D == {ToIn(a, c) : c \in C}
           v == RemoveBranch(t, a)
<1>1. v = [b \in D |-> t[FromIn(a, b)]]
    BY RemovalIs
<1>2. C \subseteq Seq(Pos) /\ IsFiniteSet(DOMAIN t) /\ C \subseteq DOMAIN t
    BY DEF Rooted, Places
<1>3. \A b \in Seq(Pos) : FromIn(a, b) = From(x, i, b) /\ ToIn(a, b) = To(x, i, b)
    BY InIs
<1>4. \A c \in Seq(Pos) : ~IsPrefix(a, c) => To(x, i, c) \in Seq(Pos) /\ From(x, i, To(x, i, c)) = c
    BY ToReturns
<1>5. \A b \in Seq(Pos) : ~IsPrefix(a, From(x, i, b)) /\ To(x, i, From(x, i, b)) = b
    BY FromReturns
<1>6. \A b \in Seq(Pos) : From(x, i, b) \in Seq(Pos)
    BY FromIs DEF Shifted
<1>7. \A c \in C : ~IsPrefix(a, c) /\ c \in DOMAIN t
    OBVIOUS
<1>8. \A c \in DOMAIN t : ~IsPrefix(a, c) => c \in C
    OBVIOUS
<1> HIDE DEF a, C
<1>9. D \subseteq Seq(Pos)
    BY <1>2, <1>3, <1>4, <1>7
<1>10. ASSUME NEW b \in Seq(Pos) PROVE b \in D <=> From(x, i, b) \in DOMAIN t
    <2>1. ASSUME b \in D PROVE From(x, i, b) \in DOMAIN t
        <3>1. PICK c \in C : b = ToIn(a, c)
            BY <2>1
        <3>2. b = To(x, i, c) /\ c \in Seq(Pos) /\ From(x, i, To(x, i, c)) = c
            BY <1>2, <1>3, <1>4, <1>7, <3>1
        <3> QED
            BY <1>7, <3>2
    <2>2. ASSUME From(x, i, b) \in DOMAIN t PROVE b \in D
        <3>1. From(x, i, b) \in C /\ From(x, i, b) \in Seq(Pos)
            BY <1>5, <1>6, <1>8, <2>2
        <3>2. ToIn(a, From(x, i, b)) = b
            BY <1>3, <1>5, <3>1
        <3> QED
            BY <3>1, <3>2
    <2> QED
        BY <2>1, <2>2
<1>11. IsFiniteSet(D)
    <2> DEFINE f == [c \in C |-> ToIn(a, c)]
    <2>1. IsFiniteSet(C)
        BY <1>2, FS_Subset
    <2>2. D = {f[c] : c \in C}
        OBVIOUS
    <2> HIDE DEF f
    <2>3. IsFiniteSet({f[c] : c \in C})
        BY <2>1, ImageIsFinite
    <2> QED
        BY <2>2, <2>3
<1> HIDE DEF D
<1>12. DOMAIN v = D /\ v = [b \in DOMAIN v |-> v[b]] /\ \A b \in D : v[b] = t[FromIn(a, b)]
    BY <1>1
<1> HIDE DEF v
<1>13. \A b \in D : v[b] = t[From(x, i, b)]
    BY <1>3, <1>9, <1>12
<1>14. Without(t, x, i, v)
    BY <1>9, <1>10, <1>11, <1>12, <1>13 DEF Without
<1> QED
    BY <1>14 DEF v, a

\* Where the nodes were that now are at the beginning of the tree.
LEMMA FromFacts ==
    ASSUME NEW x \in Seq(Pos), Len(x) = 1, NEW i \in Pos
    PROVE  /\ From(x, i, Root) = Root /\ From(x, i, x) = x
           /\ \A b \in Seq(Pos) : From(x, i, b) \in Seq(Pos) /\ Role(From(x, i, b)) = Role(b)
           /\ \A b \in Seq(Pos) \ {Root} : From(x, i, b) # Root /\ Front(From(x, i, b)) = From(x, i, Front(b))
<1>1. Len(Root) = 0
    BY DEF Root
<1>2. From(x, i, Root) = Root /\ From(x, i, x) = x
    BY <1>1 DEF From, IsLater
<1>3. \A b \in Seq(Pos) : From(x, i, b) \in Seq(Pos) /\ Role(From(x, i, b)) = Role(b)
    <2>1. ASSUME NEW b \in Seq(Pos) PROVE From(x, i, b) \in Seq(Pos) /\ Role(From(x, i, b)) = Role(b)
        <3>1. Shifted(b, From(x, i, b), IF IsLater(x, i, b) THEN b[2] + 1 ELSE b[2])
            BY FromIs
        <3> DEFINE z == IF IsLater(x, i, b) THEN b[2] + 1 ELSE b[2]
        <3> HIDE DEF z
        <3>2. Shifted(b, From(x, i, b), z)
            BY <3>1 DEF z
        <3>3. Role(From(x, i, b)) = Role(b)
            BY <3>2, ShiftedRole
        <3> QED
            BY <3>2, <3>3 DEF Shifted
    <2> QED
        BY <2>1
<1>4. ASSUME NEW b \in Seq(Pos), b # Root
      PROVE  From(x, i, b) # Root /\ Front(From(x, i, b)) = From(x, i, Front(b))
    <2> DEFINE y == Front(b)
               j == Last(b)
               m == IF y = x /\ j >= i THEN j + 1 ELSE j
    <2>1. y \in Seq(Pos) /\ j \in Pos /\ b = Append(y, j)
        BY <1>4, Parent
    <2> HIDE DEF y, j
    <2>2. From(x, i, Append(y, j)) = Append(From(x, i, y), m)
        BY <2>1, FromKid
    <2>3. m \in Pos
        BY <2>1 DEF Pos
    <2> HIDE DEF m
    <2>4. From(x, i, y) \in Seq(Pos)
        BY <1>3, <2>1
    <2>5. Append(From(x, i, y), m) # Root /\ Front(Append(From(x, i, y), m)) = From(x, i, y)
        BY <2>3, <2>4, KidFacts
    <2>6. From(x, i, b) = Append(From(x, i, y), m)
        BY <2>1, <2>2
    <2> QED
        BY <2>5, <2>6 DEF y
<1> QED
    BY <1>2, <1>3, <1>4

\* Without an item, a tree keeps its shape.
LEMMA ShapeRemoved ==
    ASSUME NEW t, Shape(t), NEW x \in DOMAIN t, Len(x) = 1, Role(x) \in {"specs", "instances"}, NEW i \in Pos,
           NEW v, Without(t, x, i, v)
    PROVE  Shape(v) /\ Root \in DOMAIN v /\ v[Root] = t[Root] /\ x \in DOMAIN v /\ (Plain(t, Root) => Plain(v, Root))
<1>1. x \in Seq(Pos) /\ Rooted(DOMAIN t)
    BY DEF Shape, Rooted, Places
<1>2. /\ From(x, i, Root) = Root /\ From(x, i, x) = x
      /\ \A b \in Seq(Pos) : From(x, i, b) \in Seq(Pos) /\ Role(From(x, i, b)) = Role(b)
      /\ \A b \in Seq(Pos) \ {Root} : From(x, i, b) # Root /\ Front(From(x, i, b)) = From(x, i, Front(b))
    BY <1>1, FromFacts
<1>3. /\ v = [b \in DOMAIN v |-> v[b]] /\ IsFiniteSet(DOMAIN v) /\ DOMAIN v \subseteq Seq(Pos)
      /\ \A b \in Seq(Pos) : b \in DOMAIN v <=> From(x, i, b) \in DOMAIN t
      /\ \A b \in DOMAIN v : v[b] = t[From(x, i, b)]
    BY DEF Without
<1>4. Root \in Seq(Pos) /\ Root \in DOMAIN v /\ x \in DOMAIN v /\ v[Root] = t[Root]
    <2>1. Root \in Seq(Pos) /\ Root \in DOMAIN t
        BY <1>1, RoleFacts DEF Places, Rooted
    <2> QED
        BY <1>1, <1>2, <1>3, <2>1
<1>5. \A b \in DOMAIN v : From(x, i, b) \in DOMAIN t
    BY <1>3
<1>6. \A b \in DOMAIN v \ {Root} : Front(b) \in DOMAIN v /\ From(x, i, Front(b)) = Front(From(x, i, b))
    <2>1. ASSUME NEW b \in DOMAIN v \ {Root} PROVE Front(b) \in DOMAIN v /\ From(x, i, Front(b)) = Front(From(x, i, b))
        <3>1. b \in Seq(Pos) /\ b # Root /\ Front(b) \in Seq(Pos)
            BY <1>3, Parent
        <3>2. From(x, i, b) # Root /\ Front(From(x, i, b)) = From(x, i, Front(b)) /\ From(x, i, b) \in DOMAIN t
            BY <1>2, <1>5, <3>1
        <3>3. Front(From(x, i, b)) \in DOMAIN t
            BY <1>1, <3>2 DEF Rooted
        <3> QED
            BY <1>3, <3>1, <3>2, <3>3
    <2> QED
        BY <2>1
<1>7. ASSUME NEW c \in DOMAIN v, NEW j \in Pos, j > 1, Append(c, j) \in DOMAIN v
      PROVE  Append(c, j - 1) \in DOMAIN v
    <2>1. c \in Seq(Pos) /\ j - 1 \in Pos
        BY <1>3, <1>7 DEF Pos
    <2>2. Append(c, j - 1) \in Seq(Pos)
        BY <2>1, KidFacts
    <2> DEFINE f == From(x, i, c)
               m == IF c = x /\ j >= i THEN j + 1 ELSE j
               k == IF c = x /\ j - 1 >= i THEN (j - 1) + 1 ELSE j - 1
    <2>3. f \in DOMAIN t
        BY <1>5
    <2>4. From(x, i, Append(c, j)) = Append(f, m) /\ From(x, i, Append(c, j - 1)) = Append(f, k)
        BY <1>1, <2>1, FromKid
    <2>5. Append(f, m) \in DOMAIN t
        BY <1>5, <1>7, <2>4
    <2> HIDE DEF f
    <2>6. \A n \in Pos : n > 1 /\ Append(f, n) \in DOMAIN t => Append(f, n - 1) \in DOMAIN t
        BY <1>1, <2>3 DEF Rooted
    <2>7. Append(f, k) \in DOMAIN t
        <3>1. j \in Int /\ i \in Int
            BY DEF Pos
        <3>2. m \in Pos /\ m > 1
            BY <1>7, <3>1 DEF Pos
        <3>3. Append(f, m - 1) \in DOMAIN t
            <4> HIDE DEF m
            <4> QED
                BY <2>5, <2>6, <3>2
        <3>4. k = m - 1 \/ k = (m - 1) - 1
            BY <3>1
        <3>5. k = (m - 1) - 1 => (m - 1) \in Pos /\ m - 1 > 1
            BY <1>7, <3>1 DEF Pos
        <3> HIDE DEF m, k
        <3> QED
            BY <2>6, <3>3, <3>4, <3>5
    <2> QED
        BY <1>3, <2>2, <2>4, <2>7
<1>8. Rooted(DOMAIN v)
    <2>1. DOMAIN v \subseteq Places
        BY <1>1, <1>2, <1>3, <1>5 DEF Rooted, Places
    <2> QED
        BY <1>3, <1>4, <1>6, <1>7, <2>1 DEF Rooted
<1>9. v \in [DOMAIN v -> Node]
    BY <1>3, <1>5 DEF Shape
<1>10. \A b \in DOMAIN v : InRole(v, b)
    <2>1. ASSUME NEW b \in DOMAIN v PROVE InRole(v, b)
        <3> DEFINE c == From(x, i, b)
        <3>1. c \in DOMAIN t /\ Role(c) = Role(b) /\ v[b] = t[c]
            BY <1>2, <1>3, <1>5
        <3> HIDE DEF c
        <3>2. InRole(t, c)
            BY <3>1 DEF Shape
        <3> QED
            BY <3>1, <3>2 DEF InRole
    <2> QED
        BY <2>1
<1>11. \A b \in DOMAIN v \ {Root} : Placed(v, b)
    <2>1. ASSUME NEW b \in DOMAIN v \ {Root} PROVE Placed(v, b)
        <3> DEFINE c == From(x, i, b)
        <3>1. c \in DOMAIN t /\ Role(c) = Role(b) /\ v[b] = t[c] /\ c # Root
            BY <1>2, <1>3, <1>5
        <3>2. v[Front(b)] = t[Front(c)] /\ Front(b) \in Seq(Pos) /\ Front(c) = From(x, i, Front(b))
            BY <1>3, <1>6
        <3>3. Role(Front(c)) = Role(Front(b))
            BY <1>2, <3>2
        <3> HIDE DEF c
        <3>4. Placed(t, c)
            BY <3>1 DEF Shape
        <3> QED
            BY <3>1, <3>2, <3>3, <3>4 DEF Placed
    <2> QED
        BY <2>1
<1>12. ASSUME NEW c \in DOMAIN v, Role(c) \in {"system", "spec"}, Append(c, 1) \in DOMAIN v
       PROVE  Append(c, 2) \in DOMAIN v
    <2>1. c \in Seq(Pos) /\ 1 \in Pos /\ 2 \in Pos /\ c # x
        BY <1>3, <1>12 DEF Pos
    <2>2. From(x, i, Append(c, 1)) = Append(From(x, i, c), 1) /\ From(x, i, Append(c, 2)) = Append(From(x, i, c), 2)
        BY <1>1, <2>1, FromKid
    <2>3. From(x, i, c) \in DOMAIN t /\ Role(From(x, i, c)) = Role(c) /\ Append(From(x, i, c), 1) \in DOMAIN t
        BY <1>2, <1>3, <1>5, <1>12, <2>1, <2>2
    <2>4. Append(From(x, i, c), 2) \in DOMAIN t
        BY <1>12, <2>3 DEF Shape
    <2>5. Append(c, 2) \in Seq(Pos)
        BY <2>1, KidFacts
    <2> QED
        BY <1>3, <2>2, <2>4, <2>5
<1>13. Shape(v)
    <2>1. v[Root].defn = "system"
        BY <1>4 DEF Shape
    <2> QED
        BY <1>8, <1>9, <1>10, <1>11, <1>12, <2>1 DEF Shape
<1>14. ASSUME Plain(t, Root) PROVE Plain(v, Root)
    <2>1. t[Root].defn = "system"
        BY DEF Shape
    <2>2. 1 \in Pos /\ 2 \in Pos /\ Root # x
        <3>1. Role(Root) = "system"
            BY RoleFacts
        <3> QED
            BY <3>1 DEF Pos
    <2>3. From(x, i, Append(Root, 1)) = Append(Root, 1) /\ From(x, i, Append(Root, 2)) = Append(Root, 2)
        <3>1. ASSUME NEW j \in Pos PROVE From(x, i, Append(Root, j)) = Append(Root, j)
            <4>1. From(x, i, Append(Root, j)) = Append(From(x, i, Root), IF Root = x /\ j >= i THEN j + 1 ELSE j)
                BY <1>1, <1>4, FromKid
            <4> QED
                BY <1>2, <2>2, <4>1
        <3> QED
            BY <2>2, <3>1
    <2>4. Append(Root, 1) \in Seq(Pos) /\ Append(Root, 2) \in Seq(Pos)
        BY <1>4, <2>2, KidFacts
    <2>5. Append(Root, 1) \in DOMAIN t /\ Append(Root, 2) \in DOMAIN t
        BY <1>14, <2>1 DEF Plain
    <2>6. Append(Root, 1) \in DOMAIN v /\ Append(Root, 2) \in DOMAIN v
        BY <1>3, <2>3, <2>4, <2>5
    <2> QED
        BY <1>4, <1>14, <2>1, <2>6 DEF Plain
<1> QED
    BY <1>4, <1>13, <1>14

\* An item is removed, and all is updated.
LEMMA RemoveItemKeeps ==
    ASSUME TreeInv, NEW i \in 1..ChildCount(tree, nav), RemoveItem(i)
    PROVE  TreeInv'
<1> DEFINE t == RemoveBranch(tree, Append(nav, i))
<1>1. editor = "editing" /\ IsList /\ Reload(t)
    BY DEF RemoveItem
<1>2. Shape(tree) /\ Plain(tree, Root) /\ Rooted(DOMAIN tree)
    BY <1>1, RootCurrent DEF Shape
<1>3. nav \in DOMAIN tree /\ nav \in Seq(Pos) /\ Len(nav) = 1 /\ Role(nav) \in {"specs", "instances"}
    BY <1>1, AtList
<1>4. i \in Pos
    <2>1. ChildCount(tree, nav) \in Nat
        BY <1>2, <1>3, KidsCounted
    <2> QED
        BY <2>1 DEF Pos
<1>5. Without(tree, nav, i, t)
    BY <1>2, <1>3, <1>4, BranchRemoved
<1> HIDE DEF t
<1>6. Shape(t) /\ Plain(t, Root) /\ nav \in DOMAIN t
    BY <1>2, <1>3, <1>4, <1>5, ShapeRemoved
<1> QED
    BY <1>1, <1>6, ReloadKeeps

-----------------------------------------------------------------------------
(* A reset: what is below a node is taken away, and its value *)

\* Below a node is what its definition leads to.
LEMMA BelowReached ==
    ASSUME NEW t, Shape(t), NEW a \in DOMAIN t, NEW b \in DOMAIN t, IsPrefix(a, b)
    PROVE  Role(b) \in Reached(Role(a)) /\ (b # a => b \in Below(t, a))
<1>1. a \in Seq(Pos) /\ b \in Seq(Pos) /\ Rooted(DOMAIN t) /\ a \in Places /\ b \in Places
    BY DEF Shape, Rooted, Places
<1> DEFINE n == Len(a)
           m == Len(b) - n
           P == {k \in Nat : Role(Pre(b, n + k)) \in Reached(Role(a))}
<1>2. n \in Nat /\ m \in Nat /\ n + m = Len(b) /\ Len(b) \in Nat
    BY <1>1 DEF IsPrefix
<1>3. Pre(b, n) = a
    <2>1. SubSeq(a, 1, n) = SubSeq(b, 1, n)
        BY DEF IsPrefix
    <2>2. Pre(a, n) = a
        BY <1>1, PreFacts
    <2> QED
        BY <2>1, <2>2 DEF Pre
<1>4. Role(a) \in Roles
    BY <1>1, RoleFacts
<1> HIDE DEF n, m
<1>5. 0 \in P
    <2>1. Role(a) \in Reached(Role(a)) /\ n + 0 = n
        BY <1>2, <1>4, ReachFacts
    <2> QED
        BY <1>3, <2>1
<1>6. ASSUME NEW k \in 0..(m - 1), k \in P PROVE k + 1 \in P
    <2> DEFINE c == Pre(b, n + (k + 1))
               j == b[n + (k + 1)]
    <2>1. n + (k + 1) \in 1..Len(b) /\ n + (k + 1) \in 0..Len(b) /\ (n + (k + 1)) - 1 = n + k
        BY <1>2
    <2>2. c \in DOMAIN t /\ c # Root /\ Front(c) = Pre(b, n + k) /\ Last(c) = j
        BY <1>1, <2>1, WayIsThere, PreFacts
    <2>3. c \in Places
        BY <1>1, <2>2 DEF Rooted
    <2> HIDE DEF c, j
    <2>4. Role(c) = PartAt(Role(Front(c)), Last(c)) /\ Last(c) \in Pos /\ Role(c) # NoDefn
        BY <2>2, <2>3, PlaceParent DEF Places
    <2>5. Role(Front(c)) \in Reached(Role(a))
        BY <1>6, <2>2
    <2>6. Role(c) \in Reached(Role(a))
        BY <1>4, <2>4, <2>5, ReachFacts
    <2>7. k + 1 \in Nat
        OBVIOUS
    <2> QED
        BY <2>6, <2>7 DEF c
<1>7. m \in P
    <2> HIDE DEF P
    <2>1. \A k \in 0..(m - 1) : k \in P => k + 1 \in P
        BY <1>6
    <2>2. \A k \in 0..m : k \in P
        BY <1>2, <1>5, <2>1, CountingUp
    <2> QED
        BY <1>2, <2>2
<1>8. Pre(b, n + m) = b
    BY <1>1, <1>2, PreFacts
<1>9. Role(b) \in Reached(Role(a))
    BY <1>7, <1>8
<1>10. b # a => b \in Below(t, a)
    BY DEF Below, IsStrictPrefix
<1> QED
    BY <1>9, <1>10

\* What is below the node a, of an address and its children.
LEMMA BelowAre ==
    ASSUME NEW a \in Seq(Pos), NEW b \in Seq(Pos)
    PROVE  /\ ~IsStrictPrefix(a, a)
           /\ ~IsStrictPrefix(a, Root)
           /\ IsPrefix(a, b) <=> b = a \/ IsStrictPrefix(a, b)
           /\ \A j \in Pos : IsStrictPrefix(a, Append(b, j)) <=> IsPrefix(a, b)
<1>1. IsPrefix(a, a)
    BY DEF IsPrefix
<1>2. ~IsStrictPrefix(a, a) /\ (IsPrefix(a, b) <=> b = a \/ IsStrictPrefix(a, b))
    BY <1>1 DEF IsStrictPrefix
<1>3. ~IsStrictPrefix(a, Root)
    <2>1. SUFFICES ASSUME IsPrefix(a, Root), a # Root PROVE FALSE
        BY DEF IsStrictPrefix
    <2>2. Len(a) <= 0 /\ Len(a) \in Nat
        BY <2>1 DEF IsPrefix, Root
    <2>3. Len(a) \in Pos
        BY <2>1, Parent
    <2> QED
        BY <2>2, <2>3 DEF Pos
<1>4. ASSUME NEW j \in Pos PROVE IsStrictPrefix(a, Append(b, j)) <=> IsPrefix(a, b)
    <2> DEFINE c == Append(b, j)
               m == Len(b)
               n == Len(a)
    <2>1. c \in Seq(Pos) /\ Len(c) = m + 1 /\ (\A k \in 1..m : c[k] = b[k])
        BY KidFacts
    <2>2. m \in Nat /\ n \in Nat
        OBVIOUS
    <2> HIDE DEF c
    <2>3. IsPrefix(a, c) <=> n <= m + 1 /\ \A k \in 1..n : a[k] = c[k]
        BY <2>1, PrefixIs
    <2>4. IsPrefix(a, b) <=> n <= m /\ \A k \in 1..n : a[k] = b[k]
        BY PrefixIs
    <2>5. a = c <=> n = m + 1 /\ \A k \in 1..n : a[k] = c[k]
        <3>1. ASSUME n = m + 1, \A k \in 1..n : a[k] = c[k] PROVE a = c
            BY <2>1, <3>1, SameSeq
        <3> QED
            BY <2>1, <3>1
    <2> HIDE DEF n, m
    <2>6. IsPrefix(a, c) /\ a # c <=> n <= m /\ \A k \in 1..n : a[k] = c[k]
        BY <2>2, <2>3, <2>5
    <2>7. n <= m => \A k \in 1..n : c[k] = b[k]
        <3>1. ASSUME n <= m, NEW k \in 1..n PROVE c[k] = b[k]
            <4>1. k \in 1..m
                BY <2>2, <3>1
            <4> QED
                BY <2>1, <4>1
        <3> QED
            BY <3>1
    <2>8. IsPrefix(a, c) /\ a # c <=> IsPrefix(a, b)
        BY <2>4, <2>6, <2>7
    <2> QED
        BY <2>8 DEF IsStrictPrefix, c
<1> QED
    BY <1>2, <1>3, <1>4

\* The tree without what is below a, and without a's value.
Cleared(t, a, v) ==
    /\ v = [b \in DOMAIN v |-> v[b]]
    /\ DOMAIN v = DOMAIN t \ Below(t, a) /\ a \in DOMAIN v
    /\ \A b \in DOMAIN v \ {a} : v[b] = t[b]
    /\ v[a] = [edge |-> t[a].edge, defn |-> t[a].defn, schema |-> t[a].schema, data |-> NoValue]

\* clear_children, and the value cleared.
LEMMA ClearedIs ==
    ASSUME NEW t, Shape(t), NEW a \in DOMAIN t
    PROVE  Cleared(t, a, [ClearChildren(t, a) EXCEPT ![a].data = NoValue])
<1> DEFINE u == ClearChildren(t, a)
           v == [u EXCEPT ![a].data = NoValue]
<1>1. u = [b \in DOMAIN t \ Below(t, a) |-> t[b]]
    BY DEF ClearChildren
<1>2. a \in Seq(Pos)
    BY DEF Shape, Rooted, Places
<1>3. a \in DOMAIN t \ Below(t, a)
    BY <1>2, BelowAre DEF Below
<1>4. t[a] = [edge |-> t[a].edge, defn |-> t[a].defn, schema |-> t[a].schema, data |-> t[a].data]
    BY DEF Shape, Node
<1>5. DOMAIN u = DOMAIN t \ Below(t, a) /\ \A b \in DOMAIN u : u[b] = t[b]
    BY <1>1
<1> HIDE DEF u
<1>6. v = [b \in DOMAIN v |-> v[b]] /\ DOMAIN v = DOMAIN u /\ (\A b \in DOMAIN u \ {a} : v[b] = u[b])
    <2>1. v = [b \in DOMAIN u |-> IF b = a THEN [u[a] EXCEPT !.data = NoValue] ELSE u[b]]
        OBVIOUS
    <2> HIDE DEF v
    <2> QED
        BY <2>1
<1>7. v[a] = [u[a] EXCEPT !.data = NoValue]
    BY <1>3, <1>5
<1> HIDE DEF v
<1>8. v[a] = [edge |-> t[a].edge, defn |-> t[a].defn, schema |-> t[a].schema, data |-> NoValue]
    BY <1>3, <1>4, <1>5, <1>7
<1>9. Cleared(t, a, v)
    BY <1>3, <1>5, <1>6, <1>8 DEF Cleared
<1> QED
    BY <1>9 DEF v, u

\* What remains is a tree.
LEMMA ClearedShape ==
    ASSUME NEW t, Shape(t), NEW a \in DOMAIN t, NEW v, Cleared(t, a, v)
    PROVE  /\ Shape(v) /\ DOMAIN v \subseteq DOMAIN t
           /\ \A b \in DOMAIN v : v[b].edge = t[b].edge /\ v[b].defn = t[b].defn /\ v[b].schema = t[b].schema
           /\ \A b \in DOMAIN v, j \in Pos : b # a /\ Append(b, j) \in DOMAIN t => Append(b, j) \in DOMAIN v
<1>1. Rooted(DOMAIN t) /\ a \in Seq(Pos) /\ DOMAIN t \subseteq Seq(Pos)
    BY DEF Shape, Rooted, Places
<1>2. /\ DOMAIN v = DOMAIN t \ Below(t, a) /\ DOMAIN v \subseteq DOMAIN t /\ a \in DOMAIN v
      /\ \A b \in DOMAIN v \ {a} : v[b] = t[b]
      /\ v[a].edge = t[a].edge /\ v[a].defn = t[a].defn /\ v[a].schema = t[a].schema /\ v[a].data = NoValue
    BY DEF Cleared
<1>3. \A b \in DOMAIN v : v[b].edge = t[b].edge /\ v[b].defn = t[b].defn /\ v[b].schema = t[b].schema
    BY <1>2
<1>4. \A b \in DOMAIN t : b \in DOMAIN v <=> ~IsStrictPrefix(a, b)
    BY <1>2 DEF Below
<1>5. ASSUME NEW b \in DOMAIN t \ {Root}, b \in DOMAIN v PROVE Front(b) \in DOMAIN v
    <2>1. Front(b) \in Seq(Pos) /\ Last(b) \in Pos /\ b = Append(Front(b), Last(b)) /\ Front(b) \in DOMAIN t
        BY <1>1, Parent DEF Rooted
    <2>2. ~IsPrefix(a, Front(b))
        <3>1. ~IsStrictPrefix(a, b)
            BY <1>4, <1>5
        <3>2. \A j \in Pos : IsStrictPrefix(a, Append(Front(b), j)) <=> IsPrefix(a, Front(b))
            BY <1>1, <2>1, BelowAre
        <3>3. IsStrictPrefix(a, Append(Front(b), Last(b))) <=> IsPrefix(a, Front(b))
            BY <2>1, <3>2
        <3> QED
            BY <2>1, <3>1, <3>3, Zenon
    <2> QED
        BY <1>4, <2>1, <2>2 DEF IsStrictPrefix
<1>6. ASSUME NEW b \in DOMAIN v, NEW j \in Pos, b # a, Append(b, j) \in DOMAIN t PROVE Append(b, j) \in DOMAIN v
    <2>1. b \in Seq(Pos) /\ ~IsStrictPrefix(a, b)
        BY <1>1, <1>2, <1>4
    <2>2. ~IsPrefix(a, b)
        BY <1>1, <1>6, <2>1, BelowAre
    <2>3. ~IsStrictPrefix(a, Append(b, j))
        BY <1>1, <2>1, <2>2, BelowAre
    <2> QED
        BY <1>4, <1>6, <2>3
<1>7. \A j \in Pos : Append(a, j) \notin DOMAIN v
    BY <1>1, <1>2, <1>4, BelowAre
<1>8. Rooted(DOMAIN v)
    <2>1. IsFiniteSet(DOMAIN v)
        BY <1>1, <1>2, FS_Subset DEF Rooted
    <2>2. Root \in DOMAIN v
        BY <1>1, <1>4, BelowAre DEF Rooted
    <2>3. ASSUME NEW b \in DOMAIN v, NEW j \in Pos, j > 1, Append(b, j) \in DOMAIN v PROVE Append(b, j - 1) \in DOMAIN v
        <3>1. b # a
            BY <1>7, <2>3
        <3>2. j - 1 \in Pos
            BY <2>3 DEF Pos
        <3>3. Append(b, j - 1) \in DOMAIN t
            BY <1>1, <1>2, <2>3 DEF Rooted
        <3> QED
            BY <1>6, <3>1, <3>2, <3>3
    <2> QED
        BY <1>1, <1>2, <1>5, <2>1, <2>2, <2>3 DEF Rooted
<1>9. NoValue \in [type : Kinds \cup {"none"}, strings : SUBSET Text] /\ NoValue.type = "none"
    BY DEF NoValue, Value
<1>10. v \in [DOMAIN v -> Node]
    <2>1. t[a] \in Node
        BY DEF Shape
    <2>2. v[a] \in Node
        <3>1. v[a] = [edge |-> t[a].edge, defn |-> t[a].defn, schema |-> t[a].schema, data |-> NoValue]
            BY DEF Cleared
        <3> QED
            BY <1>9, <2>1, <3>1 DEF Node
    <2>3. \A b \in DOMAIN v : v[b] \in Node
        BY <1>2, <2>2 DEF Shape
    <2> QED
        BY <2>3 DEF Cleared
<1>11. \A b \in DOMAIN v : InRole(v, b)
    <2>1. ASSUME NEW b \in DOMAIN v PROVE InRole(v, b)
        <3>1. InRole(t, b)
            BY <1>2 DEF Shape
        <3>2. v[b].data = t[b].data \/ v[b].data.type = "none"
            BY <1>2, <1>9
        <3> QED
            BY <1>3, <3>1, <3>2 DEF InRole
    <2> QED
        BY <2>1
<1>12. \A b \in DOMAIN v \ {Root} : Placed(v, b)
    <2>1. ASSUME NEW b \in DOMAIN v \ {Root} PROVE Placed(v, b)
        <3>1. Placed(t, b) /\ Front(b) \in DOMAIN v
            BY <1>2, <1>5 DEF Shape
        <3> QED
            BY <1>3, <3>1 DEF Placed
    <2> QED
        BY <2>1
<1>13. ASSUME NEW c \in DOMAIN v, Role(c) \in {"system", "spec"}, Append(c, 1) \in DOMAIN v
       PROVE  Append(c, 2) \in DOMAIN v
    <2>1. 1 \in Pos /\ 2 \in Pos
        BY DEF Pos
    <2>2. c # a
        BY <1>7, <1>13, <2>1
    <2>3. Append(c, 2) \in DOMAIN t
        BY <1>2, <1>13 DEF Shape
    <2> QED
        BY <1>6, <2>1, <2>2, <2>3
<1>14. Shape(v)
    <2>1. v[Root].defn = "system"
        BY <1>3, <1>8 DEF Shape, Rooted
    <2> QED
        BY <1>8, <1>10, <1>11, <1>12, <1>13, <2>1 DEF Shape
<1> QED
    BY <1>2, <1>3, <1>6, <1>14

\* What is below a node that has a definition is updated with it; below one that has none
\* there is nothing definite that another refers to, unless that has been cut off.
LEMMA ResetReaches ==
    ASSUME NEW t, Shape(t), NEW a \in DOMAIN t, t[a].defn = NoDefn => Below(t, a) = {},
           NEW c \in DOMAIN t, IsPrefix(a, c), t[c].defn # NoDefn
    PROVE  Role(c) \in DsOf(t, a)
<1>1. t[a].defn # NoDefn
    <2>1. SUFFICES ASSUME t[a].defn = NoDefn PROVE FALSE
        OBVIOUS
    <2>2. c # a
        BY <2>1
    <2>3. c \in Below(t, a)
        BY <2>2, BelowReached
    <2> QED
        BY <2>1, <2>3
<1>2. t[a].defn = Role(a)
    BY <1>1 DEF Shape, InRole
<1>3. Role(c) \in Reached(Role(a))
    BY BelowReached
<1> QED
    BY <1>1, <1>2, <1>3 DEF DsOf

\* Of the nodes that a reset does not update, each is as current as it was.
LEMMA ClearedCurrent ==
    ASSUME NEW t, Shape(t), NEW a \in DOMAIN t, NEW v, Cleared(t, a, v), Shape(v),
           NEW was, NEW sure,
           sure => ~SpecsStale(v) /\ (t[a].defn = NoDefn => Below(t, a) = {}) /\ (~SpecsStale(t) => was),
           \A b \in DOMAIN t : t[b].defn # NoDefn => Current(t, b, was),
           NEW b \in DOMAIN v, v[b].defn # NoDefn, v[b].defn \notin DsOf(v, a)
    PROVE  Current(v, b, sure)
<1>1. /\ DOMAIN v \subseteq DOMAIN t
      /\ \A c \in DOMAIN v : v[c].edge = t[c].edge /\ v[c].defn = t[c].defn /\ v[c].schema = t[c].schema
      /\ \A c \in DOMAIN v, j \in Pos : c # a /\ Append(c, j) \in DOMAIN t => Append(c, j) \in DOMAIN v
    BY ClearedShape
<1>2. /\ a \in DOMAIN v /\ DOMAIN v = DOMAIN t \ Below(t, a)
      /\ \A c \in DOMAIN v \ {a} : v[c] = t[c]
    BY DEF Cleared
<1>3. DsOf(v, a) = DsOf(t, a)
    BY <1>1, <1>2 DEF DsOf
<1>4. v[a].defn # NoDefn => v[a].defn \in DsOf(v, a)
    <2>1. v[a].defn # NoDefn => v[a].defn \in Roles
        BY <1>2 DEF Shape, Node
    <2> QED
        BY <2>1, ReachFacts DEF DsOf
<1>5. b # a
    BY <1>4
<1>6. Current(t, b, was) /\ Plain(t, b) /\ b \in DOMAIN t /\ v[b] = t[b]
    BY <1>1, <1>2, <1>5 DEF Current
<1> DEFINE d == t[b].defn
<1>7. v[b].defn = d /\ Role(b) = d /\ d # NoDefn /\ d \in Roles
    BY <1>1, <1>6 DEF Shape, InRole, Node
<1>8. Plain(v, b)
    <2>1. 1 \in Pos /\ 2 \in Pos
        BY DEF Pos
    <2>2. /\ d \in {"system", "spec"} => Append(b, 1) \in DOMAIN v /\ Append(b, 2) \in DOMAIN v
          /\ d \in {"contents", "instance", "whenTyped"} => Append(b, 1) \in DOMAIN v
        BY <1>1, <1>5, <1>6, <2>1 DEF Plain
    <2>3. d \in {"specs", "instances"} =>
              \A i \in Pos : Append(b, i) \in DOMAIN v => v[Append(b, i)].defn = PartAt(d, i)
        BY <1>1, <1>6 DEF Plain
    <2>4. /\ t[b].schema.id = d
          /\ d = "type" => t[b].schema.options = Types
          /\ IsLeaf(d) => t[b].data.type = Defn[d].kind /\ FitsSchema(t[b].data, t[b].schema)
          /\ ~IsLeaf(d) => t[b].data = IF d = "whenTyped" THEN NoValue ELSE Default(d)
        BY <1>6 DEF Plain
    <2> HIDE DEF d
    <2> QED
        BY <1>6, <1>7, <2>2, <2>3, <2>4 DEF Plain
<1>9. ASSUME sure PROVE Referring(v, b)
    <2>1. ~SpecsStale(v) /\ (t[a].defn = NoDefn => Below(t, a) = {}) /\ (~SpecsStale(t) => was)
        BY <1>9
    <2>2. \A c \in DOMAIN t : IsPrefix(a, c) /\ t[c].defn # NoDefn => Role(c) \in DsOf(t, a)
        BY <2>1, ResetReaches
    <2>3. DsOf(t, a) = {} \/ \E z \in Roles : DsOf(t, a) = Reached(z)
        <3>1. t[a].defn \in Roles \cup {NoDefn}
            BY DEF Shape, Node
        <3> QED
            BY <3>1 DEF DsOf
    <2>4. ASSUME NEW c \in DOMAIN t, c \notin DOMAIN v \/ c = a PROVE IsPrefix(a, c)
        <3>1. c = a \/ IsStrictPrefix(a, c)
            BY <1>2, <2>4 DEF Below
        <3>2. a \in Seq(Pos)
            BY DEF Shape, Rooted, Places
        <3> QED
            BY <3>1, <3>2, BelowAre DEF IsStrictPrefix
    <2>5. ASSUME d = "whenTyped"
          PROVE  v[Append(b, 1)].defn = IF v[Append(Front(b), 1)].data.strings = {} THEN NoDefn ELSE "contents"
        <3> DEFINE s == Append(Front(b), 1)
        <3>1. s \in DOMAIN v /\ v[s].defn = "type" /\ Role(s) = "type"
            BY <1>7, <2>5, TypeBeside DEF Beside
        <3>2. s # a
            <4>1. SUFFICES ASSUME s = a PROVE FALSE
                OBVIOUS
            <4>2. "type" \in DsOf(v, a)
                BY <1>4, <3>1, <4>1 DEF NoDefn
            <4>3. "whenTyped" \in DsOf(v, a)
                BY <1>3, <2>3, <4>2, ReachFacts
            <4> QED
                BY <1>7, <2>5, <4>3
        <3>3. v[s] = t[s]
            BY <1>2, <3>1, <3>2
        <3>4. was
            <4>1. SUFFICES ASSUME SpecsStale(t) PROVE FALSE
                BY <2>1
            <4>2. PICK c \in DOMAIN t : Role(c) = "spec" /\ t[c].edge.idx # Last(c) - 1
                BY <4>1 DEF SpecsStale
            <4>3. c \notin DOMAIN v
                BY <1>1, <2>1, <4>2 DEF SpecsStale
            <4>4. IsPrefix(a, c)
                BY <2>4, <4>3
            <4>5. Role(c) \in Reached(Role(a)) /\ c \in Below(t, a)
                <5>1. c # a
                    BY <1>2, <4>3
                <5> QED
                    BY <4>4, <5>1, BelowReached
            <4>6. t[a].defn # NoDefn
                BY <2>1, <4>5
            <4>7. t[a].defn = Role(a) /\ Role(a) \in Roles
                BY <4>6 DEF Shape, InRole, Node
            <4>8. "spec" \in DsOf(t, a) /\ DsOf(t, a) = Reached(Role(a))
                BY <4>2, <4>5, <4>6, <4>7 DEF DsOf
            <4>9. "whenTyped" \in DsOf(t, a)
                <5>1. PartAt("spec", 2) = "whenTyped" /\ "whenTyped" # NoDefn /\ 2 \in Pos
                    BY DEF PartAt, NoDefn, Pos
                <5> QED
                    BY <4>7, <4>8, <5>1, ReachFacts
            <4> QED
                BY <1>3, <1>7, <2>5, <4>9
        <3>5. Referring(t, b)
            BY <1>6, <3>4 DEF Current
        <3>6. t[Append(b, 1)].defn = IF t[s].data.strings = {} THEN NoDefn ELSE "contents"
            BY <2>5, <3>5 DEF Referring
        <3>7. Append(b, 1) \in DOMAIN v
            BY <1>7, <1>8, <2>5 DEF Plain
        <3>8. v[Append(b, 1)].defn = t[Append(b, 1)].defn
            BY <1>1, <3>7
        <3> QED
            BY <3>3, <3>6, <3>8
    <2>6. ASSUME d = "spec_ref"
          PROVE  v[b].schema.options = UNION {v[c].data.strings : c \in Nodes(v, "name")}
        <3>1. "spec_ref" \notin DsOf(t, a)
            BY <1>3, <1>7, <2>6
        <3>2. "name" \notin DsOf(t, a) /\ "spec" \notin DsOf(t, a)
            <4>1. ASSUME NEW z \in Roles, "spec" \in Reached(z) PROVE "spec_ref" \in Reached(z)
                <5>1. PartAt("spec", 2) = "whenTyped" /\ "whenTyped" # NoDefn /\ 2 \in Pos
                    BY DEF PartAt, NoDefn, Pos
                <5>2. "whenTyped" \in Reached(z)
                    BY <4>1, <5>1, ReachFacts
                <5> QED
                    BY <5>2, ReachFacts
            <4> QED
                BY <2>3, <3>1, <4>1, ReachFacts
        <3>3. was
            <4>1. SUFFICES ASSUME SpecsStale(t) PROVE FALSE
                BY <2>1
            <4>2. PICK c \in DOMAIN t : Role(c) = "spec" /\ t[c].edge.idx # Last(c) - 1
                BY <4>1 DEF SpecsStale
            <4>3. c \notin DOMAIN v
                BY <1>1, <2>1, <4>2 DEF SpecsStale
            <4>4. IsPrefix(a, c)
                BY <2>4, <4>3
            <4>5. Role(c) \in Reached(Role(a)) /\ c \in Below(t, a)
                <5>1. c # a
                    BY <1>2, <4>3
                <5> QED
                    BY <4>4, <5>1, BelowReached
            <4>6. t[a].defn # NoDefn
                BY <2>1, <4>5
            <4>7. t[a].defn = Role(a)
                BY <4>6 DEF Shape, InRole
            <4> QED
                BY <3>2, <4>2, <4>5, <4>6, <4>7 DEF DsOf
        <3>4. t[b].schema.options = UNION {t[c].data.strings : c \in Nodes(t, "name")}
            BY <1>6, <2>6, <3>3 DEF Current, Referring
        <3>5. ASSUME NEW c \in Nodes(t, "name") PROVE c \in DOMAIN v \ {a}
            <4>1. c \in DOMAIN t /\ t[c].defn = "name" /\ t[c].defn # NoDefn
                BY DEF Nodes, NoDefn
            <4>2. Role(c) = "name"
                BY <4>1 DEF Shape, InRole
            <4>3. ~IsPrefix(a, c)
                BY <2>2, <3>2, <4>1, <4>2
            <4> QED
                BY <2>4, <4>1, <4>3
        <3>6. Nodes(v, "name") = Nodes(t, "name")
            <4>1. ASSUME NEW c \in Nodes(t, "name") PROVE c \in Nodes(v, "name")
                BY <1>2, <3>5 DEF Nodes
            <4>2. ASSUME NEW c \in Nodes(v, "name") PROVE c \in Nodes(t, "name")
                BY <1>1 DEF Nodes
            <4> QED
                BY <4>1, <4>2
        <3>7. \A c \in Nodes(t, "name") : v[c].data.strings = t[c].data.strings
            BY <1>2, <3>5
        <3>8. UNION {v[c].data.strings : c \in Nodes(v, "name")} = UNION {t[c].data.strings : c \in Nodes(t, "name")}
            BY <3>6, <3>7
        <3> QED
            BY <1>6, <3>4, <3>8
    <2> HIDE DEF d
    <2> QED
        BY <1>7, <2>5, <2>6 DEF Referring
<1> QED
    BY <1>8, <1>9 DEF Current

\* A node is reset: what is below it is made anew.
LEMMA ResetAtKeeps ==
    ASSUME TreeInv, NEW a \in Targets, ResetAt(a)
    PROVE  TreeInv'
<1> DEFINE v == [ClearChildren(tree, a) EXCEPT ![a].data = NoValue]
           u == Update(v, a, TRUE)
           was == ~SpecsStale(tree) /\ ~cutOff
           sure == ~SpecsStale(v) /\ ~cutOff'
<1>1. /\ editor = "editing" /\ tree' = u.tree /\ nav' = nav
      /\ editor' = IF u.ok THEN (IF IsStrictPrefix(a, nav) THEN "lost" ELSE "editing") ELSE "failed"
      /\ cutOff' = (cutOff \/ (tree[a].defn = NoDefn /\ Below(tree, a) # {}))
    BY DEF ResetAt, KeepPosition, ResetNode
<1>2. a \in DOMAIN tree /\ Shape(tree) /\ nav \in DOMAIN tree /\ cutOff \in BOOLEAN
    BY <1>1, TargetsThere DEF TreeInv
<1>3. Cleared(tree, a, v)
    BY <1>2, ClearedIs
<1> HIDE DEF v
<1>4. Shape(v) /\ a \in DOMAIN v /\ DOMAIN v = DOMAIN tree \ Below(tree, a)
    BY <1>2, <1>3, ClearedShape DEF Cleared
<1>5. \A b \in DOMAIN tree : tree[b].defn # NoDefn => Current(tree, b, was)
    BY <1>1 DEF TreeInv
<1>6. cutOff' \in BOOLEAN
    BY <1>1
<1>7. sure => ~SpecsStale(v) /\ (tree[a].defn = NoDefn => Below(tree, a) = {}) /\ (~SpecsStale(tree) => was)
    BY <1>1
<1> HIDE DEF was
<1>8. ASSUME NEW b \in DOMAIN v, v[b].defn # NoDefn, v[b].defn \notin DsOf(v, a) PROVE Current(v, b, sure)
    <2> HIDE DEF sure
    <2> QED
        BY <1>2, <1>3, <1>4, <1>5, <1>7, <1>8, ClearedCurrent
<1>9. Updated(v, DsOf(v, a), SkippedAt(a, TRUE), sure, u)
    <2>1. sure => ~SpecsStale(v)
        OBVIOUS
    <2>2. \A b \in DOMAIN v :
              v[b].defn # NoDefn /\ (v[b].defn \notin DsOf(v, a) \/ b \in SkippedAt(a, TRUE)) => Current(v, b, sure)
        BY <1>8 DEF SkippedAt
    <2>3. TRUE \in BOOLEAN
        OBVIOUS
    <2> HIDE DEF sure
    <2> QED
        BY <1>4, <2>1, <2>2, <2>3, UpdateMakes
<1> HIDE DEF u
<1>10. Traced(v, u) /\ Shape(u.tree) /\ (SpecsStale(u.tree) <=> SpecsStale(v)) /\ DOMAIN v \subseteq DOMAIN u.tree
    BY <1>9, StaleSame DEF Updated, Traced
<1>11. CASE u.ok
    <2>1. \A b \in DOMAIN tree' : tree'[b].defn # NoDefn => Current(tree', b, ~SpecsStale(tree') /\ ~cutOff')
        BY <1>1, <1>9, <1>10, <1>11 DEF Updated
    <2>2. editor' = "editing" => nav' \in DOMAIN tree'
        BY <1>1, <1>2, <1>4, <1>10, <1>11 DEF Below
    <2>3. editor' \in {"lost", "editing"}
        BY <1>1, <1>11
    <2> HIDE DEF sure
    <2> QED
        BY <1>1, <1>6, <1>10, <2>1, <2>2, <2>3 DEF TreeInv
<1>12. CASE ~u.ok
    <2>1. SpecsStale(v)
        BY <1>9, <1>12 DEF Updated
    <2>2. IndexStale(u.tree)
        BY <1>10, <2>1, StaleIndex
    <2>3. editor' = "failed" /\ tree' = u.tree
        BY <1>1, <1>12
    <2> QED
        BY <1>6, <1>10, <2>2, <2>3 DEF TreeInv
<1> QED
    BY <1>11, <1>12

-----------------------------------------------------------------------------
(* A file is loaded: values are assigned, and what depends on each is updated *)

\* A file for the whole tree: each path ends at a node that its parent has by name.
FileGood(file) ==
    /\ file = [p \in DOMAIN file |-> file[p]]
    /\ \A p \in DOMAIN file : \E n \in Pos : DOMAIN p = 1..n /\ p[n].type = "child"
    /\ \A p \in DOMAIN file : /\ file[p].value \in [type : {"list", "enum", "string"}, strings : SUBSET Text]
                              /\ file[p].size \in Nat

\* The lists whose entries are still to be loaded have none.
ListsEmpty(t, file) ==
    \A b \in DOMAIN t : Role(b) \in {"specs", "instances"} /\ Where(t, b) \in DOMAIN file =>
        \A i \in Pos : Append(b, i) \notin DOMAIN t

\* What loading has come to; D are nodes that there were before.
LoadInv(D, u) ==
    /\ u = [tree |-> u.tree, ok |-> u.ok, file |-> u.file] /\ u.ok \in BOOLEAN
    /\ Shape(u.tree) /\ ~SpecsStale(u.tree)
    /\ \A b \in DOMAIN u.tree : u.tree[b].defn # NoDefn => Current(u.tree, b, TRUE)
    /\ FileGood(u.file) /\ ListsEmpty(u.tree, u.file)
    /\ D \subseteq DOMAIN u.tree

\* A path of the file leads to a node that has a definition.
LEMMA PathLeads ==
    ASSUME NEW t, Shape(t), NEW a \in DOMAIN t, NEW file, FileGood(file), Where(t, a) \in DOMAIN file
    PROVE  a # Root /\ Role(a) \in Named /\ t[a].defn = Role(a) /\ Role(a) \in Roles
<1> DEFINE p == Where(t, a)
           m == Len(a)
<1>1. m \in Nat /\ DOMAIN p = 1..m /\ \A n \in 1..m : p[n] = t[Pre(a, n)].edge
    BY WhereFacts
<1>2. PICK n \in Pos : DOMAIN p = 1..n /\ p[n].type = "child"
    BY DEF FileGood
<1>3. a \in Seq(Pos) /\ a \in Places
    BY DEF Shape, Rooted, Places
<1> HIDE DEF p, m
<1>4. n = m
    <2>1. n \in 1..n /\ n \in Nat
        BY DEF Pos
    <2>2. n \in 1..m
        BY <1>1, <1>2, <2>1
    <2>3. m \in 1..n
        BY <1>1, <1>2, <2>1, <2>2
    <2> QED
        BY <1>1, <2>1, <2>2, <2>3
<1>5. p[m].type = "child" /\ m \in 1..m
    BY <1>1, <1>2, <1>4 DEF Pos
<1>6. t[a].edge.type = "child"
    <2>1. Pre(a, m) = a
        BY <1>3, PreFacts DEF m
    <2> QED
        BY <1>1, <1>5, <2>1
<1>7. a # Root
    <2>1. Len(Root) = 0
        BY DEF Root
    <2> QED
        BY <1>1, <1>5, <2>1 DEF m
<1>8. Placed(t, a) /\ Role(a) \in Roles /\ InRole(t, a)
    BY <1>3, <1>7, RoleFacts DEF Shape
<1>9. Role(a) \notin Items
    BY <1>6, <1>8 DEF Placed
<1>10. Role(a) # "contents"
    BY <1>6, <1>8, EdgeFacts DEF Placed, Items
<1>11. Role(a) # "system"
    BY <1>3, <1>7, RoleFacts
<1>12. Role(a) \in Named
    BY <1>8, <1>9, <1>10, <1>11, EdgeFacts
<1>13. t[a].defn = Role(a)
    <2>1. Role(a) \notin Optional
        BY <1>9, <1>10 DEF Optional, Items
    <2> QED
        BY <1>8, <2>1 DEF Placed, InRole
<1> QED
    BY <1>7, <1>8, <1>12, <1>13

\* A tree in which a list has been filled, or a leaf has got its value, is current but for
\* what depends on it.
Ready(t, a, v) ==
    /\ Shape(v) /\ ~SpecsStale(v) /\ DOMAIN t \subseteq DOMAIN v /\ a \in DOMAIN v
    /\ v[a].defn = Role(a)
    /\ \A b \in DOMAIN t : v[b].edge = t[b].edge
    /\ \A b \in DOMAIN v \ DOMAIN t : b # Root /\ Front(b) = a
    /\ \A b \in DOMAIN v : v[b].defn # NoDefn /\ (v[b].defn \notin Reached(Role(a)) \/ b = a) => Current(v, b, TRUE)

\* A list is filled.
LEMMA ListFilled ==
    ASSUME NEW t, Shape(t), ~SpecsStale(t), \A b \in DOMAIN t : t[b].defn # NoDefn => Current(t, b, TRUE),
           NEW a \in DOMAIN t, Role(a) \in {"specs", "instances"}, t[a].defn = Role(a),
           \A i \in Pos : Append(a, i) \notin DOMAIN t, NEW m \in Nat
    PROVE  Ready(t, a, AddNodes(t, a, [i \in 1..m |-> NewNode(ItemEdge(i - 1), Defn[Role(a)].entry)]))
<1> DEFINE e == Defn[Role(a)].entry
           nodes == [i \in 1..m |-> NewNode(ItemEdge(i - 1), e)]
           v == AddNodes(t, a, nodes)
           d == Role(a)
<1>1. Rooted(DOMAIN t) /\ a \in Seq(Pos)
    BY DEF Shape, Rooted, Places
<1>2. \A i \in Pos : PartAt(d, i) = e /\ e # NoDefn /\ e \in Roles /\ e \in Items
    BY DefnChildren DEF PartAt, NoDefn, Roles, Items
<1>3. 1 \in Pos
    BY DEF Pos
<1>4. e # NoDefn /\ e \in Roles /\ e \in Items
    BY <1>2, <1>3
<1> HIDE DEF e
<1>5. ChildCount(t, a) = 0
    <2>1. ChildCount(t, a) \in Nat /\ \A i \in Pos : Append(a, i) \in DOMAIN t <=> i <= ChildCount(t, a)
        BY <1>1, KidsCounted
    <2>2. ~(1 <= ChildCount(t, a))
        BY <1>3, <2>1
    <2> QED
        BY <2>1, <2>2
<1>6. \A i \in 1..m : IsEntry(i - 1, e, nodes[i])
    <2>1. ASSUME NEW i \in 1..m PROVE IsEntry(i - 1, e, nodes[i])
        <3>1. i - 1 \in Nat /\ e \in Roles \cup {NoDefn}
            BY <1>4
        <3>2. nodes[i] = NewNode(ItemEdge(i - 1), e)
            OBVIOUS
        <3>3. IsEntry(i - 1, e, NewNode(ItemEdge(i - 1), e))
            BY <3>1, EntryFacts
        <3> QED
            BY <3>2, <3>3
    <2> QED
        BY <2>1
<1>7. DOMAIN nodes = 1..m
    OBVIOUS
<1> HIDE DEF nodes
<1> DEFINE n == 0
<1>8. \A i \in 1..m : n + i \in Pos /\ n + i = i /\ PartAt(d, n + i) = e
    BY <1>2 DEF Pos
<1>9. AddsAfter(t, a, n, m, nodes, v)
    <2>1. n = ChildCount(t, a) /\ \A i \in 1..m : PartAt(Role(a), n + i) # NoDefn
        BY <1>4, <1>5, <1>8
    <2> HIDE DEF n
    <2> QED
        BY <1>1, <1>7, <2>1, AddNodesIs
<1> HIDE DEF n
<1>10. Listed(t, a, n, m, nodes)
    <2>1. t[a].schema.id = Role(a)
        <3>1. t[a].defn # NoDefn
            BY <1>1, RoleFacts DEF Rooted
        <3> QED
            BY <3>1 DEF Current, Plain
    <2> QED
        BY <1>6, <1>8, <2>1 DEF Listed, IsEntry
<1> HIDE DEF v
<1>11. /\ Shape(v) /\ DOMAIN t \subseteq DOMAIN v
       /\ \A b \in DOMAIN v \ DOMAIN t : /\ Role(b) \in Items /\ Front(b) = a /\ b # Root
                                         /\ \E i \in 1..m : Last(b) = n + i /\ v[b] = nodes[i]
    <2>1. Shape(v) /\ Extended(t, a, n, m, nodes, v)
        BY <1>9, <1>10, EntriesAdded
    <2> QED
        BY <2>1 DEF Extended
<1>12. \A b \in DOMAIN t : v[b] = t[b]
    BY <1>9 DEF AddsAfter
<1>13. ASSUME NEW b \in DOMAIN v \ DOMAIN t PROVE v[b].edge.idx = Last(b) - 1 /\ v[b].defn = e /\ Role(b) = e
    <2>1. PICK i \in 1..m : Last(b) = i /\ v[b] = nodes[i]
        BY <1>8, <1>11
    <2>2. v[b].edge.idx = Last(b) - 1 /\ v[b].defn = e
        BY <1>6, <2>1 DEF IsEntry
    <2>3. InRole(v, b)
        BY <1>11 DEF Shape
    <2> QED
        BY <1>4, <2>2, <2>3 DEF InRole
<1>14. ~SpecsStale(v)
    BY <1>12, <1>13 DEF SpecsStale
<1>15. e \in Reached(d) /\ d \in Roles
    <2>1. d \in Roles /\ PartAt(d, 1) = e
        BY <1>2, <1>3 DEF Roles
    <2> QED
        BY <1>3, <1>4, <2>1, ReachFacts
<1>16. Nodes(v, "name") = Nodes(t, "name")
    <2>1. e # "name"
        BY <1>4 DEF Items
    <2> QED
        BY <1>11, <1>12, <1>13, <2>1 DEF Nodes
<1>17. ASSUME NEW b \in DOMAIN v, v[b].defn # NoDefn, v[b].defn \notin Reached(d) \/ b = a
       PROVE  Current(v, b, TRUE)
    <2>1. b \in DOMAIN t
        BY <1>13, <1>15, <1>17
    <2>2. v[b] = t[b] /\ Plain(t, b) /\ Referring(t, b)
        BY <1>12, <1>17, <2>1 DEF Current
    <2> DEFINE c == t[b].defn
    <2>3. b \in Seq(Pos)
        BY <1>1, <2>1 DEF Rooted, Places
    <2>4. ASSUME c \in {"specs", "instances"}, NEW i \in Pos, Append(b, i) \in DOMAIN v
          PROVE  v[Append(b, i)].defn = PartAt(c, i)
        <3>1. CASE Append(b, i) \in DOMAIN t
            BY <1>12, <2>2, <2>4, <3>1 DEF Plain
        <3>2. CASE Append(b, i) \notin DOMAIN t
            <4>1. b = a
                BY <1>11, <2>3, <2>4, <3>2, KidFacts
            <4> QED
                BY <1>2, <1>13, <2>4, <3>2, <4>1
        <3> QED
            BY <3>1, <3>2
    <2>5. /\ c \in {"system", "spec"} => Append(b, 1) \in DOMAIN v /\ Append(b, 2) \in DOMAIN v
          /\ c \in {"contents", "instance", "whenTyped"} => Append(b, 1) \in DOMAIN v
        BY <1>11, <2>2 DEF Plain
    <2>6. /\ t[b].schema.id = c
          /\ c = "type" => t[b].schema.options = Types
          /\ IsLeaf(c) => t[b].data.type = Defn[c].kind /\ FitsSchema(t[b].data, t[b].schema)
          /\ ~IsLeaf(c) => t[b].data = IF c = "whenTyped" THEN NoValue ELSE Default(c)
        BY <2>2 DEF Plain
    <2>7. Plain(v, b)
        <3>1. v[b].defn = c
            BY <2>2
        <3> HIDE DEF c
        <3> QED
            BY <2>2, <2>4, <2>5, <2>6, <3>1 DEF Plain
    <2>8. ASSUME c = "whenTyped"
          PROVE  v[Append(b, 1)].defn = IF v[Append(Front(b), 1)].data.strings = {} THEN NoDefn ELSE "contents"
        <3>1. Role(b) = "whenTyped"
            BY <2>1, <2>8 DEF Shape, InRole, NoDefn
        <3>2. Append(Front(b), 1) \in DOMAIN t
            BY <2>1, <3>1, TypeBeside DEF Beside
        <3>3. Append(b, 1) \in DOMAIN t
            BY <2>2, <2>8 DEF Plain
        <3> QED
            BY <1>12, <2>2, <2>8, <3>2, <3>3 DEF Referring
    <2>9. ASSUME c = "spec_ref"
          PROVE  v[b].schema.options = UNION {v[x].data.strings : x \in Nodes(v, "name")}
        <3>1. \A x \in Nodes(t, "name") : v[x].data.strings = t[x].data.strings
            BY <1>12 DEF Nodes
        <3>2. UNION {v[x].data.strings : x \in Nodes(v, "name")} = UNION {t[x].data.strings : x \in Nodes(t, "name")}
            BY <1>16, <3>1
        <3> QED
            BY <2>2, <2>9, <3>2 DEF Referring
    <2>10. Referring(v, b)
        <3>1. v[b].defn = c
            BY <2>2
        <3> QED
            BY <2>8, <2>9, <3>1 DEF Referring
    <2> QED
        BY <2>7, <2>10 DEF Current
<1>18. Ready(t, a, v)
    BY <1>11, <1>12, <1>14, <1>17 DEF Ready
<1> QED
    BY <1>18 DEF v, nodes, e

\* A leaf gets its value from the file.
LEMMA LeafFilled ==
    ASSUME NEW t, Shape(t), ~SpecsStale(t), \A b \in DOMAIN t : t[b].defn # NoDefn => Current(t, b, TRUE),
           NEW a \in DOMAIN t, a # Root, t[a].defn = Role(a), Role(a) \in Roles, IsLeaf(Role(a)),
           NEW z \in [type : Kinds \cup {"none"}, strings : SUBSET Text],
           z.type = Defn[Role(a)].kind, FitsSchema(z, t[a].schema)
    PROVE  Ready(t, a, [t EXCEPT ![a].data = z])
<1> DEFINE v == [t EXCEPT ![a].data = z]
           d == Role(a)
<1>1. d \in {"type", "spec_ref", "name"} /\ z.type # "list" /\ d # NoDefn
    BY KindFacts DEF IsLeaf, NoDefn
<1>2. Plain(t, Root)
    <2>1. Root \in DOMAIN t /\ t[Root].defn = "system" /\ "system" # NoDefn
        BY DEF Shape, Rooted, NoDefn
    <2> QED
        BY <2>1 DEF Current
<1>3. /\ Shape(v) /\ DOMAIN v = DOMAIN t
      /\ v[a] = [edge |-> t[a].edge, defn |-> t[a].defn, schema |-> t[a].schema, data |-> z]
      /\ \A b \in DOMAIN t \ {a} : v[b] = t[b]
    BY <1>1, <1>2, ValueSet
<1> HIDE DEF v
<1>4. \A b \in DOMAIN t : v[b].edge = t[b].edge /\ v[b].defn = t[b].defn /\ v[b].schema = t[b].schema
    BY <1>3
<1>5. ~SpecsStale(v)
    BY <1>3, <1>4 DEF SpecsStale
<1>6. \A b \in DOMAIN v : v[b].defn = "name" => Role(b) = "name"
    BY <1>3 DEF Shape, InRole, NoDefn
<1>7. ASSUME NEW b \in DOMAIN t, v[b].defn # NoDefn, v[b].defn \notin Reached(d) \/ b = a
      PROVE  Current(v, b, TRUE)
    <2>1. Plain(t, b) /\ Referring(t, b)
        BY <1>4, <1>7 DEF Current
    <2> DEFINE c == t[b].defn
    <2>2. v[b].defn = c /\ v[b].schema = t[b].schema /\ Role(b) = c
        BY <1>4, <1>7 DEF Shape, InRole
    <2>3. /\ IsLeaf(c) => v[b].data.type = Defn[c].kind /\ FitsSchema(v[b].data, t[b].schema)
          /\ ~IsLeaf(c) => v[b].data = IF c = "whenTyped" THEN NoValue ELSE Default(c)
        <3>1. CASE b = a
            BY <1>3, <2>2, <3>1
        <3>2. CASE b # a
            <4>1. v[b] = t[b]
                BY <1>3, <3>2
            <4> QED
                BY <2>1, <4>1 DEF Plain
        <3> QED
            BY <3>1, <3>2
    <2>4. /\ c \in {"system", "spec"} => Append(b, 1) \in DOMAIN v /\ Append(b, 2) \in DOMAIN v
          /\ c \in {"contents", "instance", "whenTyped"} => Append(b, 1) \in DOMAIN v
          /\ c \in {"specs", "instances"} =>
                 \A i \in Pos : Append(b, i) \in DOMAIN v => v[Append(b, i)].defn = PartAt(c, i)
        BY <1>3, <1>4, <2>1 DEF Plain
    <2>5. t[b].schema.id = c /\ (c = "type" => t[b].schema.options = Types)
        BY <2>1 DEF Plain
    <2>6. Plain(v, b)
        <3> HIDE DEF c
        <3> QED
            BY <2>2, <2>3, <2>4, <2>5 DEF Plain
    <2>7. ASSUME c = "whenTyped"
          PROVE  v[Append(b, 1)].defn = IF v[Append(Front(b), 1)].data.strings = {} THEN NoDefn ELSE "contents"
        <3> DEFINE s == Append(Front(b), 1)
        <3>1. s \in DOMAIN t /\ Role(s) = "type"
            BY <2>2, <2>7, TypeBeside DEF Beside
        <3>2. s # a
            <4>1. SUFFICES ASSUME s = a PROVE FALSE
                OBVIOUS
            <4>2. d = "type"
                BY <3>1, <4>1
            <4>3. "whenTyped" \in Reached(d)
                BY <4>2, ReachFacts
            <4>4. b # a
                BY <1>1, <2>2, <2>7
            <4> QED
                BY <1>7, <2>2, <2>7, <4>3, <4>4
        <3>3. v[s] = t[s]
            BY <1>3, <3>1, <3>2
        <3>4. Append(b, 1) \in DOMAIN t
            BY <2>1, <2>7 DEF Plain
        <3>5. v[Append(b, 1)].defn = t[Append(b, 1)].defn
            BY <1>4, <3>4
        <3>6. t[Append(b, 1)].defn = IF t[s].data.strings = {} THEN NoDefn ELSE "contents"
            BY <2>1, <2>7 DEF Referring
        <3> QED
            BY <3>3, <3>5, <3>6
    <2>8. ASSUME c = "spec_ref"
          PROVE  v[b].schema.options = UNION {v[x].data.strings : x \in Nodes(v, "name")}
        <3>1. d # "name"
            <4>1. SUFFICES ASSUME d = "name" PROVE FALSE
                OBVIOUS
            <4>2. "spec_ref" \in Reached(d)
                BY <4>1, ReachFacts
            <4>3. b # a
                BY <2>2, <2>8, <4>1
            <4> QED
                BY <1>7, <2>2, <2>8, <4>2, <4>3
        <3>2. Nodes(v, "name") = Nodes(t, "name")
            BY <1>3, <1>4 DEF Nodes
        <3>3. \A x \in Nodes(v, "name") : v[x].data.strings = t[x].data.strings
            BY <1>3, <1>6, <3>1 DEF Nodes
        <3>4. UNION {v[x].data.strings : x \in Nodes(v, "name")} = UNION {t[x].data.strings : x \in Nodes(t, "name")}
            BY <3>2, <3>3
        <3> QED
            BY <2>1, <2>2, <2>8, <3>4 DEF Referring
    <2>9. Referring(v, b)
        <3> HIDE DEF c
        <3> QED
            BY <2>2, <2>7, <2>8 DEF Referring
    <2> QED
        BY <2>6, <2>9 DEF Current
<1>8. Ready(t, a, v)
    BY <1>3, <1>4, <1>5, <1>7 DEF Ready
<1> QED
    BY <1>8 DEF v

\* The file without a value that has been assigned.
Rest(file, p) == [q \in DOMAIN file \ {p} |-> file[q]]

\* After a value has been assigned, the update makes the tree current.
LEMMA ReadyUpdated ==
    ASSUME NEW t, Shape(t), NEW a \in DOMAIN t, NEW file, FileGood(file), ListsEmpty(t, file),
           Where(t, a) \in DOMAIN file, NEW v, Ready(t, a, v), NEW D, D \subseteq DOMAIN t
    PROVE  LoadInv(D, WithFile(Update(v, a, FALSE), Rest(file, Where(t, a))))
<1> DEFINE x == Update(v, a, FALSE)
           p == Where(t, a)
           rest == Rest(file, p)
           w == WithFile(x, rest)
<1>1. Role(a) \in Roles /\ Role(a) # NoDefn
    BY PathLeads, RoleFacts
<1>2. /\ Shape(v) /\ ~SpecsStale(v) /\ DOMAIN t \subseteq DOMAIN v /\ a \in DOMAIN v /\ v[a].defn = Role(a)
      /\ \A b \in DOMAIN t : v[b].edge = t[b].edge
      /\ \A b \in DOMAIN v \ DOMAIN t : b # Root /\ Front(b) = a
      /\ \A b \in DOMAIN v : v[b].defn # NoDefn /\ (v[b].defn \notin Reached(Role(a)) \/ b = a) => Current(v, b, TRUE)
    BY DEF Ready
<1>3. DsOf(v, a) = Reached(Role(a)) /\ SkippedAt(a, FALSE) = {a}
    BY <1>1, <1>2 DEF DsOf, SkippedAt
<1>4. Updated(v, DsOf(v, a), SkippedAt(a, FALSE), TRUE, x)
    <2>1. \A b \in DOMAIN v :
              v[b].defn # NoDefn /\ (v[b].defn \notin DsOf(v, a) \/ b \in SkippedAt(a, FALSE)) => Current(v, b, TRUE)
        BY <1>2, <1>3
    <2>2. FALSE \in BOOLEAN /\ (TRUE => ~SpecsStale(v))
        BY <1>2
    <2> QED
        BY <1>2, <2>1, <2>2, UpdateMakes
<1> HIDE DEF x
<1>5. /\ Traced(v, x) /\ x.ok /\ Shape(x.tree) /\ ~SpecsStale(x.tree) /\ DOMAIN v \subseteq DOMAIN x.tree
      /\ \A b \in DOMAIN x.tree : x.tree[b].defn # NoDefn => Current(x.tree, b, TRUE)
      /\ x.ok \in BOOLEAN
    BY <1>2, <1>4, StaleSame DEF Updated, Traced
<1>6. FileGood(rest) /\ DOMAIN rest = DOMAIN file \ {p}
    <2>1. DOMAIN rest = DOMAIN file \ {p} /\ rest = [q \in DOMAIN rest |-> rest[q]] /\ \A q \in DOMAIN rest : rest[q] = file[q]
        BY DEF Rest
    <2> HIDE DEF rest, p
    <2> QED
        BY <2>1 DEF FileGood
<1>7. ListsEmpty(x.tree, rest)
    <2>1. SUFFICES ASSUME NEW b \in DOMAIN x.tree, Role(b) \in {"specs", "instances"}, Where(x.tree, b) \in DOMAIN rest,
                          NEW i \in Pos, Append(b, i) \in DOMAIN x.tree
                   PROVE  FALSE
        BY DEF ListsEmpty
    <2> DEFINE c == Append(b, i)
    <2>2. b \in Seq(Pos)
        BY <1>5 DEF Shape, Rooted, Places
    <2>3. c # Root /\ Front(c) = b /\ Role(c) = PartAt(Role(b), i)
        BY <2>2, KidFacts, KidRole
    <2>4. Role(c) \in Items
        BY <2>1, <2>3 DEF PartAt, Items
    <2> HIDE DEF c
    <2>5. c \in DOMAIN v
        BY <1>5, <2>1, <2>4 DEF Traced, c
    <2>6. b \in DOMAIN v
        BY <1>2, <2>3, <2>5 DEF Shape, Rooted
    <2>7. Where(v, b) = Where(x.tree, b)
        BY <1>2, <1>5, <2>6, WhereSame
    <2>8. CASE c \in DOMAIN t
        <3>1. b \in DOMAIN t
            BY <2>3, <2>8 DEF Shape, Rooted
        <3>2. Where(t, b) = Where(v, b)
            BY <1>2, <3>1, WhereKept
        <3>3. Where(t, b) \in DOMAIN file
            BY <1>6, <2>1, <2>7, <3>2
        <3> QED
            BY <2>1, <2>8, <3>1, <3>3 DEF ListsEmpty, c
    <2>9. CASE c \notin DOMAIN t
        <3>1. b = a
            BY <1>2, <2>3, <2>5, <2>9
        <3>2. Where(t, a) = Where(v, a)
            BY <1>2, WhereKept
        <3>3. Where(x.tree, b) = p
            BY <2>7, <3>1, <3>2
        <3> QED
            BY <1>6, <2>1, <3>3
    <2> QED
        BY <2>8, <2>9
<1>8. w = [tree |-> x.tree, ok |-> x.ok, file |-> rest]
    BY DEF WithFile
<1>9. w.tree = x.tree /\ w.ok = x.ok /\ w.file = rest /\ w = [tree |-> w.tree, ok |-> w.ok, file |-> w.file]
    BY <1>8
<1>10. D \subseteq DOMAIN x.tree
    BY <1>2, <1>5
<1> HIDE DEF w, rest
<1>11. LoadInv(D, w)
    BY <1>5, <1>6, <1>7, <1>9, <1>10 DEF LoadInv
<1> QED
    BY <1>11 DEF w, x, rest

\* A step of import_yaml.
LEMMA LoadedKeeps ==
    ASSUME NEW D, NEW u, LoadInv(D, u), NEW a \in D
    PROVE  LoadInv(D, Loaded(a, u))
<1> DEFINE t == u.tree
           p == Where(u.tree, a)
           z == u.file[p]
<1>1. /\ u = [tree |-> u.tree, ok |-> u.ok, file |-> u.file] /\ Shape(t) /\ ~SpecsStale(t)
      /\ \A b \in DOMAIN t : t[b].defn # NoDefn => Current(t, b, TRUE)
      /\ FileGood(u.file) /\ ListsEmpty(t, u.file) /\ D \subseteq DOMAIN t /\ a \in DOMAIN t
    BY DEF LoadInv
<1>2. CASE ~u.ok \/ p \notin DOMAIN u.file
    <2>1. Loaded(a, u) = u
        BY <1>2 DEF Loaded
    <2> QED
        BY <2>1
<1>3. CASE u.ok /\ p \in DOMAIN u.file /\ ~Assignable(t, a, z)
    <2>1. Loaded(a, u) = [u EXCEPT !.ok = FALSE]
        BY <1>3 DEF Loaded
    <2> DEFINE w == [tree |-> u.tree, ok |-> FALSE, file |-> u.file]
    <2>2. Loaded(a, u) = w
        BY <1>1, <2>1
    <2>3. w.tree = u.tree /\ w.ok = FALSE /\ w.file = u.file /\ w = [tree |-> w.tree, ok |-> w.ok, file |-> w.file]
        OBVIOUS
    <2> HIDE DEF w
    <2>4. LoadInv(D, w)
        BY <1>1, <2>3 DEF LoadInv
    <2> QED
        BY <2>2, <2>4
<1>4. CASE u.ok /\ p \in DOMAIN u.file /\ Assignable(t, a, z)
    <2> DEFINE v == Assigned(t, a, z)
    <2>1. Loaded(a, u) = WithFile(Update(v, a, FALSE), Rest(u.file, p))
        BY <1>4 DEF Loaded, Rest
    <2>2. a # Root /\ t[a].defn = Role(a) /\ Role(a) \in Roles
        BY <1>1, <1>4, PathLeads
    <2>3. z.value \in [type : {"list", "enum", "string"}, strings : SUBSET Text] /\ z.size \in Nat
        BY <1>1, <1>4 DEF FileGood
    <2>4. z.value.type = Defn[Role(a)].kind /\ FitsSchema(z.value, t[a].schema)
        BY <1>4, <2>2 DEF Assignable
    <2>5. Ready(t, a, v)
        <3>1. CASE Defn[Role(a)].kind = "list"
            <4>1. Role(a) \in {"specs", "instances"}
                BY <2>2, <3>1, KindFacts
            <4>2. \A i \in Pos : Append(a, i) \notin DOMAIN t
                BY <1>1, <1>4, <4>1 DEF ListsEmpty
            <4> DEFINE m == z.size
            <4>3. v = AddNodes(t, a, [i \in 1..m |-> NewNode(ItemEdge(i - 1), Defn[Role(a)].entry)])
                BY <2>2, <3>1 DEF Assigned
            <4>4. m \in Nat
                BY <2>3
            <4> HIDE DEF m, v, t
            <4>5. Ready(t, a, AddNodes(t, a, [i \in 1..m |-> NewNode(ItemEdge(i - 1), Defn[Role(a)].entry)]))
                BY <1>1, <2>2, <4>1, <4>2, <4>4, ListFilled
            <4> QED
                BY <4>3, <4>5
        <3>2. CASE Defn[Role(a)].kind # "list"
            <4> DEFINE y == z.value
            <4>1. v = [t EXCEPT ![a].data = y]
                BY <2>2, <3>2 DEF Assigned
            <4>2. IsLeaf(Role(a))
                BY <2>3, <2>4, <3>2 DEF IsLeaf
            <4>3. y \in [type : Kinds \cup {"none"}, strings : SUBSET Text] /\ y.type = Defn[Role(a)].kind /\ FitsSchema(y, t[a].schema)
                BY <2>3, <2>4 DEF Kinds
            <4> HIDE DEF y, v, t
            <4>4. Ready(t, a, [t EXCEPT ![a].data = y])
                BY <1>1, <2>2, <4>2, <4>3, LeafFilled
            <4> QED
                BY <4>1, <4>4
        <3> QED
            BY <3>1, <3>2
    <2> HIDE DEF v
    <2>6. LoadInv(D, WithFile(Update(v, a, FALSE), Rest(u.file, p)))
        BY <1>1, <1>4, <2>5, ReadyUpdated
    <2> QED
        BY <2>1, <2>6
<1> QED
    BY <1>2, <1>3, <1>4

\* The nodes of a definition.
LEMMA LoadAllKeeps ==
    ASSUME NEW D, NEW u, LoadInv(D, u)
    PROVE  LoadInv(D, LoadAll(D, u))
<1> DEFINE P == {T \in SUBSET D : LoadInv(D, LoadAll(T, u))}
<1>1. IsFiniteSet(D)
    <2>1. IsFiniteSet(DOMAIN u.tree) /\ D \subseteq DOMAIN u.tree
        BY DEF LoadInv, Shape, Rooted
    <2> QED
        BY <2>1, FS_Subset
<1>2. ASSUME NEW T \in SUBSET D, \A U \in SUBSET T : U # T => U \in P PROVE T \in P
    <2>1. IsFiniteSet(T)
        BY <1>1, FS_Subset
    <2>2. CASE T = {}
        <3>1. LoadAll(T, u) = u
            BY <2>1, <2>2, LoadAllUnfolds
        <3> QED
            BY <3>1
    <2>3. CASE T # {}
        <3>1. PICK b \in T : LoadAll(T, u) = Loaded(b, LoadAll(T \ {b}, u))
            BY <2>1, <2>3, LoadAllUnfolds
        <3>2. T \ {b} \in P
            BY <1>2
        <3>3. LoadInv(D, LoadAll(T \ {b}, u)) /\ b \in D
            BY <3>2
        <3>4. LoadInv(D, Loaded(b, LoadAll(T \ {b}, u)))
            BY <3>3, LoadedKeeps
        <3> QED
            BY <3>1, <3>4
    <2> QED
        BY <2>2, <2>3
<1>3. \A T \in SUBSET D : T \in P
    <2> HIDE DEF P
    <2> QED
        BY <1>1, <1>2, SubsetInduction
<1> QED
    BY <1>3

\* What there is after a step of the import, for the nodes of one definition.
LEMMA LoadStepKeeps ==
    ASSUME NEW u, LoadInv({}, u), NEW d
    PROVE  LoadInv({}, LoadAll(Nodes(u.tree, d), u))
<1> DEFINE D == Nodes(u.tree, d)
<1>1. D \subseteq DOMAIN u.tree
    BY DEF Nodes
<1> HIDE DEF D
<1>2. LoadInv(D, u)
    BY <1>1 DEF LoadInv
<1>3. LoadInv(D, LoadAll(D, u))
    BY <1>2, LoadAllKeeps
<1>4. LoadInv({}, LoadAll(D, u))
    BY <1>3 DEF LoadInv
<1> QED
    BY <1>4 DEF D

\* The root comes before every address.
LEMMA RootFirst ==
    ASSUME NEW b \in Seq(Pos)
    PROVE  IsPrefix(Root, b)
<1>1. Root \in Seq(Pos) /\ Len(Root) = 0 /\ Len(b) \in Nat
    BY DEF Root
<1>2. Len(Root) <= Len(b)
    BY <1>1
<1>3. \A k \in 1..Len(Root) : Root[k] = b[k]
    <2>1. 1..0 = {}
        OBVIOUS
    <2> QED
        BY <1>1, <2>1
<1>4. IsPrefix(Root, b) <=> Len(Root) <= Len(b) /\ \A k \in 1..Len(Root) : Root[k] = b[k]
    BY <1>1, PrefixIs
<1> QED
    BY <1>2, <1>3, <1>4

\* A tree that has been reset is current, and its lists are empty.
LEMMA ResetReady ==
    ASSUME NEW t, Shape(t), NEW file, FileGood(file)
    PROVE  LoadInv({}, WithFile(ResetNode(t, Root), file))
<1> DEFINE v == [ClearChildren(t, Root) EXCEPT ![Root].data = NoValue]
           u == Update(v, Root, TRUE)
           w == WithFile(u, file)
<1>1. Root \in DOMAIN t /\ DOMAIN t \subseteq Places /\ Role(Root) = "system" /\ Root \in Seq(Pos)
    BY RoleFacts DEF Shape, Rooted, Places
<1>2. Cleared(t, Root, v)
    BY <1>1, ClearedIs
<1>3. ResetNode(t, Root) = u
    BY DEF ResetNode
<1> HIDE DEF v
<1>4. Shape(v)
    BY <1>1, <1>2, ClearedShape
<1>5. DOMAIN v = {Root}
    <2>1. ASSUME NEW b \in DOMAIN t, b # Root PROVE b \in Below(t, Root)
        <3>1. b \in Seq(Pos)
            BY <1>1 DEF Places
        <3>3. IsPrefix(Root, b)
            BY <3>1, RootFirst
        <3> QED
            BY <2>1, <3>3, BelowReached, <1>1
    <2>2. DOMAIN v = DOMAIN t \ Below(t, Root) /\ Root \in DOMAIN v
        BY <1>2 DEF Cleared
    <2> QED
        BY <2>1, <2>2
<1>6. ~SpecsStale(v)
    BY <1>1, <1>5 DEF SpecsStale
<1>7. Traced(v, u) /\ Shape(u.tree) /\ (~u.ok => SpecsStale(v)) /\ (u.ok => WellKept(u.tree))
    BY <1>4, RootUpdate
<1> HIDE DEF u
<1>8. u.ok /\ u.ok \in BOOLEAN /\ ~SpecsStale(u.tree)
    BY <1>6, <1>7, StaleSame DEF Traced
<1>9. \A b \in DOMAIN u.tree : u.tree[b].defn # NoDefn => Current(u.tree, b, TRUE)
    BY <1>7, <1>8 DEF WellKept
<1>10. ListsEmpty(u.tree, file)
    <2>1. SUFFICES ASSUME NEW b \in DOMAIN u.tree, Role(b) \in {"specs", "instances"},
                          NEW i \in Pos, Append(b, i) \in DOMAIN u.tree
                   PROVE  FALSE
        BY DEF ListsEmpty
    <2>2. b \in Seq(Pos)
        BY <1>7 DEF Shape, Rooted, Places
    <2>3. Append(b, i) # Root /\ Role(Append(b, i)) = PartAt(Role(b), i)
        BY <2>2, KidFacts, KidRole
    <2>4. Role(Append(b, i)) \in Items
        BY <2>1, <2>3 DEF PartAt, Items
    <2> QED
        BY <1>5, <1>7, <2>1, <2>3, <2>4 DEF Traced
<1>11. w = [tree |-> u.tree, ok |-> u.ok, file |-> file]
    BY DEF WithFile
<1>12. w.tree = u.tree /\ w.ok = u.ok /\ w.file = file /\ w = [tree |-> w.tree, ok |-> w.ok, file |-> w.file]
    BY <1>11
<1> HIDE DEF w
<1>13. LoadInv({}, w)
    BY <1>7, <1>8, <1>9, <1>10, <1>12 DEF LoadInv
<1> QED
    BY <1>3, <1>13 DEF w

\* import_yaml, of whatever it can load: the tree is current.
LEMMA ImportKeeps ==
    ASSUME NEW t, Shape(t), NEW file, FileGood(file)
    PROVE  WellKept(Import(t, file).tree) /\ ~SpecsStale(Import(t, file).tree)
<1> DEFINE base == WithFile(ResetNode(t, Root), file)
           P == {m \in Nat : LoadInv({}, ImportedUpto(base, m))}
<1>1. LoadInv({}, base)
    BY ResetReady
<1>2. /\ Import(t, file).tree = ImportedUpto(base, 10).tree
      /\ ImportedUpto(base, 0) = base
      /\ \A n \in 1..10 :
             ImportedUpto(base, n)
               = LoadAll(Nodes(ImportedUpto(base, n - 1).tree, Order[n]), ImportedUpto(base, n - 1))
    BY ImportUnfolds
<1> HIDE DEF base
<1>3. 0 \in P
    BY <1>1, <1>2
<1>4. ASSUME NEW m \in 0..(10 - 1), m \in P PROVE m + 1 \in P
    <2> DEFINE n == m + 1
               x == ImportedUpto(base, m)
    <2>1. n \in 1..10 /\ n - 1 = m /\ n \in Nat
        OBVIOUS
    <2>2. LoadInv({}, x)
        BY <1>4
    <2> HIDE DEF n
    <2>3. ImportedUpto(base, n) = LoadAll(Nodes(ImportedUpto(base, n - 1).tree, Order[n]), ImportedUpto(base, n - 1))
        BY <1>2, <2>1
    <2>4. ImportedUpto(base, n) = LoadAll(Nodes(x.tree, Order[n]), x)
        BY <2>1, <2>3
    <2> HIDE DEF x
    <2>5. LoadInv({}, LoadAll(Nodes(x.tree, Order[n]), x))
        BY <2>2, LoadStepKeeps
    <2>6. n \in P
        BY <2>1, <2>4, <2>5
    <2> QED
        BY <2>6 DEF n
<1>5. 10 \in P
    <2> HIDE DEF P
    <2>1. \A m \in 0..10 : m \in P
        BY <1>3, <1>4, CountingUp
    <2> QED
        BY <2>1
<1>6. LoadInv({}, ImportedUpto(base, 10))
    BY <1>5
<1> DEFINE y == ImportedUpto(base, 10)
<1> HIDE DEF y
<1>7. LoadInv({}, y) /\ Import(t, file).tree = y.tree
    BY <1>2, <1>6 DEF y
<1>8. WellKept(y.tree) /\ ~SpecsStale(y.tree)
    BY <1>7 DEF LoadInv, WellKept
<1> QED
    BY <1>7, <1>8

\* A path that ends with a child's name.
PathGood(p) == \E n \in Pos : DOMAIN p = 1..n /\ p[n].type = "child"

\* What a file has at one of its paths.
LeafGood(x) == x.value \in [type : {"list", "enum", "string"}, strings : SUBSET Text] /\ x.size \in Nat

\* One that does.
LEMMA PathEnds ==
    ASSUME NEW p, NEW n \in Pos, NEW name, DOMAIN p = 1..n, p[n] = ChildEdge(name)
    PROVE  PathGood(p)
BY DEF PathGood, ChildEdge

\* A path goes on to one that does.
LEMMA PathGoesOn ==
    ASSUME NEW p \in Seq(Edges), NEW q \in Seq(Edges), Len(q) \in Pos, NEW name, q[Len(q)] = ChildEdge(name)
    PROVE  PathGood(p \o q)
<1> DEFINE r == p \o q
           m == Len(p)
           k == Len(q)
<1>1. m \in Nat /\ k \in Nat /\ k >= 1
    BY DEF Pos
<1>2. Len(r) = m + k /\ DOMAIN r = 1..(m + k) /\ r[m + k] = q[k]
    <2>1. r \in Seq(Edges) /\ Len(r) = m + k
        OBVIOUS
    <2>2. DOMAIN r = 1..(m + k)
        BY <2>1
    <2>3. r[m + k] = q[k]
        BY <1>1
    <2> QED
        BY <2>1, <2>2, <2>3
<1> HIDE DEF r
<1>3. m + k \in Pos
    BY <1>1 DEF Pos
<1>4. r[m + k] = ChildEdge(name)
    BY <1>2
<1> HIDE DEF m, k
<1>5. PathGood(r)
    BY <1>2, <1>3, <1>4, PathEnds
<1> QED
    BY <1>5 DEF r

\* Or ends with a child's name at once.
LEMMA PathGoesTo ==
    ASSUME NEW p \in Seq(Edges), NEW name, ChildEdge(name) \in Edges
    PROVE  PathGood(Append(p, ChildEdge(name)))
<1> DEFINE e == ChildEdge(name)
           r == Append(p, e)
           n == Len(p) + 1
<1>1. e \in Edges
    OBVIOUS
<1> HIDE DEF e
<1>2. r \in Seq(Edges) /\ Len(r) = n /\ r[n] = e
    BY <1>1
<1>3. DOMAIN r = 1..n /\ n \in Pos
    BY <1>2 DEF Pos
<1> HIDE DEF r, n
<1>4. PathGood(r)
    BY <1>2, <1>3, PathEnds DEF e
<1> QED
    BY <1>4 DEF r, e

\* The files that are loaded are for the whole tree.
LEMMA FileWithGood ==
    ASSUME NEW name \in Names, NEW ref \in Names \cup Types
    PROVE  FileGood(FileWith(name, ref))
<1> DEFINE specs == <<ChildEdge("specs")>>
           spec == Append(specs, ItemEdge(0))
           instances == <<ChildEdge("instances")>>
           selected == Append(spec, ChildEdge("agent_type"))
           named == spec \o <<ChildEdge("contents"), CondEdge, ChildEdge("name")>>
           refers == instances \o <<ItemEdge(0), ChildEdge("spec_ref")>>
           Entry(v, n) == [value |-> v, size |-> n]
           S == {specs, selected, named, instances, refers}
           g == [p \in S |->
                    CASE p \in {specs, instances} -> Entry(Value("list", {}), 1)
                      [] p = selected -> Entry(Value("enum", Types), 0)
                      [] p = named -> Entry(Value("string", {name}), 0)
                      [] p = refers -> Entry(Value("enum", {ref}), 0)]
<1>1. FileWith(name, ref) = g
    BY DEF FileWith
<1>2. PathGood(specs) /\ PathGood(instances)
    <2>1. 1 \in Pos /\ DOMAIN specs = 1..1 /\ specs[1] = ChildEdge("specs")
        BY DEF Pos
    <2>2. DOMAIN instances = 1..1 /\ instances[1] = ChildEdge("instances")
        OBVIOUS
    <2> HIDE DEF specs, instances
    <2> QED
        BY <2>1, <2>2, PathEnds
<1>12. /\ \A n \in EdgeNames : ChildEdge(n) \in Edges
       /\ ItemEdge(0) \in Edges /\ CondEdge \in Edges
    BY DEF Edges, EdgeNames, ChildEdge, ItemEdge, CondEdge
<1>13. {"specs", "instances", "agent_type", "contents", "name", "spec_ref"} \subseteq EdgeNames
    BY DEF EdgeNames
<1>14. specs \in Seq(Edges) /\ instances \in Seq(Edges)
    BY <1>12, <1>13
<1>15. spec \in Seq(Edges) /\ Len(spec) = 2
    BY <1>12, <1>14
<1>3. PathGood(selected)
    <2>1. ChildEdge("agent_type") \in Edges
        BY <1>12, <1>13
    <2> HIDE DEF spec
    <2> QED
        BY <1>15, <2>1, PathGoesTo
<1>4. PathGood(named)
    <2> DEFINE q == <<ChildEdge("contents"), CondEdge, ChildEdge("name")>>
    <2>1. q \in Seq(Edges) /\ Len(q) = 3 /\ q[3] = ChildEdge("name")
        BY <1>12, <1>13
    <2>2. Len(q) \in Pos /\ q[Len(q)] = ChildEdge("name")
        BY <2>1 DEF Pos
    <2> HIDE DEF q, spec
    <2>3. PathGood(spec \o q)
        BY <1>15, <2>1, <2>2, PathGoesOn
    <2> QED
        BY <2>3 DEF q
<1>5. PathGood(refers)
    <2> DEFINE q == <<ItemEdge(0), ChildEdge("spec_ref")>>
    <2>1. q \in Seq(Edges) /\ Len(q) = 2 /\ q[2] = ChildEdge("spec_ref")
        BY <1>12, <1>13
    <2>2. Len(q) \in Pos /\ q[Len(q)] = ChildEdge("spec_ref")
        BY <2>1 DEF Pos
    <2> HIDE DEF q, instances
    <2>3. PathGood(instances \o q)
        BY <1>14, <2>1, <2>2, PathGoesOn
    <2> QED
        BY <2>3 DEF q
<1> HIDE DEF specs, spec, instances, selected, named, refers
<1>6. \A p \in S : PathGood(p)
    BY <1>2, <1>3, <1>4, <1>5
<1>7. /\ LeafGood(Entry(Value("list", {}), 1)) /\ LeafGood(Entry(Value("enum", Types), 0))
      /\ LeafGood(Entry(Value("string", {name}), 0)) /\ LeafGood(Entry(Value("enum", {ref}), 0))
    BY DEF LeafGood, Value, Text
<1> HIDE DEF Entry
<1>8. \A p \in S : LeafGood(g[p])
    BY <1>7
<1>9. DOMAIN g = S /\ g = [p \in DOMAIN g |-> g[p]]
    OBVIOUS
<1> HIDE DEF g, S
<1>10. FileGood(g)
    BY <1>6, <1>8, <1>9 DEF FileGood, PathGood, LeafGood
<1> QED
    BY <1>1, <1>10

\* A file is loaded in place of everything.
LEMMA LoadKeeps ==
    ASSUME TreeInv, NEW name \in Names, NEW ref \in Names \cup Types, Load(FileWith(name, ref))
    PROVE  TreeInv'
<1> DEFINE t == Import(tree, FileWith(name, ref)).tree
<1>1. editor = "editing" /\ tree' = t /\ nav' = nav /\ cutOff' = FALSE
    BY DEF Load
<1>2. editor' = IF IsStrictPrefix(Root, nav) THEN "lost" ELSE "editing"
    BY DEF Load, KeepPosition
<1>3. Shape(tree) /\ nav \in DOMAIN tree
    BY <1>1 DEF TreeInv
<1>4. WellKept(t) /\ ~SpecsStale(t)
    BY <1>3, FileWithGood, ImportKeeps
<1> HIDE DEF t
<1>5. editor' = "editing" => nav' = Root
    <2>1. nav \in Seq(Pos) /\ Root \in Seq(Pos)
        BY <1>3 DEF Shape, Rooted, Places
    <2>3. IsPrefix(Root, nav)
        BY <2>1, RootFirst
    <2> QED
        BY <1>1, <1>2, <2>3 DEF IsStrictPrefix
<1>6. Root \in DOMAIN t
    BY <1>4 DEF WellKept, Shape, Rooted
<1>7. editor' \in {"lost", "editing"}
    BY <1>2
<1> QED
    BY <1>1, <1>4, <1>5, <1>6, <1>7 DEF TreeInv, WellKept

-----------------------------------------------------------------------------
(* The invariant, and what follows from it *)

\* A tree that has not been opened is as it must be.
LEMMA InitKeeps == ParamInit => TreeInv
<1> SUFFICES ASSUME ParamInit PROVE TreeInv
    OBVIOUS
<1>1. tree = Empty /\ nav = Root /\ editor = "closed" /\ cutOff = FALSE
    BY DEF ParamInit
<1>2. Shape(tree)
    BY <1>1, EmptyShape
<1> QED
    BY <1>1, <1>2 DEF TreeInv

\* Every command keeps the invariant.
LEMMA NextKeeps == TreeInv /\ [ParamNext]_paramVars => TreeInv'
<1> SUFFICES ASSUME TreeInv, [ParamNext]_paramVars PROVE TreeInv'
    OBVIOUS
<1>1. CASE Open
    BY <1>1, OpenKeeps
<1>2. ASSUME NEW a \in Targets, Navigate(a) PROVE TreeInv'
    BY <1>2, NavigateKeeps
<1>3. ASSUME NEW a \in Targets, ResetAt(a) PROVE TreeInv'
    BY <1>3, ResetAtKeeps
<1>4. ASSUME NEW a \in Targets, NEW v \in Values, SetValue(a, v) PROVE TreeInv'
    <2>1. v \in [type : Kinds \cup {"none"}, strings : SUBSET Text]
        BY ValuesTyped
    <2> QED
        BY <1>4, <2>1, SetValueKeeps
<1>5. CASE AddItem
    BY <1>5, AddItemKeeps
<1>6. ASSUME NEW i \in 1..ChildCount(tree, nav), RemoveItem(i) PROVE TreeInv'
    BY <1>6, RemoveItemKeeps
<1>7. ASSUME NEW name \in Names, NEW ref \in Names \cup Types, Load(FileWith(name, ref)) PROVE TreeInv'
    BY <1>7, LoadKeeps
<1>8. CASE UNCHANGED paramVars
    <2>1. tree' = tree /\ nav' = nav /\ editor' = editor /\ cutOff' = cutOff
        BY <1>8 DEF paramVars
    <2> QED
        BY <2>1 DEF TreeInv
<1> QED
    BY <1>1, <1>2, <1>3, <1>4, <1>5, <1>6, <1>7, <1>8 DEF ParamNext

\* Throughout an editing session (paramtree_editor, update_sd_tree, import_yaml), the tree has
\* the shape of its definition, each of its nodes is where its definition may be, the editor's
\* position is in the tree, and the nodes that have a definition agree with it; with what they
\* refer to as well, unless a specification has moved up or a reset has cut nodes off.
THEOREM TreeAgrees == ParamSpec => []TreeInv
<1>1. ParamInit => TreeInv
    BY InitKeeps
<1>2. TreeInv /\ [ParamNext]_paramVars => TreeInv'
    BY NextKeeps
<1> QED
    BY <1>1, <1>2, PTL DEF ParamSpec

\* A lookup fails (resolve_reference, navigator::operator[]) only in a list that an item other
\* than the last has been removed from: with any number of names, types and entries.
THEOREM LookupsOnlyFailStale == ParamSpec => []LookupsSucceed
<1>1. TreeInv => LookupsSucceed
    BY DEF TreeInv, LookupsSucceed
<1> QED
    BY <1>1, TreeAgrees, PTL

\* What a composite's definition has of its children, as records.
LEMMA ChildRecords ==
    ASSUME NEW d \in Roles, Defn[d].kind = "composite", NEW i \in Fixed(d)
    PROVE  /\ Defn[d].children[i] = [name |-> Defn[d].children[i].name, defn |-> Defn[d].children[i].defn]
           /\ PartAt(d, i) \notin Optional /\ PartAt(d, i) \notin Items
<1>1. d \in {"system", "spec", "contents", "instance"}
    BY CompositeFacts
<1>2. i \in {1, 2}
    BY <1>1 DEF Fixed
<1>3. d \in {"contents", "instance"} => i = 1
    BY DEF Fixed
<1>4. PartAt(d, i) \notin Optional /\ PartAt(d, i) \notin Items
    BY <1>1, <1>2, <1>3 DEF PartAt, Optional, Items
<1> DEFINE x == Defn[d].children[i]
<1>5. \E name, defn : x = Child(name, defn)
    <2>1. CASE d = "system"
        BY <1>2, <2>1, DefnChildren
    <2>2. CASE d = "spec"
        BY <1>2, <2>2, DefnChildren
    <2>3. CASE d = "contents"
        BY <1>3, <2>3, DefnChildren
    <2>4. CASE d = "instance"
        BY <1>3, <2>4, DefnChildren
    <2> QED
        BY <1>1, <2>1, <2>2, <2>3, <2>4
<1> HIDE DEF x
<1>6. x = [name |-> x.name, defn |-> x.defn]
    BY <1>5 DEF Child
<1> QED
    BY <1>4, <1>6 DEF x

\* A composite has the children of its definition and no others.
LEMMA ChildrenDefined ==
    ASSUME NEW t, Shape(t), NEW a \in DOMAIN t, t[a].defn # NoDefn, Plain(t, a), Defn[t[a].defn].kind = "composite"
    PROVE  /\ Cardinality({Append(a, i) : i \in 1..ChildCount(t, a)}) = Len(Defn[t[a].defn].children)
           /\ \A b \in {Append(a, i) : i \in 1..ChildCount(t, a)} :
                  [name |-> t[b].edge.name, defn |-> t[b].defn] = Defn[t[a].defn].children[Last(b)]
<1> DEFINE d == t[a].defn
           n == ChildCount(t, a)
           m == Len(Defn[d].children)
<1>1. d = Role(a) /\ d \in Roles /\ a \in Seq(Pos) /\ Rooted(DOMAIN t) /\ DOMAIN t \subseteq Places
    BY DEF Shape, InRole, Node, Rooted, Places
<1>2. n \in Nat /\ \A i \in Pos : Append(a, i) \in DOMAIN t <=> i <= n
    BY <1>1, KidsCounted
<1>3. /\ d \in {"system", "spec", "contents", "instance"}
      /\ m \in Nat /\ Fixed(d) = 1..m
      /\ \A i \in Fixed(d) : /\ ChildEdge(Defn[d].children[i].name) = EdgeTo(PartAt(d, i))
                             /\ Defn[d].children[i].defn = PartAt(d, i)
      /\ \A i \in Pos : PartAt(d, i) # NoDefn => i \in Fixed(d)
    BY <1>1, CompositeFacts
<1>4. ASSUME NEW i \in Pos, Append(a, i) \in DOMAIN t
      PROVE  Role(Append(a, i)) = PartAt(d, i) /\ i \in Fixed(d)
    <2>1. Role(Append(a, i)) = PartAt(d, i)
        BY <1>1, KidRole
    <2>2. Role(Append(a, i)) # NoDefn
        BY <1>1, <1>4 DEF Places
    <2> QED
        BY <1>3, <2>1, <2>2
<1>5. ASSUME NEW i \in Fixed(d) PROVE Append(a, i) \in DOMAIN t
    BY <1>3, <1>5 DEF Plain, Fixed
<1> HIDE DEF n, m, d
<1>6. n = m
    <2>1. ~(n < m)
        <3>1. SUFFICES ASSUME n < m PROVE FALSE
            OBVIOUS
        <3>2. n + 1 \in 1..m /\ n + 1 \in Pos
            BY <1>2, <1>3, <3>1 DEF Pos
        <3>3. n + 1 <= n
            BY <1>2, <1>3, <1>5, <3>2
        <3> QED
            BY <1>2, <3>3
    <2>2. ~(m < n)
        <3>1. SUFFICES ASSUME m < n PROVE FALSE
            OBVIOUS
        <3>2. n \in Pos /\ n <= n
            BY <1>2, <1>3, <3>1 DEF Pos
        <3>3. n \in 1..m
            BY <1>2, <1>3, <1>4, <3>2
        <3> QED
            BY <1>2, <1>3, <3>1, <3>3
    <2> QED
        BY <1>2, <1>3, <2>1, <2>2
<1>7. Cardinality({Append(a, i) : i \in 1..n}) = n
    BY <1>1, <1>2, ManyKids
<1>8. ASSUME NEW i \in 1..n
      PROVE  [name |-> t[Append(a, i)].edge.name, defn |-> t[Append(a, i)].defn] = Defn[d].children[Last(Append(a, i))]
    <2> DEFINE b == Append(a, i)
    <2>1. i \in Pos /\ i <= n
        BY <1>2 DEF Pos
    <2>2. b \in DOMAIN t /\ b # Root /\ Last(b) = i
        BY <1>1, <1>2, <2>1, KidFacts
    <2>3. Role(b) = PartAt(d, i) /\ i \in Fixed(d)
        BY <1>4, <2>1, <2>2
    <2> HIDE DEF b
    <2>4. /\ Defn[d].children[i] = [name |-> Defn[d].children[i].name, defn |-> Defn[d].children[i].defn]
          /\ Role(b) \notin Optional /\ Role(b) \notin Items
        <3>1. Defn[d].kind = "composite"
            BY DEF d
        <3> QED
            BY <1>1, <2>3, <3>1, ChildRecords
    <2>5. Placed(t, b) /\ InRole(t, b)
        BY <2>2 DEF Shape
    <2>6. t[b].edge = ChildEdge(Defn[d].children[i].name)
        BY <1>3, <2>3, <2>4, <2>5 DEF Placed
    <2>7. t[b].defn = Defn[d].children[i].defn
        BY <1>3, <2>3, <2>4, <2>5 DEF Placed, InRole
    <2>8. t[b].edge.name = Defn[d].children[i].name
        BY <2>6 DEF ChildEdge
    <2> QED
        BY <2>2, <2>4, <2>7, <2>8 DEF b
<1> QED
    BY <1>6, <1>7, <1>8 DEF n, m, d

\* A node that agrees with its definition, and with what it refers to, is current.
LEMMA CurrentIs ==
    ASSUME NEW t, Shape(t), NEW a \in DOMAIN t, t[a].defn # NoDefn, Plain(t, a), Referring(t, a)
    PROVE  IsCurrent(t, a)
<1> DEFINE d == t[a].defn
           children == {Append(a, i) : i \in 1..ChildCount(t, a)}
<1>1. d \in Roles /\ a \in Seq(Pos) /\ Rooted(DOMAIN t)
    BY DEF Shape, Node, Rooted, Places
<1>2. Defn[d].kind = "composite" =>
          /\ Cardinality(children) = Len(Defn[d].children)
          /\ \A b \in children : [name |-> t[b].edge.name, defn |-> t[b].defn] = Defn[d].children[Last(b)]
    BY ChildrenDefined
<1>3. ASSUME Defn[d].kind = "list", NEW b \in children PROVE t[b].defn = Defn[d].entry
    <2>1. d \in {"specs", "instances"}
        BY <1>1, <1>3, KindFacts
    <2>2. PICK i \in 1..ChildCount(t, a) : b = Append(a, i)
        BY <1>3
    <2>3. ChildCount(t, a) \in Nat /\ \A j \in Pos : Append(a, j) \in DOMAIN t <=> j <= ChildCount(t, a)
        BY <1>1, KidsCounted
    <2>4. i \in Pos /\ Append(a, i) \in DOMAIN t
        BY <2>3 DEF Pos
    <2>5. t[b].defn = PartAt(d, i)
        BY <2>1, <2>2, <2>4 DEF Plain
    <2>6. PartAt(d, i) = Defn[d].entry
        BY <2>1, DefnChildren DEF PartAt
    <2> QED
        BY <2>5, <2>6
<1>4. /\ t[a].schema.id = d
      /\ d = "type" => t[a].schema.options = Types
      /\ IsLeaf(d) => t[a].data.type = Defn[d].kind /\ FitsSchema(t[a].data, t[a].schema)
    BY DEF Plain
<1>5. /\ d = "whenTyped" =>
             t[Append(a, 1)].defn = IF t[Append(Front(a), 1)].data.strings = {} THEN NoDefn ELSE "contents"
      /\ d = "spec_ref" => t[a].schema.options = UNION {t[b].data.strings : b \in Nodes(t, "name")}
    BY DEF Referring
<1> QED
    BY <1>2, <1>3, <1>4, <1>5 DEF IsCurrent

\* After each command every node of the tree agrees with its definition, its parent and what it
\* refers to (update_sd_tree in one pass of topological_ordering), for every set of names and
\* types and every number of entries, but for stale indices and what a reset has cut off.
THEOREM TreeStaysUpToDate == ParamSpec => []TreeUpToDate
<1>1. ASSUME TreeInv PROVE TreeUpToDate
    <2>1. SUFFICES ASSUME editor \in {"editing", "lost"}, ~IndexStale(tree), ~cutOff,
                          NEW a \in DOMAIN tree \ {Root}, tree[a].defn # NoDefn
                   PROVE  IsCurrent(tree, a)
        BY DEF TreeUpToDate
    <2>2. Shape(tree) /\ ~SpecsStale(tree)
        BY <1>1, <2>1, StaleIndex DEF TreeInv
    <2>3. Plain(tree, a) /\ Referring(tree, a)
        BY <1>1, <2>1, <2>2 DEF TreeInv, Current
    <2> QED
        BY <2>1, <2>2, <2>3, CurrentIs
<1> QED
    BY <1>1, TreeAgrees, PTL

\* A value that still fits is the same after adjustment.
LEMMA FittingStays ==
    ASSUME NEW t, NEW b, Plain(t, b), t[b].defn \in Roles, NEW schema, schema.id = t[b].defn,
           FitsSchema(t[b].data, schema)
    PROVE  Adjusted(t[b].data, schema) = t[b].data
<1> DEFINE d == t[b].defn
<1>1. CASE IsLeaf(d)
    <2>1. t[b].data.type = Defn[d].kind /\ Defn[d].kind # "conditional"
        BY <1>1 DEF Plain, IsLeaf
    <2> QED
        BY <1>1, <2>1 DEF Adjusted
<1>2. CASE d = "whenTyped"
    <2>1. Defn[d].kind = "conditional" /\ ~IsLeaf(d)
        BY <1>2, DefnFacts DEF IsLeaf
    <2> QED
        BY <1>2, <2>1 DEF Adjusted, Plain
<1>3. CASE ~IsLeaf(d) /\ d # "whenTyped"
    <2>1. Defn[d].kind # "conditional"
        BY <1>3, DefnFacts DEF Roles
    <2>2. t[b].data = Default(d)
        BY <1>3 DEF Plain
    <2>3. Adjusted(t[b].data, schema) = Default(d)
        BY <1>3, <2>1 DEF Adjusted
    <2> QED
        BY <2>2, <2>3
<1> QED
    BY <1>1, <1>2, <1>3

\* A value is set; another changes only if it does not fit any more.
LEMMA SettingKeepsOthers ==
    ASSUME TreeInv, TreeInv', NEW a \in Targets, a \in DOMAIN tree', SetValue(a, tree'[a].data),
           NEW b \in (DOMAIN tree' \cap DOMAIN tree) \ {a}, tree[b].defn # NoDefn,
           tree'[b].data # tree[b].data
    PROVE  ~FitsSchema(tree[b].data, tree'[b].schema)
<1> DEFINE v == tree'[a].data
           t == [tree EXCEPT ![a].data = v]
           u == Update(t, Root, FALSE)
<1>1. editor = "editing" /\ Reload(t)
    BY DEF SetValue
<1>2. a # Root /\ a \in DOMAIN tree
    BY LeafNotRoot
<1>3. v.type # "list"
    BY LeafNotRoot
<1>4. v \in [type : Kinds \cup {"none"}, strings : SUBSET Text]
    <2>1. tree' \in [DOMAIN tree' -> Node]
        BY DEF TreeInv, Shape
    <2> QED
        BY <2>1 DEF Node
<1>5. Shape(tree) /\ Plain(tree, Root)
    BY <1>1, RootCurrent
<1> HIDE DEF v
<1>6. Shape(t) /\ Plain(t, Root) /\ t[b] = tree[b] /\ b \in DOMAIN t
    BY <1>2, <1>3, <1>4, <1>5, ValueSet
<1>7. tree' = u.tree
    BY <1>1 DEF Reload
<1> HIDE DEF t
<1>8. Updated(t, Roles, SkippedAt(Root, FALSE), ~SpecsStale(t), u)
    BY <1>6, RootUpdate
<1> HIDE DEF u
<1>9. tree'[b].schema.id = Role(b) /\ tree'[b].data = Adjusted(tree[b].data, tree'[b].schema)
    BY <1>6, <1>7, <1>8 DEF Updated
<1>10. Plain(tree, b) /\ tree[b].defn = Role(b) /\ tree[b].defn \in Roles
    BY <1>1, <1>5 DEF TreeInv, Current, Shape, InRole, Node
<1> DEFINE schema == tree'[b].schema
<1> HIDE DEF schema
<1>11. schema.id = tree[b].defn /\ tree'[b].data = Adjusted(tree[b].data, schema)
    BY <1>9, <1>10 DEF schema
<1>12. FitsSchema(tree[b].data, schema) => Adjusted(tree[b].data, schema) = tree[b].data
    BY <1>10, <1>11, FittingStays
<1> QED
    BY <1>11, <1>12 DEF schema

\* Setting a value (on_setvalue) changes no other value that still fits its schema, although the
\* reload instantiates every schema anew and adjusts each value to it.
THEOREM OthersStay == ParamSpec => OthersKept
<1> DEFINE Kept ==
        tree' # tree => \A a \in Targets : a \in DOMAIN tree' /\ SetValue(a, tree'[a].data) =>
            \A b \in (DOMAIN tree' \cap DOMAIN tree) \ {a} :
                tree[b].defn # NoDefn /\ tree'[b].data # tree[b].data =>
                    ~FitsSchema(tree[b].data, tree'[b].schema)
<1>1. TreeInv /\ TreeInv' => [Kept]_paramVars
    BY SettingKeepsOthers
<1>2. ParamSpec => [][Kept]_paramVars
    <2> HIDE DEF Kept
    <2> QED
        BY <1>1, TreeAgrees, PTL
<1> QED
    BY <1>2 DEF OthersKept

=============================================================================
