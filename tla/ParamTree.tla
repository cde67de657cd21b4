------------------------------ MODULE ParamTree ------------------------------
(***************************************************************************)
(* ddl: a tree of parameters, kept in agreement with its definition while  *)
(* a user edits it (sd_tree, the dependency graph of the definitions, the  *)
(* lookup of references, adjustment, import and export, paramtree_editor). *)
(*                                                                         *)
(* The definition is an outline of basic_system_defn: specifications of    *)
(* agents, whose contents appear once a type has been selected, and agent  *)
(* instances, which refer to a specification by name.                      *)
(*                                                                         *)
(* A node of the tree is known by its address, the positions of the        *)
(* children on the way to it, where the code has a pointer; no node is     *)
(* added in an update after another has been removed in its place, so that *)
(* the set of processed pointers tells the nodes apart.  Left out: bounds  *)
(* on values, which adjustment treats as it does options; values set where *)
(* there is no leaf, which are lost in the reload (the root's is never     *)
(* read); files for a part of the tree.                                    *)
(***************************************************************************)
EXTENDS Integers, Sequences, FiniteSets, FiniteSetsExt, SequencesExt

CONSTANTS
    Names,          \* names a user gives to a specification
    Types,          \* the types of agents there are
    MaxSpecs,       \* bound on the specifications
    MaxInstances    \* bound on the instances

ASSUME ParamTreeAssumption == {MaxSpecs, MaxInstances} \subseteq Nat

VARIABLES
    tree,           \* editor.data: a function from addresses to nodes
    nav,            \* editor.nav: the address of the editor's position
    editor,         \* "editing"; "lost": nav points at a deleted node; "failed": a lookup failed
    cutOff          \* auxiliary: a reset without an update has removed definite nodes

paramVars == <<tree, nav, editor, cutOff>>

NoDefn == "none"

-----------------------------------------------------------------------------
(* The definition: of each node its kind and what that kind has. *)

Child(name, defn) == [name |-> name, defn |-> defn]
Composite(children) == [kind |-> "composite", children |-> children]
Listing(entry) == [kind |-> "list", entry |-> entry]
IfSelected(ref, then) == [kind |-> "conditional", ref |-> ref, then |-> then]
Leaf(kind) == [kind |-> kind]

Defn ==
    [system    |-> Composite(<<Child("specs", "specs"), Child("instances", "instances")>>),
     specs     |-> Listing("spec"),
     spec      |-> Composite(<<Child("agent_type", "type"), Child("contents", "whenTyped")>>),
     type      |-> Leaf("enum"),
     whenTyped |-> IfSelected("type", "contents"),
     contents  |-> Composite(<<Child("name", "name")>>),
     name      |-> Leaf("string"),
     instances |-> Listing("instance"),
     instance  |-> Composite(<<Child("spec_ref", "spec_ref")>>),
     spec_ref  |-> Leaf("enum")]

\* Parents come before their children, and what is referred to before what refers to it:
\* topological_ordering gives such an order.
Order == <<"system", "specs", "spec", "type", "whenTyped", "contents", "name",
           "instances", "instance", "spec_ref">>

IsLeaf(d) == Defn[d].kind \in {"enum", "string"}

\* The definitions of the children that a node of definition d may have.
Parts(d) ==
    CASE Defn[d].kind = "composite" -> {c.defn : c \in Range(Defn[d].children)}
      [] Defn[d].kind = "list" -> {Defn[d].entry}
      [] Defn[d].kind = "conditional" -> {Defn[d].then}
      [] OTHER -> {}

\* Faulty: the options of a reference are forgotten.
RefersToConditions(d) == IF d = "whenTyped" THEN {"type"} ELSE {}

\* get_node_deps: what the condition or the options of a definition refer to.
RefersTo(d) ==
    CASE d = "whenTyped" -> {"type"} [] d = "spec_ref" -> {"name"} [] OTHER -> {}

\* add_node_dependencies: a definition also depends on that of its parent.
DependsOn(d) == RefersTo(d) \cup {p \in DOMAIN Defn : d \in Parts(p)}

\* dependent_upon: by way of others, too.
DependsByWay(d) ==
    LET depends[e \in DOMAIN Defn] == e = d \/ \E p \in DependsOn(e) : depends[p]
    IN depends

\* build_defn_dependency_graph, of the definition that an update starts from.
Dependents == [d \in DOMAIN Defn |-> {e \in DOMAIN Defn : DependsByWay(d)[e]}]

-----------------------------------------------------------------------------
(* Nodes.  A value is its type and the strings it has: those of an enumeration that are *)
(* selected, the one of a string unless it is empty.                                    *)

Value(type, strings) == [type |-> type, strings |-> strings]
NoValue == Value("none", {})
NoSchema == [id |-> NoDefn, options |-> {}]

\* What is_list and the like tell of a new value of a definition.
Default(d) == Value(Defn[d].kind, {})

ChildEdge(name) == [type |-> "child", name |-> name, idx |-> 0]
ItemEdge(idx) == [type |-> "item", name |-> "", idx |-> idx]
CondEdge == [type |-> "cond", name |-> "", idx |-> 0]

NewNode(edge, defn) == [edge |-> edge, defn |-> defn, schema |-> NoSchema, data |-> NoValue]

Root == << >>
NoNode == <<0>>     \* the address of none

Children(t, a) == {Append(a, i) : i \in 1..Cardinality(DOMAIN t)} \cap DOMAIN t
ChildCount(t, a) == Cardinality(Children(t, a))
Below(t, a) == {b \in DOMAIN t : IsStrictPrefix(a, b)}

ClearChildren(t, a) == [b \in DOMAIN t \ Below(t, a) |-> t[b]]

AddNodes(t, a, nodes) ==
    LET n == ChildCount(t, a)
        new == {Append(a, n + i) : i \in DOMAIN nodes}
    IN [b \in DOMAIN t \cup new |-> IF b \in new THEN nodes[Last(b) - n] ELSE t[b]]

\* remove_branch: the siblings to the right move up; their item_idx stays.
RemoveBranch(t, a) ==
    LET list == Front(a)
        isLater(b) == IsPrefix(list, b) /\ Len(b) > Len(list) /\ b[Len(a)] >= Last(a)
        from(b) == IF isLater(b) THEN [b EXCEPT ![Len(a)] = @ + 1] ELSE b
        to(b) == IF isLater(b) THEN [b EXCEPT ![Len(a)] = @ - 1] ELSE b
    IN [b \in {to(c) : c \in {c \in DOMAIN t : ~IsPrefix(a, c)}} |-> t[from(b)]]

-----------------------------------------------------------------------------
(* Lookup.  Paths are made from the edges, but followed by position. *)

\* navigator::where
Where(t, a) == [i \in DOMAIN a |-> t[SubSeq(a, 1, i)].edge]

\* Faulty: positions count from one.
FollowEdgeFromOne(t, a, e) ==
    LET there == CASE e.type = "child" -> {b \in Children(t, a) : t[b].edge = e}
                   [] e.type = "item" -> {Append(a, e.idx)} \cap DOMAIN t
                   [] e.type = "cond" -> {Append(a, 1)} \cap DOMAIN t
    IN IF a = NoNode \/ there = {} THEN NoNode ELSE CHOOSE b \in there : TRUE

\* navigator::operator[]: nothing comes of going on from nothing, where the code crashes.
FollowEdge(t, a, e) ==
    LET there == CASE e.type = "child" -> {b \in Children(t, a) : t[b].edge = e}
                   [] e.type = "item" -> {Append(a, e.idx + 1)} \cap DOMAIN t
                   [] e.type = "cond" -> {Append(a, 1)} \cap DOMAIN t
    IN IF a = NoNode \/ there = {} THEN NoNode ELSE CHOOSE b \in there : TRUE

Follow(t, path) == FoldLeft(LAMBDA a, e : FollowEdge(t, a, e), Root, path)

Nodes(t, d) == {a \in DOMAIN t : t[a].defn = d}

\* resolve_reference, Any: wherever in the tree.
ResolveAny(t, d) == {Follow(t, Where(t, a)) : a \in Nodes(t, d)}

\* resolve_reference, Unique: the nearest one, first upwards and then down; an ambiguous
\* one is found, too.
ResolveUnique(t, here, d) ==
    LET path == Where(t, here)
        common(a) == Cardinality({n \in 1..Len(a) : IsPrefix(Where(t, SubSeq(a, 1, n)), path)})
        isFarther(a, b) == \/ common(a) < common(b)
                           \/ common(a) = common(b) /\ Len(a) > Len(b)
        nearest == {a \in Nodes(t, d) : \A b \in Nodes(t, d) : ~isFarther(a, b)}
    IN IF Cardinality(nearest) > 1 THEN {NoNode} ELSE {Follow(t, Where(t, a)) : a \in nearest}

\* What an instantiation at a refers to, if anything, and whether it is found.
Referred(t, a) ==
    CASE t[a].defn = "whenTyped" -> ResolveUnique(t, a, "type")
      [] t[a].defn = "spec_ref" -> ResolveAny(t, "name")
      [] OTHER -> {}

Readable(t, refs) ==
    \A b \in refs : b # NoNode /\ t[b].data.type \in {"enum", "string"}

Strings(t, refs) == UNION {t[b].data.strings : b \in refs}

-----------------------------------------------------------------------------
(* Updates *)

\* conditional_defn_node::evaluate with is_selection, for what is selected
Evaluate(d, selected) == IF selected # {} THEN Defn[d].then ELSE NoDefn

Options(d, selected) ==
    CASE d = "spec_ref" -> selected [] d = "type" -> Types [] OTHER -> {}

\* fits_schema; that nothing is selected fits, whatever the least number.
FitsSchema(v, schema) ==
    Defn[schema.id].kind = "enum" => v.strings \subseteq schema.options /\ Cardinality(v.strings) <= 1

\* Faulty: values start anew.
AdjustedAnew(v, schema) ==
    IF Defn[schema.id].kind = "conditional" THEN NoValue ELSE Default(schema.id)

\* adjust_to_schema, for a schema of definition d
Adjusted(v, schema) ==
    LET d == schema.id IN
    CASE Defn[d].kind = "conditional" -> NoValue
      [] IsLeaf(d) /\ v.type = Defn[d].kind /\ FitsSchema(v, schema) -> v
      [] OTHER -> Default(d)

\* local_inst_visitor: the children there should be, with their definitions.
WithChildren(t, a, selected) ==
    LET d == t[a].defn
        isNew == ChildCount(t, a) = 0
        define(u, defnAt(_)) ==
            LET children == Children(u, a) IN
            [b \in DOMAIN u |-> IF b \in children THEN [u[b] EXCEPT !.defn = defnAt(Last(b))]
                                ELSE u[b]]
    IN CASE Defn[d].kind = "composite" ->
                LET cs == Defn[d].children
                    fresh == [i \in DOMAIN cs |-> NewNode(ChildEdge(cs[i].name), NoDefn)]
                IN define(IF isNew THEN AddNodes(t, a, fresh) ELSE t, LAMBDA i : cs[i].defn)
         [] Defn[d].kind = "conditional" ->
                define(IF isNew THEN AddNodes(t, a, <<NewNode(CondEdge, NoDefn)>>) ELSE t,
                       LAMBDA i : Evaluate(d, selected))
         [] Defn[d].kind = "list" -> define(t, LAMBDA i : Defn[d].entry)
         [] OTHER -> t

\* What of the node's subtree is maintained.
Maintained(t, a) == IF t[a].schema.id = t[a].defn THEN t ELSE ClearChildren(t, a)

\* instantiate_locally and adjust_to_schema
Instantiated(t, a, selected) ==
    LET u == WithChildren(Maintained(t, a), a, selected)
        schema == [id |-> t[a].defn, options |-> Options(t[a].defn, selected)]
    IN [u EXCEPT ![a].schema = schema, ![a].data = Adjusted(@, schema)]

\* A step of update_sd_tree.
Processed(b, u) ==
    LET refs == Referred(u.tree, b) IN
    IF ~u.ok THEN u
    ELSE IF Readable(u.tree, refs)
    THEN [u EXCEPT !.tree = Instantiated(@, b, Strings(@, refs))]
    ELSE [u EXCEPT !.ok = FALSE]

\* update_sd_tree: the nodes in the order of the definitions, those that have come to be
\* meanwhile included; a node whose definition is null is never found.
Update(t, a, includeRoot) ==
    LET ds == IF t[a].defn = NoDefn THEN {} ELSE Dependents[t[a].defn]
        skipped == IF includeRoot THEN {} ELSE {a}
        processAll(u, d) ==
            FoldSet(Processed, u, IF d \in ds THEN Nodes(u.tree, d) \ skipped ELSE {})
    IN FoldLeft(processAll, [tree |-> t, ok |-> TRUE], Order)

ResetNode(t, a) == Update([ClearChildren(t, a) EXCEPT ![a].data = NoValue], a, TRUE)

-----------------------------------------------------------------------------
(* Files.  A file is the values of a tree by their paths. *)

\* Faulty: items are exported with the indices they have been given.
FilePathOfEdges(t, a) == [i \in DOMAIN a |-> LET e == t[SubSeq(a, 1, i)].edge
                                             IN [e EXCEPT !.idx = @ + 1]]

\* The path that import will make, from the order of the entries of a list.
FilePath(t, a) ==
    [i \in DOMAIN a |-> LET e == t[SubSeq(a, 1, i)].edge
                        IN IF e.type = "item" THEN ItemEdge(a[i] - 1) ELSE e]

\* export_yaml: a null definition ends it.
Exported(t) ==
    LET as == {a \in DOMAIN t : /\ \A i \in 0..Len(a) : t[SubSeq(a, 1, i)].defn # NoDefn
                                /\ IsLeaf(t[a].defn) \/ Defn[t[a].defn].kind = "list"}
    IN [p \in {FilePath(t, a) : a \in as} |->
           LET a == CHOOSE a \in as : FilePath(t, a) = p
           IN [value |-> t[a].data, size |-> ChildCount(t, a)]]

\* assign_import_value_visitor: the node with its value, if it may have it.
Assignable(t, a, v) == v.value.type = Defn[t[a].defn].kind /\ FitsSchema(v.value, t[a].schema)

Assigned(t, a, v) ==
    IF Defn[t[a].defn].kind = "list"
    THEN AddNodes(t, a, [i \in 1..v.size |-> NewNode(ItemEdge(i - 1), Defn[t[a].defn].entry)])
    ELSE [t EXCEPT ![a].data = v.value]

\* What an update gives, and the values that are left to import.
WithFile(u, file) == [tree |-> u.tree, ok |-> u.ok, file |-> file]

\* A step of import_yaml.
Loaded(a, u) ==
    LET p == Where(u.tree, a) IN
    IF ~u.ok \/ p \notin DOMAIN u.file THEN u
    ELSE IF ~Assignable(u.tree, a, u.file[p]) THEN [u EXCEPT !.ok = FALSE]
    ELSE WithFile(Update(Assigned(u.tree, a, u.file[p]), a, FALSE),
                  [q \in DOMAIN u.file \ {p} |-> u.file[q]])

\* import_yaml: values are assigned in the order of the definitions, each to a node that
\* has come to be; none may be left.
Import(t, file) ==
    LET loadAll(u, d) == FoldSet(Loaded, u, Nodes(u.tree, d))
        end == FoldLeft(loadAll, WithFile(ResetNode(t, Root), file), Order)
    IN [tree |-> end.tree, ok |-> end.ok /\ DOMAIN end.file = {}]

-----------------------------------------------------------------------------
(* paramtree_editor and its states *)

Empty == [a \in {Root} |-> NewNode(ChildEdge(""), "system")]

\* Nothing is below a tree that has not been opened.
ParamInit ==
    /\ tree = Empty
    /\ nav = Root
    /\ editor = "closed"
    /\ cutOff = FALSE

Open ==
    /\ editor = "closed"
    /\ tree' = Update(Empty, Root, TRUE).tree
    /\ editor' = "editing"
    /\ UNCHANGED <<nav, cutOff>>

\* reload_pt_schema: everything below the root is updated, and the position found again.
Reload(t) ==
    LET u == Update(t, Root, FALSE)
        pos == Follow(u.tree, Where(t, nav))
    IN /\ tree' = u.tree
       /\ nav' = IF pos = NoNode THEN nav ELSE pos
       /\ editor' = IF u.ok /\ pos # NoNode THEN "editing" ELSE "failed"
       /\ cutOff' = FALSE

\* find_descendent, for each name: the nearest node of that name, at the position or below
\* it, if there is but one, is looked up by its path.
Descendents ==
    LET named == {b \in DOMAIN tree \ {Root} : IsPrefix(nav, b) /\ tree[b].edge.type = "child"}
        isNearest(b) == \A c \in named \ {b} : tree[c].edge = tree[b].edge => Len(c) > Len(b)
    IN {Follow(tree, Where(tree, b)) : b \in {b \in named : isNearest(b)}} \ {NoNode}

\* nav_to_node: a command is for the editor's position, its parent, one of its children or
\* a descendent that is named.
Targets ==
    {nav} \cup Children(tree, nav) \cup (IF nav = Root THEN {} ELSE {Front(nav)}) \cup Descendents

Navigate(a) ==
    /\ editor = "editing" /\ a # nav
    /\ nav' = a
    /\ UNCHANGED <<tree, editor, cutOff>>

\* schema_node_at: the schema of the node that the path leads to.
SchemaNodeAt(path) ==
    LET a == Follow(tree, path) IN IF a = NoNode THEN NoSchema ELSE tree[a].schema

\* on_setvalue, for a value that the schema allows; others are refused.
SetValue(a, v) ==
    LET schema == SchemaNodeAt(Where(tree, a))
    IN /\ editor = "editing"
       /\ schema # NoSchema /\ IsLeaf(schema.id)
       /\ v.type = Defn[schema.id].kind /\ FitsSchema(v, schema)
       /\ Reload([tree EXCEPT ![a].data = v])

Bound(d) == IF d = "specs" THEN MaxSpecs ELSE MaxInstances

IsList == tree[nav].data.type = "list"

\* on_add: the schema of the new entry comes with the update.
AddItem ==
    /\ editor = "editing" /\ IsList /\ ChildCount(tree, nav) < Bound(tree[nav].defn)
    /\ Reload(AddNodes(tree, nav, <<NewNode(ItemEdge(ChildCount(tree, nav)), NoDefn)>>))

RemoveItem(i) ==
    /\ editor = "editing" /\ IsList
    /\ Reload(RemoveBranch(tree, Append(nav, i)))

\* The editor's position after the nodes below a have been deleted.
KeepPosition(a) == editor' = IF IsStrictPrefix(a, nav) THEN "lost" ELSE "editing"

\* on_reset: only what depends on the node is updated, which is nothing if it has no definition.
ResetAt(a) ==
    /\ editor = "editing"
    /\ LET u == ResetNode(tree, a)
       IN /\ tree' = u.tree
          /\ IF u.ok THEN KeepPosition(a) ELSE editor' = "failed"
    /\ cutOff' = (cutOff \/ (tree[a].defn = NoDefn /\ Below(tree, a) # {}))
    /\ UNCHANGED nav

\* on_load, of a file for the whole tree; one that does not fit is loaded in part.
Load(file) ==
    /\ editor = "editing" /\ Root \in Targets
    /\ tree' = Import(tree, file).tree
    /\ KeepPosition(Root)
    /\ cutOff' = FALSE
    /\ UNCHANGED nav

Values == [type : {"enum"}, strings : SUBSET (Types \cup Names)]
              \cup [type : {"string"}, strings : {{}} \cup {{n} : n \in Names}]

\* A file that names one specification, and an instance that refers to a name.
FileWith(name, ref) ==
    LET specs == <<ChildEdge("specs")>>
        spec == Append(specs, ItemEdge(0))
        instances == <<ChildEdge("instances")>>
        selected == Append(spec, ChildEdge("agent_type"))
        named == spec \o <<ChildEdge("contents"), CondEdge, ChildEdge("name")>>
        refers == instances \o <<ItemEdge(0), ChildEdge("spec_ref")>>
        Entry(v, n) == [value |-> v, size |-> n]
    IN [p \in {specs, selected, named, instances, refers} |->
            CASE p \in {specs, instances} -> Entry(Value("list", {}), 1)
              [] p = selected -> Entry(Value("enum", Types), 0)
              [] p = named -> Entry(Value("string", {name}), 0)
              [] p = refers -> Entry(Value("enum", {ref}), 0)]

ParamNext ==
    \/ Open
    \/ \E a \in Targets : Navigate(a) \/ ResetAt(a) \/ \E v \in Values : SetValue(a, v)
    \/ AddItem \/ \E i \in 1..ChildCount(tree, nav) : RemoveItem(i)
    \/ \E name \in Names, ref \in Names \cup Types : Load(FileWith(name, ref))

ParamSpec == ParamInit /\ [][ParamNext]_paramVars

-----------------------------------------------------------------------------
(* Properties *)

\* An item that has moved up since it got its index.
IndexStale(t) == \E a \in DOMAIN t \ {Root} : t[a].edge.type = "item" /\ t[a].edge.idx # Last(a) - 1

\* Remains of what a condition has taken away: a null definition is never processed.
LeftBehind(t) == \E a \in DOMAIN t : t[a].defn = NoDefn /\ t[a].schema # NoSchema

\* The node is what its definition says, given the values of the others.
IsCurrent(t, a) ==
    LET d == t[a].defn
        children == {Append(a, i) : i \in 1..ChildCount(t, a)}
    IN /\ t[a].schema.id = d
       /\ Defn[d].kind = "composite" =>
              /\ Cardinality(children) = Len(Defn[d].children)
              /\ \A b \in children : [name |-> t[b].edge.name, defn |-> t[b].defn] = Defn[d].children[Last(b)]
       /\ Defn[d].kind = "list" => \A b \in children : t[b].defn = Defn[d].entry
       /\ d = "whenTyped" =>
              t[Append(a, 1)].defn = IF t[Append(Front(a), 1)].data.strings = {} THEN NoDefn ELSE "contents"
       /\ d = "type" => t[a].schema.options = Types
       /\ d = "spec_ref" => t[a].schema.options = UNION {t[b].data.strings : b \in Nodes(t, "name")}
       /\ IsLeaf(d) => t[a].data.type = Defn[d].kind /\ FitsSchema(t[a].data, t[a].schema)

\* After each command the whole tree agrees with its definition: one pass in the order of
\* the definitions has updated everything that depends, directly or not, on what changed,
\* although nodes come and go meanwhile.  It may not where a list's indices are stale, or
\* after a reset below a null definition, which updates nothing.
TreeUpToDate ==
    editor \in {"editing", "lost"} /\ ~IndexStale(tree) /\ ~cutOff =>
        \A a \in DOMAIN tree \ {Root} : tree[a].defn # NoDefn => IsCurrent(tree, a)

\* A lookup, which finds paths by the indices of items and follows them by position, fails
\* only in a list that an item other than the last has been removed from.
LookupsSucceed == editor = "failed" => IndexStale(tree)

\* What is saved can be loaded again and gives the same tree: import assigns the values
\* in an order in which each one's node exists and takes it, however the values depend on
\* one another.  It may not if something is left behind that the file does not have.
LoadRestoresSaved ==
    editor = "editing" /\ nav = Root /\ ~IndexStale(tree) /\ ~LeftBehind(tree) =>
        LET u == Import(tree, Exported(tree)) IN u.ok /\ u.tree = tree

\* Setting a value leaves the others alone that still fit: the reload, which instantiates
\* every schema anew and adjusts the values to it, loses none of them.
OthersKept ==
    [][tree' # tree => \A a \in Targets : a \in DOMAIN tree' /\ SetValue(a, tree'[a].data) =>
           \A b \in (DOMAIN tree' \cap DOMAIN tree) \ {a} :
               tree[b].defn # NoDefn /\ tree'[b].data # tree[b].data =>
                   ~FitsSchema(tree[b].data, tree'[b].schema)]_paramVars

=============================================================================
