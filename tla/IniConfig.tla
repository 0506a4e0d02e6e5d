----------------------------- MODULE IniConfig -----------------------------
(***************************************************************************)
(* inipares/iniconfile.c: the configuration is a binary tree of sections,  *)
(* each holding a binary tree of keys.  Insertion and lookup compare keys  *)
(* with two different functions.                                           *)
(***************************************************************************)
EXTENDS Integers, SequencesExt

CONSTANTS
    Names,      \* the section names
    Default,    \* the section "default"
    Keys,       \* Keys[name]: the keys used in a section, nonempty sequences of bytes
    Values,
    NoValue     \* no such key: the getters answer their default

(* A C string has no byte 0. *)
ASSUME StringsAssumption ==
    /\ Default \in Names
    /\ \A k \in Names \cup UNION {Keys[name] : name \in Names} :
          k \in Seq(1 .. 255) /\ k # << >>

VARIABLES
    config,     \* the CONFIG_BTREE of sections
    expected    \* history: the last value set for each key of each section

vars == <<config, expected>>

-----------------------------------------------------------------------------
(* Strings *)

(* Beyond its end a string has a byte 0. *)
Byte(s, i) == IF i <= Len(s) THEN s[i] ELSE 0

(* The first differing byte among the first n decides. *)
Compare(s, t, n) ==
    LET D == {i \in 1 .. n : Byte(s, i) # Byte(t, i)}
    IN  IF D = {} THEN 0 ELSE Byte(s, Min(D)) - Byte(t, Min(D))

(* How many bytes memcmp(key, ..) and strcmp(key, ..) compare. *)
memcmp(key) == Len(key)
strcmp(key) == Len(key) + 1

-----------------------------------------------------------------------------
(* The trees: a CONFIG_BTREE_NODE has a place, the turns on the way to it, and
   a tree is a function from the places of its nodes. *)

Empty == [numNodes |-> 0, root |-> << >>]

Sides == {"left", "right"}
Turn(c) == IF c > 0 THEN "right" ELSE "left"

(* The node at q is in the subtree on side d of the node at p. *)
Below(p, d, q) == IsPrefix(Append(p, d), q)

(* The loop that compares n bytes of the key gets from the root to p. *)
Leads(t, key, n, p) ==
    \A i \in 1 .. Len(p) :
        LET q == SubSeq(p, 1, i - 1)
        IN  /\ q \in DOMAIN t
            /\ Compare(key, t[q].key, n) # 0
            /\ p[i] = Turn(Compare(key, t[q].key, n))

(* Where it ends: at a node, or where there is none. *)
End(t, key, n) ==
    CHOOSE p \in {<< >>} \cup DOMAIN t \cup {Append(q, d) : q \in DOMAIN t, d \in Sides} :
        /\ Leads(t, key, n, p)
        /\ p \in DOMAIN t => Compare(key, t[p].key, n) = 0

(* config_btree_find_node: whether there is a node, and its data. *)
Has(t, key) == End(t, key, strcmp(key)) \in DOMAIN t
Find(t, key) == t[End(t, key, strcmp(key))].data

(* What is written through the pointer that the lookup of a section yields. *)
Store(t, key, data) == [t EXCEPT ![End(t, key, strcmp(key))].data = data]

(* The tree with this node at p. *)
With(t, p, node) == [q \in DOMAIN t \cup {p} |-> IF q = p THEN node ELSE t[q]]

(* Bug: an update counts as a new node. *)
PutCounts(tree, key, data) ==
    LET p == End(tree.root, key, memcmp(key))
    IN  [numNodes |-> tree.numNodes + 1,
         root |-> With(tree.root, p, [key |-> key, data |-> data])]

(* config_btree_insert_node: a new node, or one in the place of the node whose
   key begins with the new one. *)
Put(tree, key, data) ==
    LET p == End(tree.root, key, memcmp(key))
    IN  [numNodes |-> IF p \in DOMAIN tree.root THEN tree.numNodes
                      ELSE tree.numNodes + 1,
         root |-> With(tree.root, p, [key |-> key, data |-> data])]

(* Bug: the child itself is taken for the last node in its subtree. *)
ChildOnly(t, p, side, back) == Append(p, side)

(* The last node on the way back from the child of p on a side. *)
Extreme(t, p, side, back) ==
    CHOOSE m \in DOMAIN t :
        /\ Below(p, side, m)
        /\ \A i \in Len(p) + 2 .. Len(m) : m[i] = back
        /\ Append(m, back) \notin DOMAIN t

(* The node that takes the place of the one at p when that is deleted. *)
Spare(t, p) ==
    IF Append(p, "left") \in DOMAIN t THEN Extreme(t, p, "left", "right")
    ELSE IF Append(p, "right") \in DOMAIN t THEN Extreme(t, p, "right", "left")
    ELSE p

(* Where the node at r gets: the subtree of the node at m moves up by one. *)
Moved(p, m, r) ==
    CASE r = m -> p
      [] r # m /\ IsPrefix(m, r) -> RemoveAt(r, Len(m) + 1)
      [] OTHER -> r

(* Bug: the moved node loses its subtree. *)
DeleteBranch(t, p) ==
    LET m == Spare(t, p)
        Nodes == {r \in DOMAIN t \ {p} : IsPrefix(m, r) => r = m}
    IN  [q \in {Moved(p, m, r) : r \in Nodes} |->
            t[CHOOSE r \in Nodes : Moved(p, m, r) = q]]

Delete(t, p) ==
    LET m == Spare(t, p)
        Nodes == DOMAIN t \ {p}
    IN  [q \in {Moved(p, m, r) : r \in Nodes} |->
            t[CHOOSE r \in Nodes : Moved(p, m, r) = q]]

(* config_btree_delete_node *)
RemoveNode(tree, key) ==
    LET p == End(tree.root, key, strcmp(key))
    IN  IF p \notin DOMAIN tree.root THEN tree
        ELSE [numNodes |-> tree.numNodes - 1, root |-> Delete(tree.root, p)]

(* config_btree_inorder_traverse, which ini_config_save writes in. *)
Precedes(t, p, q) ==
    \/ Below(p, "right", q) \/ Below(q, "left", p)
    \/ \E c \in DOMAIN t : Below(c, "left", p) /\ Below(c, "right", q)

InOrder(t) ==
    LET Place(i) == CHOOSE p \in DOMAIN t :
                        Cardinality({q \in DOMAIN t : Precedes(t, q, p)}) = i - 1
    IN  [i \in 1 .. Cardinality(DOMAIN t) |-> t[Place(i)].key]

-----------------------------------------------------------------------------
(* The configuration *)

(* config_btree_insert_section: a section that was there before is replaced
   by an empty one. *)
InsertSection(c, name) == Put(c, name, Empty)

(* A change of one section, found by its name. *)
Within(c, name, section) == [c EXCEPT !.root = Store(c.root, name, section)]

NoKeys(name) == [key \in Keys[name] |-> NoValue]

(* ini_config_create_from_string begins with the section "default". *)
Init ==
    /\ config = InsertSection(Empty, Default)
    /\ expected = [name \in Names |-> NoKeys(name)]

(* A section header in the file (parser_on_section_end). *)
Header(name) ==
    /\ config' = InsertSection(config, name)
    /\ expected' = [expected EXCEPT ![name] = NoKeys(name)]

(* ini_config_set_string, and a line "key = value" of the file, whose section
   exists. *)
SetString(name, key, value) ==
    /\ config' = LET c == IF Has(config.root, name) THEN config
                          ELSE InsertSection(config, name)
                 IN  Within(c, name, Put(Find(c.root, name), key, value))
    /\ expected' = [expected EXCEPT ![name][key] = value]

DeleteKey(name, key) ==
    /\ Has(config.root, name)
    /\ config' = Within(config, name, RemoveNode(Find(config.root, name), key))
    /\ expected' = [expected EXCEPT ![name][key] = NoValue]

(* ini_config_get_string *)
GetString(c, name, key) ==
    IF Has(c.root, name) /\ Has(Find(c.root, name).root, key)
      THEN Find(Find(c.root, name).root, key) ELSE NoValue

Next ==
    \E name \in Names :
        \/ Header(name)
        \/ \E key \in Keys[name] : DeleteKey(name, key)
        \/ \E key \in Keys[name], value \in Values : SetString(name, key, value)

Spec == Init /\ [][Next]_vars

-----------------------------------------------------------------------------

(* P holds of the tree of sections and of the tree of every section. *)
EveryTree(P(_)) ==
    /\ P(config)
    /\ \A name \in Names : Has(config.root, name) => P(Find(config.root, name))

(* What a key was last set to is what the getters answer (iniconfile.h line
   75): no insertion or deletion hides or changes another key. *)
GetAnswersLastSet ==
    \A name \in Names : \A key \in Keys[name] :
        GetString(config, name, key) = expected[name][key]

(* Every tree stays a search tree for the comparison of the lookup, so that
   every node in it can be found, and the file is saved in ascending order. *)
Sorted(tree) ==
    \A p, q \in DOMAIN tree.root :
        Precedes(tree.root, p, q) =>
            Compare(tree.root[p].key, tree.root[q].key, strcmp(tree.root[p].key)) < 0
SearchTrees == EveryTree(Sorted)

(* numNodes counts the nodes, through updates and deletions. *)
Counted(tree) == tree.numNodes = Cardinality(DOMAIN tree.root)
NodesCounted == EveryTree(Counted)
=============================================================================
