------------------------------ MODULE SkipList ------------------------------
(***************************************************************************)
(* The skip list of src/src/memtable/skiplist.rs.  A list is its heap: the  *)
(* nodes that are allocated, by address, with their raw next pointers.      *)
(* Following a pointer to a node that was freed, or a lane a node does not  *)
(* have, is a function applied outside its domain, which TLC reports.       *)
(***************************************************************************)
EXTENDS ByteOrder

CONSTANTS
    MaxLevel,      \* max_level, the number of lanes
    ListSize,      \* size of an empty list
    NodeSize,      \* bytes of a node without key, value and pointers
    PointerSize,   \* bytes of a pointer
    Words          \* states of the random generator

ASSUME SkipListAssumption ==
    /\ MaxLevel \in Nat \ {0} /\ ListSize \in Nat /\ PointerSize \in Nat
    /\ NodeSize \in Nat \ {0}
    /\ Words \subseteq Nat /\ Words # {}

Head0 == 0
Null == -1

(* next[1] is lane 0 of the code.                                           *)
Node(key, value, lanes) == [key |-> key, value |-> value, next |-> [i \in 1 .. lanes |-> Null]]

NewList == [nodes |-> [n \in {Head0} |-> Node(<< >>, << >>, MaxLevel)], size |-> ListSize]

(* The last binary digits of w that are 0.                                  *)
TrailingZeros(w) == Max({z \in 0 .. w : \A i \in 0 .. z - 1 : Shifted(w, w, 2)[i] % 2 = 0})

(* random_level: the word is made odd before its trailing zeros are         *)
(* counted, so there are none: every tower has one lane.                    *)
RandomLevel(word) ==
    LET bits == IF word % 2 = 0 THEN word + 1 ELSE word
    IN  Min({TrailingZeros(bits), MaxLevel - 1})

(* Where a lane leads from address n, pointer by pointer.  There are more   *)
(* steps than nodes: a lane that comes back on itself shows twice.          *)
Followed(nodes, n, lane) ==
    LET at[i \in 0 .. Cardinality(DOMAIN nodes)] ==
            IF i = 0 THEN n
            ELSE IF at[i - 1] = Null THEN Null ELSE nodes[at[i - 1]].next[lane]
    IN  at

(* The addresses a walk along a lane meets from address n on.               *)
LaneFrom(nodes, n, lane) ==
    LET at == Followed(nodes, n, lane)
    IN  [i \in 1 .. Cardinality({j \in DOMAIN at : at[j] # Null}) |-> at[i - 1]]

(* Mutant of Walk: the walk steps onto an equal key.                        *)
WalkOnto(nodes, from, lane, key) ==
    LET path == LaneFrom(nodes, from, lane)
        passed == {i \in DOMAIN path : \A j \in 2 .. i : ~Less(key, nodes[path[j]].key)}
    IN  path[Max(passed)]

(* The inner loop of insert, get and scan: the last node of a lane, from    *)
(* one on, that is reached over keys below key.                             *)
Walk(nodes, from, lane, key) ==
    LET path == LaneFrom(nodes, from, lane)
        passed == {i \in DOMAIN path : \A j \in 2 .. i : Less(nodes[path[j]].key, key)}
    IN  path[Max(passed)]

(* The outer loop, from the highest lane down: update.                      *)
Predecessors(nodes, key) ==
    LET pred[i \in 1 .. MaxLevel + 1] ==
            IF i = MaxLevel + 1 THEN Head0 ELSE Walk(nodes, pred[i + 1], i, key)
    IN  pred

(* The first node of the bottom lane that is not below key.                 *)
Ceiling(nodes, key) == nodes[Predecessors(nodes, key)[1]].next[1]

(* Mutant of Overwritten: the node allocated for the insert is not freed.   *)
OverwrittenLeaky(nodes, old, value, new, node) ==
    new :> node @@ [nodes EXCEPT ![old].value = value]

(* The heap after an upsert: the value is replaced in place and the node    *)
(* that was allocated at new is freed again.                                *)
Overwritten(nodes, old, value, new, node) == [nodes EXCEPT ![old].value = value]

(* The heap after the new node was spliced into its lanes.                  *)
Spliced(nodes, update, new, node) ==
    LET lanes == DOMAIN node.next
        to(n, i) == IF i \in lanes /\ update[i] = n THEN new ELSE nodes[n].next[i]
    IN  [n \in DOMAIN nodes \cup {new} |->
            IF n = new THEN [node EXCEPT !.next = [i \in lanes |-> nodes[update[i]].next[i]]]
            ELSE [nodes[n] EXCEPT !.next = [i \in DOMAIN nodes[n].next |-> to(n, i)]]]

(* insert: an existing key gets the new value and the size stays; else a    *)
(* node is spliced in and its bytes are added.                              *)
Insert(list, key, value, level) ==
    LET nodes == list.nodes
        new == Min((1 .. Cardinality(DOMAIN nodes)) \ DOMAIN nodes)
        node == Node(key, value, level + 1)
        old == Ceiling(nodes, key)
    IN  IF old # Null /\ nodes[old].key = key
        THEN [list EXCEPT !.nodes = Overwritten(@, old, value, new, node)]
        ELSE [nodes |-> Spliced(nodes, Predecessors(nodes, key), new, node),
              size |-> list.size + Len(key) + Len(value)
                          + (level + 1) * PointerSize + NodeSize]

(* get, as a set with at most one value.                                    *)
Get(list, key) ==
    LET n == Ceiling(list.nodes, key)
    IN  IF n # Null /\ list.nodes[n].key = key THEN {list.nodes[n].value} ELSE {}

Entry(list, n) == << list.nodes[n].key, list.nodes[n].value >>

(* iter: FullIterator.                                                      *)
Iter(list) ==
    LET lane == LaneFrom(list.nodes, list.nodes[Head0].next[1], 1)
    IN  [i \in DOMAIN lane |-> Entry(list, lane[i])]

(* scan: ScanIterator stops at the first key that is not below end.         *)
ScanList(list, start, end) ==
    LET lane == LaneFrom(list.nodes, Ceiling(list.nodes, start), 1)
        below == {i \in DOMAIN lane : \A j \in 1 .. i : Less(list.nodes[lane[j]].key, end)}
    IN  [i \in below |-> Entry(list, lane[i])]

(* drop: the head and the nodes of the bottom lane are freed.  What is left *)
(* has leaked.                                                              *)
Leaked(list) == DOMAIN list.nodes \ Range(LaneFrom(list.nodes, Head0, 1))
=============================================================================
