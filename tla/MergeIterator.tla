---------------------------- MODULE MergeIterator ----------------------------
(***************************************************************************)
(* The multi-way merge of src/src/compaction/merge_iterator.rs: a heap that *)
(* holds the next entry of each source.  Entries are pairs of key and value.*)
(***************************************************************************)
EXTENDS ByteOrder

(* Mutant of Before: on equal keys the later source comes first.            *)
BeforeLaterSource(a, b) == Less(a.key, b.key) \/ (a.key = b.key /\ a.source > b.source)

(* Ord for HeapEntry.                                                       *)
Before(a, b) == Less(a.key, b.key) \/ (a.key = b.key /\ a.source < b.source)

(* The next entry of a source, when there is one, goes to the heap.         *)
Pull(it, s) ==
    IF it.sources[s] = << >> THEN it
    ELSE LET e == it.sources[s][1]
         IN  [heap |-> it.heap \cup {[key |-> e[1], value |-> e[2], source |-> s]},
              sources |-> [it.sources EXCEPT ![s] = Tail(@)]]

(* MergeIterator::new: one entry of each of the first n sources.            *)
Seeded(sources) ==
    LET it[n \in 0 .. Len(sources)] ==
            IF n = 0 THEN [heap |-> {}, sources |-> sources] ELSE Pull(it[n - 1], n)
    IN  it

NewMerge(sources) == Seeded(sources)[Len(sources)]

(* MergeIterator::next: pop, then pull from the source of the popped entry. *)
Popped(it) == CHOOSE e \in it.heap : \A o \in it.heap \ {e} : Before(e, o)
Step(it) == Pull([it EXCEPT !.heap = @ \ {Popped(it)}], Popped(it).source)

(* The entries of the first n sources, counted.                             *)
Counts(sources) ==
    LET count[n \in 0 .. Len(sources)] ==
            IF n = 0 THEN 0 ELSE count[n - 1] + Len(sources[n])
    IN  count

(* The iterator after n calls of next, and what they returned ...           *)
Runs(sources) ==
    LET run[n \in 0 .. Counts(sources)[Len(sources)]] ==
            IF n = 0 THEN [it |-> NewMerge(sources), out |-> << >>]
            ELSE LET prev == run[n - 1]
                     e == Popped(prev.it)
                 IN  [it |-> Step(prev.it), out |-> Append(prev.out, << e.key, e.value >>)]
    IN  run

(* ... and all it yields until the heap is empty.                           *)
Merged(sources) == Runs(sources)[Counts(sources)[Len(sources)]].out
=============================================================================
