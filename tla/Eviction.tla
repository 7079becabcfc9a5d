------------------------------ MODULE Eviction ------------------------------
(***************************************************************************)
(* evict_oldest_entries of stores.rs with its bounded heap.                 *)
(*                                                                          *)
(* A map is the sequence of its timestamps, in the order in which it is     *)
(* iterated, which is any order; an entry is its place in it.  A heap is a  *)
(* sequence of entries, whose root is 1 where the code has 0.               *)
(***************************************************************************)
EXTENDS Integers, Sequences, SequencesExt

Swap(heap, i, j) == [heap EXCEPT ![i] = heap[j], ![j] = heap[i]]

(* sift_up *)
RECURSIVE SiftUp(_, _, _)
SiftUp(heap, ts, i) ==
    LET parent == i \div 2
    IN IF i = 1 \/ ts[heap[parent]] >= ts[heap[i]] THEN heap
       ELSE SiftUp(Swap(heap, parent, i), ts, parent)

(* sift_down *)
RECURSIVE SiftDown(_, _, _)
SiftDown(heap, ts, i) ==
    LET larger(a, b) == IF b <= Len(heap) /\ ts[heap[b]] > ts[heap[a]] THEN b ELSE a
        largest == larger(larger(i, 2 * i), 2 * i + 1)
    IN IF largest = i THEN heap ELSE SiftDown(Swap(heap, largest, i), ts, largest)

(* evict_oldest_entries: what is removed. *)
Evicted(ts, maxEntries) ==
    LET removeCount == IF Len(ts) > maxEntries THEN Len(ts) - maxEntries ELSE 0
        look(heap, k) ==
            IF Len(heap) < removeCount THEN SiftUp(Append(heap, k), ts, Len(heap) + 1)
            ELSE IF ts[k] < ts[heap[1]] THEN SiftDown([heap EXCEPT ![1] = k], ts, 1)
            ELSE heap
    IN IF removeCount = 0 THEN <<>>
       ELSE FoldLeft(look, <<>>, [k \in DOMAIN ts |-> k])
------------------------------------------------------------------------------
(* stores.rs, evict_oldest_entries - as many entries are removed as are too *)
(* many, each once, and none that is newer than one that stays: what module *)
(* Signin takes eviction to be.                                             *)
OldestAreEvicted(ts) ==
    \A maxEntries \in 0..(Len(ts) + 1) :
        LET out == Evicted(ts, maxEntries)
        IN /\ Len(out) = IF Len(ts) > maxEntries THEN Len(ts) - maxEntries ELSE 0
           /\ IsInjective(out)
           /\ \A gone \in ToSet(out) : \A left \in DOMAIN ts \ ToSet(out) : ts[gone] <= ts[left]
==============================================================================
