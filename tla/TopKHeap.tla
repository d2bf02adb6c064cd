------------------------------ MODULE TopKHeap ------------------------------
(***************************************************************************)
(* internal/promsketch/heap.go: the k largest counts of a sketch, as a     *)
(* binary min-heap in an array.  A heap is a sequence of records           *)
(* [key, count]; indices count from 1 here.                                *)
(***************************************************************************)
EXTENDS Integers, Sequences, FiniteSets

Item(key, count) == [key |-> key, count |-> count]

\* The index of key, or 0.
Find(heap, key) ==
  IF \E i \in DOMAIN heap : heap[i].key = key
  THEN CHOOSE i \in DOMAIN heap : heap[i].key = key
  ELSE 0

Swap(heap, i, j) == [heap EXCEPT ![i] = heap[j], ![j] = heap[i]]

\* i or the smaller of its children.
Smallest(heap, i) ==
  LET l == IF 2 * i <= Len(heap) /\ heap[i].count > heap[2 * i].count THEN 2 * i ELSE i
  IN IF 2 * i + 1 <= Len(heap) /\ heap[l].count > heap[2 * i + 1].count
     THEN 2 * i + 1 ELSE l

\* Both sifts move along one path, of at most Len(heap) steps.
updateOrderDown(heap, i) ==
  LET path[n \in 0..Len(heap)] ==
        IF n = 0 THEN <<heap, i>>
        ELSE LET h == path[n - 1][1]
                 j == path[n - 1][2]
             IN <<Swap(h, j, Smallest(h, j)), Smallest(h, j)>>
  IN path[Len(heap)][1]

updateOrderUp(heap, i) ==
  LET path[n \in 0..Len(heap)] ==
        IF n = 0 THEN <<heap, i>>
        ELSE LET h == path[n - 1][1]
                 j == path[n - 1][2]
             IN IF j > 1 /\ h[j \div 2].count > h[j].count
                THEN <<Swap(h, j \div 2, j), j \div 2>> ELSE path[n - 1]
  IN path[Len(heap)][1]

\* Up only if down has not moved the item.
updateOrder(heap, i) ==
  IF Smallest(heap, i) # i THEN updateOrderDown(heap, i) ELSE updateOrderUp(heap, i)

\* A full heap gives up its smallest item for a larger one.
Insert(heap, k, key, count) ==
  IF Len(heap) < k THEN updateOrderUp(Append(heap, Item(key, count)), Len(heap) + 1)
  ELSE IF heap[1].count < count
       THEN updateOrderDown([heap EXCEPT ![1] = Item(key, count)], 1)
       ELSE heap

HeapUpdate(heap, k, key, count) ==
  LET i == Find(heap, key)
  IN IF i > 0 THEN updateOrder([heap EXCEPT ![i].count = count], i)
     ELSE Insert(heap, k, key, count)

\* For CountSketch, which counts in the heap.
UpdateCS(heap, k, key, count) ==
  LET i == Find(heap, key)
  IN IF i > 0 THEN updateOrder([heap EXCEPT ![i].count = @ + 1], i)
     ELSE Insert(heap, k, key, count)

\* MergeWith of UnivSketch and CountSketch: all of one heap, then the other's counts
\* are added to it.
HeapMerge(heap, other, k) ==
  LET copied[n \in 0..Len(heap)] ==
        IF n = 0 THEN <<>> ELSE HeapUpdate(copied[n - 1], k, heap[n].key, heap[n].count)
      added[n \in 0..Len(other)] ==
        IF n = 0 THEN copied[Len(heap)]
        ELSE LET h == added[n - 1]
                 i == Find(h, other[n].key)
             IN HeapUpdate(h, k, other[n].key,
                           other[n].count + (IF i > 0 THEN h[i].count ELSE 0))
  IN added[Len(other)]

\* What the array must be for its root to be the smallest count.
HeapOrdered(heap) == \A i \in 2..Len(heap) : heap[i \div 2].count <= heap[i].count
=============================================================================
