-------------------------- MODULE CircularLinkedList --------------------------
(***************************************************************************)
(* Functions/CircularLinkedList: lists of NodeData linked both ways in a   *)
(* circle through a head node without data. All lists share the heap and,  *)
(* as NodeData's operator new and delete are those of the memory pool, the *)
(* free blocks: the block freed last is the first one used again.          *)
(*                                                                         *)
(* A heap is a record of functions from nodes (next, prev, data), a list a *)
(* record [head, tail]; every operator is one call of the class.           *)
(***************************************************************************)
EXTENDS Naturals, FiniteSets

CONSTANTS Nodes, NoNode   (* The blocks of the pool; the null pointer.      *)

ASSUME NodesAssumption == NoNode \notin Nodes /\ IsFiniteSet(Nodes)

(* The constructor. A fresh head has no neighbours, not even itself.        *)
NewList(h) == [head |-> h, tail |-> h]

(* NodeData(T&&): the block as the constructor leaves it.                   *)
Constructed(m, n, d) ==
  [m EXCEPT !.next[n] = NoNode, !.prev[n] = NoNode, !.data[n] = d]

(* push_back of a constructed node: the heap and the list it leaves.        *)
LinkedBack(m, l, n) ==
  IF m.next[l.tail] = NoNode
    THEN [m EXCEPT !.next = [@ EXCEPT ![n] = l.head, ![l.head] = n],
                   !.prev = [@ EXCEPT ![n] = l.head, ![l.head] = n]]
    ELSE [m EXCEPT !.next = [@ EXCEPT ![n] = m.next[l.tail], ![l.tail] = n],
                   !.prev = [@ EXCEPT ![n] = l.tail, ![m.next[l.tail]] = n]]

TailAfterPush(l, n) == [l EXCEPT !.tail = n]

(* Defect: the links of the node are cleared.                               *)
ErasedNulls(m, n) ==
  [m EXCEPT !.next = [@ EXCEPT ![m.prev[n]] = m.next[n], ![n] = NoNode],
            !.prev = [@ EXCEPT ![m.next[n]] = m.prev[n], ![n] = NoNode]]

(* erase: the neighbours are joined, and the node itself, about to be       *)
(* freed, is made to lead back to the one before it.                        *)
Erased(m, n) ==
  LET after == m.next[n]
      before == m.prev[n]
  IN  [m EXCEPT !.next = [@ EXCEPT ![before] = after, ![n] = before],
                !.prev = [@ EXCEPT ![after] = before, ![n] = after]]

(* Defect: the tail is not moved off the node that is erased.               *)
TailKept(m, l, n) == l

TailAfterErase(m, l, n) ==
  IF n = l.tail THEN [l EXCEPT !.tail = m.prev[n]] ELSE l

IsEmptyList(m, l) == m.next[l.head] \in {NoNode, l.head}

Begin(m, l) == m.next[l.head]

End(m, l) == m.next[l.tail]

(* The nodes that a walk along next from the head meets: those that are in  *)
(* every set that has the head and with a node the one after it. For the    *)
(* properties.                                                              *)
NodesOf(m, l) ==
  LET walks == {S \in SUBSET Nodes :
                  l.head \in S /\ \A n \in S : m.next[n] \in S \cup {NoNode}}
  IN  {n \in Nodes : \A S \in walks : n \in S} \ {l.head}
=============================================================================
