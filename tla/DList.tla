--------------------------------- MODULE DList ---------------------------------
(***************************************************************************)
(* The doubly linked list of util/dlist.c: a head node that holds no item, *)
(* the nodes after it, a pointer to the last one and a count.  The list is *)
(* checked against the sequence of nodes its callers mean it to hold.      *)
(*                                                                         *)
(* Three operations leave the links in a state some other operation does   *)
(* not expect; the list remembers them as lapses.  After the last two a    *)
(* caller can only destroy the list.                                       *)
(***************************************************************************)
EXTENDS Naturals, Sequences

Seqs == INSTANCE SequencesExt

CONSTANTS
  Nodes,          \* what MakeNode allocates
  HeadNode, Null   \* the node that holds no item; no node

ASSUME NodesAssumption == HeadNode # Null /\ {HeadNode, Null} \cap Nodes = {}

VARIABLES
  next, previous,   \* the links of the nodes and of the head
  tail, size,
  meant,            \* the nodes the list should hold, in order
  lapses            \* emptied: its only node was taken with DelFirst
                    \* middle: a node was inserted after one that is not the last; cleared: ClearList

listvars == <<next, previous, tail, size, meant, lapses>>

Listed == {meant[k] : k \in 1 .. Len(meant)}
IsEmpty == size = 0 /\ tail = HeadNode
Usable == lapses \subseteq {"emptied"}

\* The position of node p, and the sequence with s before position k.
At(p) == CHOOSE k \in 1 .. Len(meant) : meant[k] = p
With(k, s) == Seqs!InsertAt(meant, k, s)

-----------------------------------------------------------------------------
(* Insertions *)

InsFirst(s) ==
  /\ Usable /\ s \notin Listed
  /\ tail' = IF IsEmpty THEN s ELSE tail
  /\ size' = size + 1
  /\ previous' = [p \in Nodes \cup {HeadNode} |->
                    IF p = next[HeadNode] THEN s ELSE IF p = s THEN HeadNode ELSE previous[p]]
  /\ next' = [next EXCEPT ![s] = next[HeadNode], ![HeadNode] = s]
  /\ meant' = <<s>> \o meant
  /\ UNCHANGED lapses

InsBefore(p, s) ==
  /\ Usable /\ p \in Listed /\ s \notin Listed
  /\ next' = [next EXCEPT ![s] = p, ![previous[p]] = s]
  /\ previous' = [previous EXCEPT ![s] = previous[p], ![p] = s]
  /\ size' = size + 1
  /\ meant' = With(At(p), s)
  /\ UNCHANGED <<tail, lapses>>

\* The test of the last node is an assignment (dlist.c:214): the new node is the last, always.
InsAfter(p, s) ==
  /\ Usable /\ p \in Listed /\ s \notin Listed
  /\ next' = [next EXCEPT ![s] = next[p], ![p] = s]
  /\ previous' = [q \in Nodes \cup {HeadNode} |->
                    IF q = next[p] THEN s ELSE IF q = s THEN p ELSE previous[q]]
  /\ tail' = s
  /\ size' = size + 1
  /\ meant' = With(At(p) + 1, s)
  /\ lapses' = IF p = tail THEN lapses ELSE lapses \cup {"middle"}

-----------------------------------------------------------------------------
(* Removals *)

\* Mutant: the node after the first keeps its link to it.
DelMore_KeepsLink ==
  /\ Usable /\ ~IsEmpty /\ next[HeadNode] # tail
  /\ next' = [next EXCEPT ![HeadNode] = next[next[HeadNode]]]
  /\ size' = size - 1
  /\ meant' = Tail(meant)
  /\ UNCHANGED <<previous, tail, lapses>>

\* DelFirst of a list of several nodes.  Its callers test IsEmpty first.
DelMore ==
  /\ Usable /\ ~IsEmpty /\ next[HeadNode] # tail
  /\ next' = [next EXCEPT ![HeadNode] = next[next[HeadNode]]]
  /\ previous' = [previous EXCEPT ![next[next[HeadNode]]] = HeadNode]
  /\ size' = size - 1
  /\ meant' = Tail(meant)
  /\ UNCHANGED <<tail, lapses>>

\* DelFirst of the only node: the head becomes its own neighbour (dlist.c:146).
DelOnly ==
  /\ Usable /\ ~IsEmpty /\ next[HeadNode] = tail
  /\ tail' = previous[tail]
  /\ next' = [next EXCEPT ![HeadNode] = tail']
  /\ previous' = [previous EXCEPT ![tail'] = HeadNode]
  /\ size' = size - 1
  /\ meant' = Tail(meant)
  /\ lapses' = lapses \cup {"emptied"}

Remove ==
  /\ Usable /\ ~IsEmpty
  /\ next' = [next EXCEPT ![previous[tail]] = next[tail]]
  /\ tail' = previous[tail]
  /\ size' = size - 1
  /\ meant' = Seqs!Front(meant)
  /\ UNCHANGED <<previous, lapses>>

\* The nodes are freed from the last on, and the head keeps its link to the first.
ClearList ==
  /\ Usable
  /\ tail' = HeadNode /\ size' = 0
  /\ meant' = <<>>
  /\ lapses' = IF IsEmpty THEN lapses ELSE lapses \cup {"cleared"}
  /\ UNCHANGED <<next, previous>>

\* DestroyList, and InitList for another.
Renew ==
  /\ next' = [p \in Nodes \cup {HeadNode} |-> Null] /\ previous' = next'
  /\ tail' = HeadNode /\ size' = 0
  /\ meant' = <<>> /\ lapses' = {}

ListInit ==
  /\ next = [p \in Nodes \cup {HeadNode} |-> Null] /\ previous = next
  /\ tail = HeadNode /\ size = 0
  /\ meant = <<>> /\ lapses = {}

ListNext ==
  \/ \E s \in Nodes : InsFirst(s) \/ \E p \in Nodes : InsBefore(p, s) \/ InsAfter(p, s)
  \/ DelMore \/ DelOnly \/ Remove \/ ClearList \/ Renew

ListSpec == ListInit /\ [][ListNext]_listvars

-----------------------------------------------------------------------------
(* Properties *)

\* Every variable has a value the code can give it.
ListTypeOK ==
  /\ next \in [Nodes \cup {HeadNode} -> Nodes \cup {HeadNode, Null}]
  /\ previous \in [Nodes \cup {HeadNode} -> Nodes \cup {HeadNode, Null}]
  /\ tail \in Nodes \cup {HeadNode} /\ size \in Nat
  /\ lapses \subseteq {"emptied", "middle", "cleared"}

\* Whatever was inserted and removed, LocatePos and ListTraverse go through the nodes in their
\* order, the links back lead through them to the head, and the last node is the one Remove takes,
\* until a lapse breaks it (dlist.c:118, 137, 175, 193, 205).
Linked ==
  Usable =>
    LET chain == <<HeadNode>> \o meant
    IN  /\ size = Len(meant) /\ tail = Seqs!Last(chain)
        /\ \A k \in 1 .. Len(meant) : next[chain[k]] = chain[k + 1] /\ previous[chain[k + 1]] = chain[k]

\* ListTraverse ends: the last node leads nowhere, unless the list was once emptied by DelFirst
\* (dlist.c:147, 246).
TraverseEnds == lapses = {} => next[tail] = Null
=============================================================================
