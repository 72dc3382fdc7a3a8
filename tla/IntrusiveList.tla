--------------------------- MODULE IntrusiveList ---------------------------
(***************************************************************************)
(* SimpleIntrusiveList: a singly linked list whose elements hold the link, *)
(* with a pointer to the link where the next element goes.                 *)
(*                                                                         *)
(* A link is addressed by the element that holds it, or by HeadLink.       *)
(***************************************************************************)
EXTENDS Integers, Sequences, FiniteSets, SequencesExt

CONSTANTS Node, Null, HeadLink

Links == Node \cup {HeadLink}
Empty == [head |-> Null, tail |-> HeadLink, next |-> [n \in Node |-> Null], size |-> 0]

\* *link = n
Store(l, link, n) == IF link = HeadLink THEN [l EXCEPT !.head = n]
                     ELSE [l EXCEPT !.next[link] = n]

\* The elements from the head on, at most all of them.
Chain(l) ==
  LET walk[k \in 0 .. Cardinality(Node)] ==
        [n \in Node \cup {Null} |->
           IF k = 0 \/ n = Null THEN << >> ELSE <<n>> \o walk[k - 1][l.next[n]]]
  IN walk[Cardinality(Node)][l.head]

PushBack(l, n) == [Store(l, l.tail, n) EXCEPT !.tail = n, !.size = @ + 1]

\* Mutant of PushFront: the tail of an empty list stays at the head.
PushFrontKeepsTail(l, n) == [l EXCEPT !.head = n, !.next[n] = l.head, !.size = @ + 1]

PushFront(l, n) == [l EXCEPT !.tail = IF l.head = Null THEN n ELSE @,
                             !.next[n] = l.head, !.head = n, !.size = @ + 1]

PopFront(l) == IF l.head = Null THEN l
               ELSE [l EXCEPT !.tail = IF @ = l.head THEN HeadLink ELSE @,
                              !.head = l.next[l.head], !.size = @ - 1]

\* One round of remove_if at the element n, whose link is st.at.
RemoveStep(st, n, S) ==
  IF n \notin S THEN [st EXCEPT !.at = n]
  ELSE [l |-> [Store(st.l, st.at, st.l.next[n])
                 EXCEPT !.tail = IF st.l.next[n] = Null THEN st.at ELSE @,
                        !.size = @ - 1, !.next[n] = st.removed],
        at |-> st.at, removed |-> n]
RemoveIf(l, S) ==
  IF l.head = Null THEN l
  ELSE FoldLeft(LAMBDA st, n : RemoveStep(st, n, S),
                [l |-> l, at |-> HeadLink, removed |-> Null], Chain(l)).l

\* validate_tail: the tail is the last element's link.
TailValid(l) == l.tail = IF l.head = Null THEN HeadLink ELSE Last(Chain(l))
=============================================================================
