----------------------------- MODULE EventOrder -----------------------------
(***************************************************************************)
(* What the event queue promises its users.                                *)
(*                                                                         *)
(* Events come out in the order they went in, but for connections that are *)
(* announced: those overtake.  An event is lost only if it is a POLL, or   *)
(* its client is purged; an announcement survives even that.               *)
(***************************************************************************)
EXTENDS Integers, Sequences, SequencesExt

CONSTANTS Client

VARIABLES
  q,    \* the events that wait
  at    \* the event being handled, or << >>

Event == [kind : {"ACCEPT", "DATA", "POLL"}, client : Client]

Init == q = << >> /\ at = << >>

Put == \E e \in Event : q' = Append(q, e) /\ UNCHANGED at

Announce == \E e \in Event : e.kind = "ACCEPT" /\ q' = <<e>> \o q /\ UNCHANGED at

\* One event is taken; polls around it may be left out.
Take ==
  /\ at = << >>
  /\ \E n \in 1 .. Len(q) :
       /\ q' = SubSeq(q, n + 1, Len(q))
       /\ \E k \in 0 .. n :
            /\ \A i \in 1 .. n : i # k => q[i].kind = "POLL"
            /\ at' = IF k = 0 THEN << >> ELSE <<q[k]>>

Finish == at # << >> /\ at' = << >> /\ UNCHANGED q

\* The events that wait, but for what happened to c.
Without(c) ==
  FoldLeft(LAMBDA kept, e : IF e.client = c /\ e.kind # "ACCEPT" THEN kept ELSE Append(kept, e),
           << >>, q)
Purge == \E c \in Client : q' = Without(c) /\ UNCHANGED at

Next == Put \/ Announce \/ Take \/ Finish \/ Purge

Spec == Init /\ [][Next]_<<q, at>>
=============================================================================
