----------------------------- MODULE Connection -----------------------------
(***************************************************************************)
(* What the library promises the application about each connection of its   *)
(* server: it opens once, ends once and for good, and its end is told at    *)
(* most once, never before it came.  A connection whose accept fails halfway *)
(* ends without having opened.                                              *)
(***************************************************************************)
EXTENDS Naturals

CONSTANT Conn    \* the connections

VARIABLES
  phase,   \* of each connection: absent, open or ended
  told     \* onDisconnect calls made for it

vars == <<phase, told>>

Init ==
  /\ phase = [c \in Conn |-> "absent"]
  /\ told = [c \in Conn |-> 0]

\* tcp_accept built the client, bound to its pcb or not.
Begin(c) ==
  /\ phase[c] = "absent"
  /\ \E s \in {"open", "ended"} : phase' = [phase EXCEPT ![c] = s]
  /\ UNCHANGED told

\* The pcb is gone: released by close(), abort() or delete, or freed by lwIP.
End(c) ==
  /\ phase[c] = "open"
  /\ phase' = [phase EXCEPT ![c] = "ended"]
  /\ UNCHANGED told

\* onDisconnect is called.
Tell(c) ==
  /\ phase[c] = "ended" /\ told[c] = 0
  /\ told' = [told EXCEPT ![c] = 1]
  /\ UNCHANGED phase

Next == \E c \in Conn : Begin(c) \/ End(c) \/ Tell(c)

Spec == Init /\ [][Next]_vars

=============================================================================
