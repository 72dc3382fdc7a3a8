---------------------------- MODULE MCClientLife ----------------------------
(***************************************************************************)
(* ClientLife for TLC: the cfgs give the constants small sets of model      *)
(* values and bound the queues and stacks.  Connections and pcbs are        *)
(* interchangeable; the runs without liveness properties use that.          *)
(***************************************************************************)
EXTENDS ClientLifeInv, TLC

Symmetry == Permutations(Accepted) \cup Permutations(Pcb)

=============================================================================
