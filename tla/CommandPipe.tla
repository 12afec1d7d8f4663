---------------------------- MODULE CommandPipe ----------------------------
(***************************************************************************)
(* What the command path promises the host: the segments it sends are      *)
(* taken one by one, in the order sent, none twice, none passed over, for  *)
(* as long as the module runs and the connection stands.                   *)
(***************************************************************************)
EXTENDS Naturals, Sequences

CONSTANT Segments  (* what the host may send in one piece *)

VARIABLES
  sent,  (* the segments the host has sent *)
  taken  (* the segments acted upon        *)

Init == sent = <<>> /\ taken = <<>>

Send == \E s \in Segments : sent' = Append(sent, s) /\ UNCHANGED taken

Take ==
  /\ Len(taken) < Len(sent)
  /\ taken' = Append(taken, sent[Len(taken) + 1])
  /\ UNCHANGED sent

Spec == Init /\ [][Send \/ Take]_<<sent, taken>>
=============================================================================
