----------------------------- MODULE InputMirror -----------------------------
(***************************************************************************)
(* What the status path of the I/O module promises the host, with no       *)
(* interrupt, notification or task in sight.                               *)
(*                                                                         *)
(* The host holds a copy of the input levels.  Whenever the copy may be    *)
(* out of date an update is owed; an update may be sent while levels keep  *)
(* changing (and may then mix old and new levels), but the debt is only    *)
(* discharged by sending the levels that are there when it is discharged.  *)
(***************************************************************************)
CONSTANTS
  Inputs,   (* the input pins                                   *)
  NoReport  (* what the host holds before the first message     *)

VARIABLES
  pin,   (* [Inputs -> BOOLEAN], TRUE where the level is high   *)
  sent,  (* the levels last sent to the host, or NoReport       *)
  owed   (* whether an update is owed                           *)

vars == <<pin, sent, owed>>

Levels == [Inputs -> BOOLEAN]

Init ==
  /\ pin \in Levels
  /\ sent = NoReport
  /\ owed = FALSE

(* A level changes: from here on an update is owed.                        *)
Change ==
  /\ pin' \in Levels
  /\ owed' = TRUE
  /\ UNCHANGED sent

(* The timer or a query asks for an update.                                *)
Ring ==
  /\ owed' = TRUE
  /\ UNCHANGED <<pin, sent>>

(* An update goes out; it settles the debt only if it is accurate.         *)
Tell ==
  /\ owed
  /\ \E v \in Levels :
       /\ sent' = v
       /\ owed' \in BOOLEAN
       /\ ~owed' => v = pin
  /\ UNCHANGED pin

Next == Change \/ Ring \/ Tell

Spec == Init /\ [][Next]_vars

=============================================================================
