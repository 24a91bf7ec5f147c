------------------------ MODULE MCAutonomousSession ------------------------
(* Instances of AutonomousSession for TLC. *)
EXTENDS AutonomousSession

\* Gates that pass, and one failing gate with one or with two reasons (the
\* performance gate gives up to two): the latter improves into the former.
MCGateOutcomes ==
  {[gates |-> 0, reasons |-> 0], [gates |-> 1, reasons |-> 1],
   [gates |-> 1, reasons |-> 2]}
=============================================================================
