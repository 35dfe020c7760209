-------------------------------- MODULE MCReports --------------------------------
(***************************************************************************)
(* Instances of Reports for TLC.  The clock wraps after four units; as    *)
(* 268.4 s is not a multiple of any interval in seconds, so no maximum     *)
(* here has a divisor with four; and as it is no whole number of seconds,  *)
(* no minimum is one unit less.                                            *)
(***************************************************************************)
EXTENDS Reports

Between(min, max) == [min |-> min, max |-> max]

OnTheChange == Between(2, 0)

(* No minimum; a maximum shorter and longer than the wrap; the same as the *)
(* minimum; a minimum as long as the wrap; one that is longer than its     *)
(* maximum; not to be reported.                                            *)
SomeLimits ==
  {OnTheChange, Between(0, 3), Between(1, 3), Between(2, 5), Between(2, 2),
   Between(4, 5), Between(2, 1), Between(1, 99)}
=============================================================================
