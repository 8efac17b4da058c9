---------------------------- MODULE MCBillingCron ----------------------------
(* Instances of BillingCron for TLC: the schedule of the source, and one   *)
(* of as many stages with fewer days between them.                         *)
EXTENDS BillingCron

CONSTANTS j1, j2

MCSchedule == <<1, 7, 14>>

ShortSchedule == <<1, 2, 3>>
=============================================================================
