--------------------------- MODULE MCCronService ---------------------------
(***************************************************************************)
(* One recurring and one one-time job; time for both to run, and for the   *)
(* one-time job to be missed while no service runs.                        *)
(***************************************************************************)
EXTENDS CronService
CONSTANTS backup, reminder
MCJobs     == {backup, reminder}
MCOneTime  == {reminder}
MCInterval == [j \in MCJobs |-> 1]
=============================================================================
