------------------------------ MODULE MCTimers ------------------------------
(***************************************************************************)
(* The two services that give every resource a goroutine which waits for   *)
(* its time and then calls a target, side by side for TLC: Cloud Tasks and *)
(* Cloud Scheduler.  They share nothing, so a behaviour exercises one of   *)
(* them, the surface.  The fairness of both is assumed: the initial state  *)
(* of the surface that rests enables none of the steps it is about.        *)
(***************************************************************************)
EXTENDS Tasks, Scheduler, TLC

VARIABLE surface

timersVars == <<surface, vars, schedulerVars>>

TimersInit ==
    /\ surface \in {"tasks", "scheduler"}
    /\ Init /\ SchedulerInit

TimersNext ==
    /\ UNCHANGED surface
    /\ \/ surface = "tasks" /\ Next /\ UNCHANGED schedulerVars
       \/ surface = "scheduler" /\ SchedulerNext /\ UNCHANGED vars

TimersSpec ==
    TimersInit /\ [][TimersNext]_timersVars /\ Fairness /\ SchedulerFairness
=============================================================================
