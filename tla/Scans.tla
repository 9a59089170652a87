------------------------------- MODULE Scans -------------------------------
(***************************************************************************)
(* The three ways in which the controller reads a task's log: searching it  *)
(* (LogSearch), reading a result from it (ResultScan), and cutting a window *)
(* for a terminal (TerminalWindow).  They share nothing: a behaviour is one *)
(* of them.                                                                 *)
(***************************************************************************)
EXTENDS LogSearch, ResultScan, TerminalWindow

scansVars == <<searchVars, resultVars, windowVars>>

ScansInit ==
    \/ SearchInit /\ ResultIdle /\ WindowIdle
    \/ SearchIdle /\ ResultInit /\ WindowIdle
    \/ SearchIdle /\ ResultIdle /\ WindowInit

ScansNext ==
    \/ query # <<>> /\ SearchNext /\ UNCHANGED <<resultVars, windowVars>>
    \/ integrity # "none" /\ ResultNext /\ UNCHANGED <<searchVars, windowVars>>
    \/ text # <<>> /\ WindowNext /\ UNCHANGED <<searchVars, resultVars>>

ScansSpec == ScansInit /\ [][ScansNext]_scansVars
=============================================================================
