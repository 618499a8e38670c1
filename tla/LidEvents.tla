----------------------------- MODULE LidEvents ------------------------------
(***************************************************************************)
(* How lid events begin and end in GrillPid: how long lid mode lasts, and  *)
(* what a controller nobody touches any more settles into.                 *)
(*                                                                         *)
(* Two history variables, which constrain nothing: lidOpenFor, the          *)
(* measurement periods lid mode has lasted since it was last entered,      *)
(* counted up to the lid duration; and retimed, whether the lid duration   *)
(* was changed meanwhile in a way the test "LidOpenDuration -              *)
(* LidOpenResumeCountdown > LIDOPEN_MIN_AUTORESUME" cannot follow: raised, *)
(* which makes the event look older than it is, or shortened below the     *)
(* running countdown, which makes the unsigned subtraction wrap.           *)
(***************************************************************************)
EXTENDS GrillPid

VARIABLES lidOpenFor, retimed

lidVars == <<vars, lidOpenFor, retimed>>

LidInit == Init /\ lidOpenFor = 0 /\ retimed = FALSE

Period ==
  /\ doWork
  /\ lidOpenFor' = IF ~(isLidOpen /\ isLidOpen') THEN 0
                   ELSE IF lidOpenFor < lidOpenDuration THEN lidOpenFor + 1
                   ELSE lidOpenFor
  /\ retimed' = (retimed /\ isLidOpen')

LidSwitched == (LidCommand \/ ToggleLid) /\ lidOpenFor' = 0 /\ retimed' = FALSE

\* The reset of the configuration is left to GrillPid.
Commanded ==
  /\ Setting \/ ToggleOff \/ (\E step \in ManualSteps : AdjustManual(step))
  /\ lidOpenFor' = IF isLidOpen' THEN lidOpenFor ELSE 0
  /\ retimed' = (isLidOpen' /\ (retimed \/ lidOpenDuration' \notin lidCountdown..lidOpenDuration))

Restarted == Restart /\ lidOpenFor' = 0 /\ retimed' = FALSE

-----------------------------------------------------------------------------
\* From some time on there are only measurement periods: no command, no
\* button, no restart.
Quiet == <>[][Period]_lidVars

\* "Once entering LID OPEN mode, the minimum number of seconds to stay in LID
\* OPEN mode before autoresuming due to temperature returning to setpoint"
\* (grillpid_conf.h): the control law ends no younger lid event, not even when
\* the set point is reached while the lid is open or the duration is shortened
\* in the middle of it.  A duration that is raised while the lid is open, or
\* shortened below the running countdown, does cut the event short.
LidModeLastsMinimum ==
  [][ isLidOpen /\ ~isLidOpen' /\ pidMode' = "NORMAL"
        => lidOpenFor >= MinAutoResume \/ retimed ]_lidVars

\* Once nobody interferes, lid mode always ends: the blower comes back.
LidModeEnds == Quiet => (isLidOpen ~> ~isLidOpen)

\* Once nobody interferes and the pit stays at the set point or above, the
\* controller in an automatic mode ends up, for good, in NORMAL: "Setpoint has
\* been attained, normal operation" (grillpid.h, PIDMODE_NORMAL).  The lid
\* duration has to exceed the minimum: with exactly LIDOPEN_MIN_AUTORESUME,
\* which is allowed, the test for the set point never holds, not even with the
\* lid closed, and the controller stays in STARTUP or RECOVERY.
SettlesInNormal ==
  Quiet /\ <>[](/\ pidMode \in AutoModes /\ temperature[ctrl] >= setPoint
                /\ lidOpenDuration > MinAutoResume)
    => <>[](pidMode = "NORMAL")
=============================================================================
