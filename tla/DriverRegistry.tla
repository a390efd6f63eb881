--------------------------- MODULE DriverRegistry --------------------------
(***************************************************************************)
(* core/driver_registry.go and core/driver_commands.go: a driver that the  *)
(* target has registered at boot, which the host configures, polls, reads, *)
(* writes and unregisters.  The driver's own functions may fail.  What     *)
(* they return, LastError, which only the query reads, and the lookups of  *)
(* drivers that are not there are left out.                                *)
(***************************************************************************)
EXTENDS Dispatch

CONSTANTS
  DriverTimer,     \* instance.Timer
  PollRates        \* the poll rates the host sends

VARIABLES
  registered,      \* the driver is in the two maps
  configured,      \* State.Configured
  active,          \* State.Active
  pollRate         \* State.PollRate while active, zero otherwise

driverVars == <<registered, configured, active, pollRate>>

DriverTypeOK ==
  /\ {registered, configured, active} \subseteq BOOLEAN
  /\ pollRate \in PollRates \union {0}

(* RegisterDriver; its InitFunc did not fail                               *)
DriverInit ==
  /\ registered = TRUE
  /\ configured = FALSE /\ active = FALSE /\ pollRate = 0

(* config_driver; when the ConfigureFunc fails only LastError is set.      *)
ConfigDriver ==
  /\ registered /\ ~configured
  /\ configured' = TRUE
  /\ UNCHANGED <<timerVars, registered, active, pollRate>>

(* driver_start_poll: the timer's Next is left as it is.                   *)
StartPolling(rate) ==
  /\ registered
  /\ pollRate' = rate /\ active' = TRUE
  /\ Schedule(DriverTimer, ClockAdd(now, rate))
  /\ UNCHANGED <<registered, configured>>

(* driver_stop_poll: the timer, if linked, stays so until it fires.        *)
StopPolling ==
  /\ registered
  /\ active' = FALSE /\ pollRate' = 0
  /\ list' = Cut(list, {DriverTimer})
  /\ UNCHANGED <<wake, now, dispatching, hung, registered, configured>>

(* driver_unregister; a CloseFunc that fails leaves the driver there.      *)
UnregisterDriver ==
  /\ registered
  /\ list' = IF active THEN Cut(list, {DriverTimer}) ELSE list
  /\ registered' \in BOOLEAN
  /\ UNCHANGED <<wake, now, dispatching, hung, configured, active, pollRate>>

(* driverPollHandler after a stop, or after the driver is gone             *)
PollNothing ==
  /\ Fires(DriverTimer) /\ ~(registered /\ active)
  /\ Done(DriverTimer)
  /\ UNCHANGED driverVars

(* Mutant: a poll that fails is the last one.                              *)
PollGivesUp ==
  /\ Fires(DriverTimer) /\ registered /\ active
  /\ \/ Done(DriverTimer)
     \/ Reschedule(DriverTimer, ClockAdd(wake[DriverTimer], pollRate))
  /\ UNCHANGED <<registered, configured, active, pollRate>>

(* driverPollHandler: the next poll does not depend on this one's outcome. *)
Poll ==
  /\ Fires(DriverTimer) /\ registered /\ active
  /\ Reschedule(DriverTimer, ClockAdd(wake[DriverTimer], pollRate))
  /\ UNCHANGED <<registered, configured, active, pollRate>>
=============================================================================
