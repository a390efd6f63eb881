----------------------------- MODULE MCFirmware ----------------------------
(***************************************************************************)
(* Instances of Firmware for TLC.  The endstop's timer is also the driver's*)
(* one: no configuration has both.                                         *)
(***************************************************************************)
EXTENDS Firmware

(* Components that share the list: in pairs, and three with the one that a *)
(* shutdown cuts off at between the others.                                *)
Fittings == {
  {"adc", "adc stop", "gpio"},
  {"i2c endstop", "gpio", "pwm"},
  {"adc", "analog endstop", "stop"},
  {"i2c", "i2c endstop", "stop"},
  {"driver", "pwm", "stop"}}

DriverAndPwm == {{"driver", "pwm", "stop"}}
AdcAlone == {{"adc"}}

(* What the next steps depend on: the pointer and the wake time of a timer *)
(* the list does not lead to are set before they are read again.           *)
Seen ==
  LET R == Reached(list) IN
    <<list.head, [t \in R |-> list.next[t]], [t \in R |-> wake[t]], now,
      dispatching, hung, adcVars, pwmVars, pinVars, endstopVars, driverVars,
      stateVars, fitted, lost>>
=============================================================================
