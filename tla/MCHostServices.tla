--------------------------- MODULE MCHostServices ---------------------------
(***************************************************************************)
(* Two services of the host that share no state: the GPIO lines with their *)
(* alert thread, and the MQTT backend with the library's thread.  Each     *)
(* behaviour exercises one of them, the other rests.                       *)
(***************************************************************************)
EXTENDS GpioAlerts, MqttBackend

VARIABLE service   \* the one this behaviour exercises

HostInit == service \in {"gpio", "mqtt"} /\ GpioInit /\ MqttInit

Gpio == service = "gpio" /\ UNCHANGED <<service, mqttVars>>
Mqtt == service = "mqtt" /\ UNCHANGED <<service, gpioVars>>

HostNext == (Gpio /\ GpioNext) \/ (Mqtt /\ MqttNext)

hostVars == <<service, gpioVars, mqttVars>>

\* The fairness of each service, while it is the one exercised.
HostFairness ==
  /\ WF_hostVars(Gpio /\ RunStep) /\ WF_hostVars(Gpio /\ MainContinues)
  /\ WF_hostVars(Mqtt /\ MqttCaller)
  /\ WF_hostVars(Mqtt /\ CallbackReturns) /\ WF_hostVars(Mqtt /\ GetsMu)
  /\ SF_hostVars(Mqtt /\ Leave) /\ SF_hostVars(Mqtt /\ Cancelled)

HostSpec == HostInit /\ [][HostNext]_hostVars /\ HostFairness
=============================================================================
