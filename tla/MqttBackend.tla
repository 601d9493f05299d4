----------------------------- MODULE MqttBackend -----------------------------
(***************************************************************************)
(* mqtt: MQTTBackendHost.  The main thread connects, disconnects and       *)
(* publishes under mu_; libmosquitto runs one thread per started handle,   *)
(* which calls back into the application.  A callback may publish, and     *)
(* then waits for mu_ on the library's thread.                             *)
(*                                                                         *)
(* libmosquitto is external: what is modelled of it is what the backend    *)
(* relies on, that loop_stop() joins the thread, that the thread ends by   *)
(* itself after mosquitto_disconnect(), and that a forced stop cancels it  *)
(* where it waits for the network.                                         *)
(***************************************************************************)
EXTENDS Naturals

CONSTANT MqttOpsMax   \* bound: connect() and disconnect() calls in a behaviour
ASSUME MqttAssumption == MqttOpsMax \in Nat

VARIABLES
  mosq,             \* mosq_ is a handle, not null
  loop_started,     \* loop_started_
  connected,        \* connected_
  want_disconnect,  \* want_disconnect_
  mu,               \* who holds mu_: "free" or "main"; a publish holds it for one step
  caller,           \* where the main thread is in connect() or disconnect()
  worker,           \* the library's thread
  link,             \* the library's connection: "down", "up" or "leaving"
  forced,           \* the thread is cancelled
  mqtt_ops

mqttVars == <<mosq, loop_started, connected, want_disconnect, mu, caller, worker, link,
              forced, mqtt_ops>>

MqttInit ==
  /\ mosq = FALSE /\ loop_started = FALSE /\ connected = FALSE /\ want_disconnect = FALSE
  /\ mu = "free" /\ caller = "idle"
  /\ worker = "none" /\ link = "down" /\ forced = FALSE
  /\ mqtt_ops = 0

-----------------------------------------------------------------------------
Enter(where) ==
  /\ caller = "idle" /\ mu = "free" /\ mqtt_ops < MqttOpsMax
  /\ mu' = "main" /\ caller' = where
  /\ mqtt_ops' = mqtt_ops + 1

\* Mutant: connect() replaces the handle without stopping its loop.
connectOverRunning ==
  /\ Enter("renewing")
  /\ UNCHANGED <<mosq, loop_started, connected, want_disconnect, worker, link, forced>>

\* connect(): a running loop is stopped with force, and joined, under mu_.
connect ==
  /\ Enter(IF mosq /\ loop_started THEN "stopping" ELSE "renewing")
  /\ forced' = (mosq /\ loop_started)
  /\ UNCHANGED <<mosq, loop_started, connected, want_disconnect, worker, link>>

\* The join of mosquitto_loop_stop() returns.
Stopped ==
  /\ caller = "stopping" /\ worker = "ended"
  /\ worker' = "none" /\ loop_started' = FALSE /\ forced' = FALSE
  /\ caller' = "renewing"
  /\ UNCHANGED <<mosq, connected, want_disconnect, mu, link, mqtt_ops>>

\* The old handle is destroyed; mosquitto_new(), connect_async() or loop_start()
\* fails, or the thread is started.
Renew ==
  /\ caller = "renewing"
  /\ mu' = "free" /\ caller' = "idle" /\ link' = "down"
  /\ \/ /\ mosq' = TRUE /\ loop_started' = TRUE
        /\ worker' = "running" /\ want_disconnect' = FALSE
     \/ /\ mosq' = FALSE
        /\ want_disconnect' \in {want_disconnect, FALSE}
        /\ UNCHANGED <<loop_started, worker>>
  /\ UNCHANGED <<connected, forced, mqtt_ops>>

\* Mutant: the thread is joined without mosquitto_disconnect() before it.
disconnectJoinsOnly ==
  /\ want_disconnect' = TRUE
  /\ IF mosq /\ loop_started
       THEN Enter("joining")
       ELSE /\ caller = "idle" /\ mu = "free"
            /\ mqtt_ops < MqttOpsMax /\ mqtt_ops' = mqtt_ops + 1
            /\ UNCHANGED <<mu, caller>>
  /\ UNCHANGED <<mosq, loop_started, connected, worker, link, forced>>

\* disconnect(): mosquitto_disconnect(), then a join without force, under mu_.
disconnect ==
  /\ want_disconnect' = TRUE
  /\ IF mosq /\ loop_started
       THEN Enter("joining") /\ link' = "leaving"
       ELSE /\ caller = "idle" /\ mu = "free"
            /\ mqtt_ops < MqttOpsMax /\ mqtt_ops' = mqtt_ops + 1
            /\ UNCHANGED <<mu, caller, link>>
  /\ UNCHANGED <<mosq, loop_started, connected, worker, forced>>

Joined ==
  /\ caller = "joining" /\ worker = "ended"
  /\ worker' = "none" /\ loop_started' = FALSE
  /\ mu' = "free" /\ caller' = "idle"
  /\ UNCHANGED <<mosq, connected, want_disconnect, link, forced, mqtt_ops>>

-----------------------------------------------------------------------------
(***************************************************************************)
(* The library's thread.                                                   *)
(***************************************************************************)
\* s_on_connect() with rc 0, and s_on_message(): the application's callback.
OnConnect ==
  /\ worker = "running" /\ link = "down"
  /\ link' = "up" /\ connected' = TRUE /\ worker' = "callback"
  /\ UNCHANGED <<mosq, loop_started, want_disconnect, mu, caller, forced, mqtt_ops>>

OnMessage ==
  /\ worker = "running" /\ link = "up"
  /\ worker' = "callback"
  /\ UNCHANGED <<mosq, loop_started, connected, want_disconnect, mu, caller, link, forced, mqtt_ops>>

\* s_on_disconnect(), or s_on_connect() with an error; the library tries again.
OnDisconnect ==
  /\ worker = "running" /\ link \in {"down", "up"}
  /\ link' = "down" /\ connected' = FALSE /\ worker' = "callback"
  /\ UNCHANGED <<mosq, loop_started, want_disconnect, mu, caller, forced, mqtt_ops>>

\* The callback publishes or subscribes: it needs mu_.
CallbackPublishes ==
  /\ worker = "callback"
  /\ worker' = "wants mu"
  /\ UNCHANGED <<mosq, loop_started, connected, want_disconnect, mu, caller, link, forced, mqtt_ops>>

GetsMu ==
  /\ worker = "wants mu" /\ mu = "free"
  /\ worker' = "callback"
  /\ UNCHANGED <<mosq, loop_started, connected, want_disconnect, mu, caller, link, forced, mqtt_ops>>

CallbackReturns ==
  /\ worker = "callback"
  /\ worker' = "running"
  /\ UNCHANGED <<mosq, loop_started, connected, want_disconnect, mu, caller, link, forced, mqtt_ops>>

\* The thread ends: after mosquitto_disconnect(), with s_on_disconnect(), or
\* cancelled, with no callback.
Leave ==
  /\ worker = "running" /\ link = "leaving"
  /\ connected' = FALSE /\ worker' = "ended"
  /\ UNCHANGED <<mosq, loop_started, want_disconnect, mu, caller, link, forced, mqtt_ops>>

Cancelled ==
  /\ worker = "running" /\ forced
  /\ worker' = "ended"
  /\ UNCHANGED <<mosq, loop_started, connected, want_disconnect, mu, caller, link, forced, mqtt_ops>>

MqttCaller == Stopped \/ Renew \/ Joined
MqttEnds == CallbackReturns \/ GetsMu \/ Leave \/ Cancelled
MqttWorker == OnConnect \/ OnMessage \/ OnDisconnect \/ CallbackPublishes \/ MqttEnds

MqttNext == connect \/ disconnect \/ MqttCaller \/ MqttWorker

MqttSpec == MqttInit /\ [][MqttNext]_mqttVars

\* The main thread goes on where it can, callbacks return, and a thread that is
\* told to end or cancelled does so although messages keep coming.
MqttFairness ==
  /\ WF_mqttVars(MqttCaller)
  /\ WF_mqttVars(CallbackReturns) /\ WF_mqttVars(GetsMu)
  /\ SF_mqttVars(Leave) /\ SF_mqttVars(Cancelled)
MqttFairSpec == MqttSpec /\ MqttFairness

-----------------------------------------------------------------------------
MqttTypeOK ==
  /\ mosq \in BOOLEAN /\ loop_started \in BOOLEAN /\ connected \in BOOLEAN
  /\ want_disconnect \in BOOLEAN /\ forced \in BOOLEAN
  /\ mu \in {"free", "main"}
  /\ caller \in {"idle", "stopping", "renewing", "joining"}
  /\ worker \in {"none", "running", "callback", "wants mu", "ended"}
  /\ link \in {"down", "up", "leaving"}
  /\ mqtt_ops \in 0..MqttOpsMax

\* The library's thread has a live handle for as long as it exists, whichever
\* of connect()'s and disconnect()'s paths stopped, replaced or kept it, and
\* loop_started_ says whether there is a thread to stop.
ThreadHasHandle ==
  /\ worker # "none" => mosq
  /\ loop_started <=> worker # "none"

\* connect() and disconnect() return, unless a callback of the thread they join
\* waits for the mu_ they hold: that is the one way they can hang.
JoinEnds ==
  caller \in {"stopping", "joining"} ~> caller = "idle" \/ worker = "wants mu"
=============================================================================
