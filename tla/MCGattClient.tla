--------------------------- MODULE MCGattClient ---------------------------
(* The instances of GattClient that TLC checks: how often each actor acts.  *)
EXTENDS GattClient

Bounds(advert, connect, disconnect, op, drop, up) ==
  [advert |-> advert, connect |-> connect, disconnect |-> disconnect,
   op |-> op, drop |-> drop, up |-> up]

\* Every disturbance of the connection once, in any order.
SafetyLimit    == Bounds(1, 1, 1, 0, 1, 1)
\* Two operations in flight across a disconnect and a link drop.
OperationLimit == Bounds(1, 0, 1, 2, 1, 0)
\* One attempt with re-entrant signals, on a link that is not lost.
AttemptLimit   == Bounds(1, 0, 1, 1, 0, 0)
\* connect() is called once more than the advertisement asks for.
RepeatLimit    == Bounds(1, 1, 0, 0, 0, 0)
=============================================================================
