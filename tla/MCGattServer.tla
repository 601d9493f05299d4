--------------------------- MODULE MCGattServer ---------------------------
(* The instances of GattServer that TLC checks.                            *)
EXTENDS GattServer, TLC

Bounds(push, linkChanges, release) ==
  [push |-> push, link |-> linkChanges, release |-> release]

\* Three changes of the links around the start, the first advertisement.
PresenceLimit == Bounds(1, 3, 0)
\* Two changes of the advertisement, a disconnect, a Release.
AdvertLimit == Bounds(2, 1, 1)

Devices == Permutations(Device)
=============================================================================
