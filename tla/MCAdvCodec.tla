----------------------------- MODULE MCAdvCodec -----------------------------
(***************************************************************************)
(* Advertising events for model checking AdvCodec.                         *)
(***************************************************************************)
EXTENDS AdvCodec

\* Advertising events.  Every AD type the parsers know, at and below its least
\* length and past the limits of the proxy; padded and overrunning tails; two
\* reports in one event.
Fields ==
  {[type |-> 1, data |-> <<6>>], [type |-> 3, data |-> <<1, 2, 3>>],
   [type |-> 7, data |-> <<1, 2, 3, 4>>], [type |-> 9, data |-> <<5, 6, 7>>],
   [type |-> 10, data |-> <<250>>], [type |-> 25, data |-> <<7>>], [type |-> 25, data |-> <<7, 0>>],
   [type |-> 22, data |-> <<1>>], [type |-> 22, data |-> <<1, 0, 8, 8, 8>>],
   [type |-> 32, data |-> <<1, 0, 0, 3>>], [type |-> 33, data |-> <<9, 1, 0, 0>>],
   [type |-> 255, data |-> <<1, 0, 4>>], [type |-> 255, data |-> <<1, 2, 5, 6>>],
   [type |-> 255, data |-> <<1, 2>>]}
One(fs, rest) == [addr |-> <<1, 2>>, fields |-> fs, tail |-> rest, rssi |-> 200]
Other(fs) == [addr |-> <<3, 1>>, fields |-> fs, tail |-> <<>>, rssi |-> 5]

MCBase == <<9>>
MCAir ==
  {<<One(<<f, g>>, <<>>)>> : f, g \in Fields}
  \cup {<<One(<<f>>, rest)>> : f \in Fields, rest \in {<<0, 2>>, <<4, 9, 1>>}}
  \cup {<<One(<<f>>, <<>>), Other(<<g>>)>> : f, g \in Fields}

\* What BlueZ reports of a device it knows: nothing the tracker reads (Connected
\* alone, say), the signal strength with data, data without it, the rest.
MCChanges ==
  {{}, {"RSSI", "ManufacturerData"}, {"ServiceData", "UUIDs"},
   {"Name", "TxPower", "Appearance"}}

\* 16-bit service data only.
ServiceAir == {<<One(<<[type |-> 22, data |-> <<u, 0, 8>>]>>, <<>>)>> : u \in {1, 2}}
=============================================================================
