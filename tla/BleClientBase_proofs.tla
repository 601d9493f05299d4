------------------------ MODULE BleClientBase_proofs ------------------------
(***************************************************************************)
(* Facts about the operators of BleClientBase that both the client and the *)
(* proxy rest on.                                                          *)
(***************************************************************************)
EXTENDS BleClientBase, TLAPS

\* Every operation of BLEClientBase makes a client record of a client record,
\* and none but set_address() changes its address.
LEMMA ClientOperators ==
  ASSUME NEW c \in Client
  PROVE  /\ \A st \in ClientState :
              SetState(c, st) \in Client /\ SetState(c, st).address = c.address
         /\ ParseDevice(c) \in Client /\ ParseDevice(c).address = c.address
         /\ Connect(c) \in Client /\ Connect(c).address = c.address
         /\ Disconnect(c) \in Client /\ Disconnect(c).address = c.address
         /\ OnConnected(c) \in Client /\ OnConnected(c).address = c.address
         /\ \A n \in Nat : /\ OnServicesDiscovered(c, n) \in Client
                           /\ OnServicesDiscovered(c, n).address = c.address
         /\ OnDisconnected(c) \in Client /\ OnDisconnected(c).address = c.address
         /\ ReleaseServices(c) \in Client /\ ReleaseServices(c).address = c.address
         /\ [c EXCEPT !.want = FALSE] \in Client
         /\ \A a \in Nat : [c EXCEPT !.address = a] \in Client
<1>1. \A d \in Client, st \in ClientState :
         SetState(d, st) \in Client /\ SetState(d, st).address = d.address
  BY DEF SetState, Client
<1>10. ParseDevice(c) \in Client /\ ParseDevice(c).address = c.address
  BY <1>1 DEF ParseDevice, ClientState
<1>2. Connect(c) \in Client /\ Connect(c).address = c.address
  BY <1>1 DEF Connect, Client, ClientState
<1>3. Disconnect(c) \in Client /\ Disconnect(c).address = c.address
  BY <1>1 DEF Disconnect, UnconditionalDisconnect, Client, ClientState
<1>4. OnConnected(c) \in Client /\ OnConnected(c).address = c.address
  BY <1>1 DEF OnConnected, UnconditionalDisconnect, ClientState
<1>5. \A n \in Nat : /\ OnServicesDiscovered(c, n) \in Client
                     /\ OnServicesDiscovered(c, n).address = c.address
  BY <1>1 DEF OnServicesDiscovered, Client, ClientState
<1>6. ReleaseServices(c) \in Client /\ ReleaseServices(c).address = c.address
  BY DEF ReleaseServices, Client
<1>7. OnDisconnected(c) \in Client /\ OnDisconnected(c).address = c.address
  BY <1>1, <1>6 DEF OnDisconnected, ClientState
<1>8. [c EXCEPT !.want = FALSE] \in Client
  BY DEF Client
<1>9. \A a \in Nat : [c EXCEPT !.address = a] \in Client
  BY DEF Client
<1> QED
  BY <1>1, <1>2, <1>3, <1>4, <1>5, <1>6, <1>7, <1>8, <1>9, <1>10

\* Each operation keeps the promises of ClientConsistent, where it is called.
LEMMA ConsistentOperators ==
  ASSUME NEW c \in Client, ClientConsistent(c)
  PROVE  /\ ClientConsistent(ParseDevice(c))
         /\ ClientConsistent(Connect(c))
         /\ ClientConsistent(Disconnect(c))
         /\ ClientConsistent(OnConnected(c))
         /\ \A n \in Nat : ClientConsistent(OnServicesDiscovered(c, n))
         /\ ClientConsistent(OnDisconnected(c))
<1> USE DEF ClientConsistent, SetState, Client, ClientState
<1>1. ClientConsistent(ParseDevice(c))
  BY DEF ParseDevice
<1>2. ClientConsistent(Connect(c))
  BY DEF Connect
<1>3. ClientConsistent(Disconnect(c))
  BY DEF Disconnect, UnconditionalDisconnect
<1>4. ClientConsistent(OnConnected(c))
  BY DEF OnConnected, UnconditionalDisconnect
<1>5. \A n \in Nat : ClientConsistent(OnServicesDiscovered(c, n))
  BY DEF OnServicesDiscovered
<1>6. ClientConsistent(OnDisconnected(c))
  BY DEF OnDisconnected, ReleaseServices
<1> QED
  BY <1>1, <1>2, <1>3, <1>4, <1>5, <1>6

\* host_, once created, stays; and only the arrival of a service tree makes a
\* client ESTABLISHED.
LEMMA HostAndTree ==
  ASSUME NEW c \in Client
  PROVE  /\ ParseDevice(c).host = c.host /\ Disconnect(c).host = c.host
         /\ OnConnected(c).host = c.host /\ OnDisconnected(c).host = c.host
         /\ \A n \in Nat : /\ OnServicesDiscovered(c, n).host = c.host
                           /\ OnServicesDiscovered(c, n).services = n
         /\ Connect(c).host # NoHost
         /\ ParseDevice(c).state = "ESTABLISHED" => ParseDevice(c) = c
         /\ Connect(c).state # "ESTABLISHED"
         /\ Disconnect(c).state # "ESTABLISHED"
         /\ OnConnected(c).state # "ESTABLISHED"
         /\ OnDisconnected(c).state # "ESTABLISHED"
<1> USE DEF SetState, Client, ClientState
<1>1. ParseDevice(c).host = c.host
      /\ (ParseDevice(c).state = "ESTABLISHED" => ParseDevice(c) = c)
  BY DEF ParseDevice
<1>2. Connect(c).host # NoHost /\ Connect(c).state # "ESTABLISHED"
  BY DEF Connect, NoHost
<1>3. Disconnect(c).host = c.host /\ Disconnect(c).state # "ESTABLISHED"
  BY DEF Disconnect, UnconditionalDisconnect
<1>4. OnConnected(c).host = c.host /\ OnConnected(c).state # "ESTABLISHED"
  BY DEF OnConnected, UnconditionalDisconnect
<1>5. \A n \in Nat : /\ OnServicesDiscovered(c, n).host = c.host
                     /\ OnServicesDiscovered(c, n).services = n
  BY DEF OnServicesDiscovered
<1>6. OnDisconnected(c).host = c.host /\ OnDisconnected(c).state # "ESTABLISHED"
  BY DEF OnDisconnected, ReleaseServices
<1> QED
  BY <1>1, <1>2, <1>3, <1>4, <1>5, <1>6
=============================================================================
