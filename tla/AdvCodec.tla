----------------------------- MODULE AdvCodec -----------------------------
(***************************************************************************)
(* From the air to Home Assistant: how an advertisement becomes an         *)
(* ESPBTDevice over each of the two backends of esp32_ble_tracker, and how *)
(* bluetooth_proxy turns the device back into bytes and batches it.        *)
(*                                                                         *)
(* Bytes are numbers, strings are their bytes.  Lengths are CONSTANTS, so  *)
(* that TLC can reach every limit with short inputs.                       *)
(***************************************************************************)
EXTENDS Integers, Sequences, SequencesExt

CONSTANTS
  W32, W128,      \* bytes of a 32- and a 128-bit UUID (4, 16)
  Base,           \* the low bytes of the Bluetooth base UUID (12 of them)
  ADDR,           \* bytes of an address (6)
  BUF,            \* bytes of an advertisement forwarded to the API (62)
  MFR_MAX,        \* forwarded bytes of manufacturer data (30)
  SVC_MAX,        \* forwarded bytes of service data after the UUID (29)
  NAME_MAX,       \* forwarded bytes of a name (28)
  BATCH,          \* BLUETOOTH_PROXY_ADVERTISEMENT_BATCH_SIZE (16)
  Air,            \* bound: the advertising events that may be received, each
                  \* a sequence of reports [addr, fields, tail, rssi]
  Changes         \* bound: the sets of properties a PropertiesChanged may carry

Byte == 0 .. 255
W16 == 2          \* bytes of a 16-bit UUID, and of a company id

\* The properties of org.bluez.Device1 that the tracker reads.
Property == {"Address", "Name", "RSSI", "TxPower", "Appearance", "UUIDs",
             "ManufacturerData", "ServiceData"}

\* A report: its AD structures, and a rest that holds no other whole one.
Field == [type : Byte, data : Seq(Byte)]
Report == [addr : Seq(Byte), fields : Seq(Field), tail : Seq(Byte), rssi : Byte]
NoField(rest) == Len(rest) < 2 \/ rest[1] = 0 \/ rest[1] + 1 > Len(rest)

ASSUME CodecAssumption ==
  /\ {W16, W32, W128, ADDR, BUF, MFR_MAX, SVC_MAX, NAME_MAX, BATCH} \subseteq Nat \ {0}
  /\ W16 <= W32 /\ W32 < W128
  /\ Base \in Seq(Byte) /\ Len(Base) = W128 - W32
  /\ \A a \in Air : a \in Seq(Report)
  /\ \A a \in Air : \A i \in DOMAIN a : Len(a[i].addr) = ADDR /\ NoField(a[i].tail)
  \* BlueZ announces a device with its address, and does not change that.
  /\ \A carried \in Changes : carried \subseteq Property \ {"Address"}

VARIABLES
  air,       \* the reports of the event on its way
  cut,       \* HCI: how many bytes its parameter length leaves of it
  via,       \* the backend that receives it: "hci" or "dbus"
  signal,    \* D-Bus: the properties the signal of each report carries
  received,  \* the backend has handled it
  devices,   \* devices delivered and not yet shown to the proxy
  api,       \* an API client is connected and subscribed
  batch      \* response_: [of: the device (history), data: the bytes]

codecVars == <<air, cut, via, signal, received, devices, api, batch>>

-----------------------------------------------------------------------------
(***************************************************************************)
(* ESPBTUUID: bytes, least significant first.                              *)
(***************************************************************************)
Zeros(n) == [i \in 1 .. n |-> 0]
as_128bit(raw) ==
  IF Len(raw) = W128 THEN raw
  ELSE Base \o raw \o Zeros(W32 - Len(raw))

\* The canonical string has the most significant byte first and is always
\* 128 bits long; from_uuid_str() turns it round and keeps that length.
to_str(raw) == Reverse(as_128bit(raw))
from_uuid_str(s) == Reverse(s)

\* get_16bit() reads the first bytes whatever the length.
get_16bit(raw) == SubSeq(raw, 1, W16)

-----------------------------------------------------------------------------
(***************************************************************************)
(* The HCI backend: parse_ad_payload() and handle_le_meta_event_().        *)
(***************************************************************************)
NoData == [address |-> <<>>, rssi |-> 0, flag |-> <<>>, name |-> <<>>, tx |-> <<>>,
           appearance |-> <<>>, uuids |-> <<>>, manufacturer |-> <<>>, service |-> <<>>]

Int8(n) == ((n + 128) % 256) - 128

\* The whole UUIDs of a list; a rest shorter than one is dropped.
UuidList(w, data) ==
  [i \in 1 .. (Len(data) \div w) |-> SubSeq(data, (i - 1) * w + 1, i * w)]

\* Service data: a UUID of w bytes, then the payload.
ServiceData(w, data) ==
  [uuid |-> SubSeq(data, 1, w), data |-> SubSeq(data, w + 1, Len(data))]

\* The width of the UUIDs in a list, by the type of the list; likewise of the
\* UUID in front of service data.
ListWidth(type) == CASE type \in {2, 3} -> W16 [] type \in {4, 5} -> W32 [] OTHER -> W128
ServiceWidth(type) == CASE type = 22 -> W16 [] type = 32 -> W32 [] OTHER -> W128

\* Whether a field is service data, and long enough.
IsService(f) == f.type \in {22, 32, 33} /\ Len(f.data) >= ServiceWidth(f.type)

\* One AD structure, by type; too short a field is ignored.
ApplyField(d, f) ==
  LET data == f.data  n == Len(f.data) IN
  CASE f.type = 1 /\ n > 0 -> [d EXCEPT !.flag = <<data[1]>>]
    [] f.type \in 2 .. 7 -> [d EXCEPT !.uuids = @ \o UuidList(ListWidth(f.type), data)]
    [] f.type \in {8, 9} -> [d EXCEPT !.name = data]
    [] f.type = 10 /\ n > 0 -> [d EXCEPT !.tx = Append(@, Int8(data[1]))]
    [] f.type = 25 /\ n >= W16 -> [d EXCEPT !.appearance = SubSeq(data, 1, W16)]
    [] IsService(f) -> [d EXCEPT !.service = Append(@, ServiceData(ServiceWidth(f.type), data))]
    [] f.type = 255 /\ n >= W16 -> [d EXCEPT !.manufacturer = Append(@, data)]
    [] OTHER -> d

Applied(d, fields) ==
  LET After[k \in 0 .. Len(fields)] == IF k = 0 THEN d ELSE ApplyField(After[k - 1], fields[k])
  IN After[Len(fields)]

\* Mutant: a structure that overruns is taken as far as it goes.
ReadFieldOverrun(payload, at) ==
  IF at.pos + 1 >= Len(payload) THEN at
  ELSE LET len == payload[at.pos + 1]
           end == IF at.pos + 1 + len > Len(payload) THEN Len(payload) ELSE at.pos + 1 + len IN
       IF len = 0 THEN at
       ELSE [pos |-> end, got |-> Append(at.got, [type |-> payload[at.pos + 2],
                                                  data |-> SubSeq(payload, at.pos + 3, end)])]

\* A pass of the loop of parse_ad_payload(): it ends at the first AD structure
\* that is empty or overruns.
ReadField(payload, at) ==
  IF at.pos + 1 >= Len(payload) THEN at
  ELSE LET len == payload[at.pos + 1]
           end == at.pos + 1 + len IN
       IF len = 0 \/ end > Len(payload) THEN at
       ELSE [pos |-> end, got |-> Append(at.got, [type |-> payload[at.pos + 2],
                                                  data |-> SubSeq(payload, at.pos + 3, end)])]

FieldsOf(payload) ==
  LET At[k \in 0 .. Len(payload)] ==
        IF k = 0 THEN [pos |-> 0, got |-> <<>>] ELSE ReadField(payload, At[k - 1])
  IN At[Len(payload)].got

parse_ad_payload(payload, d) == Applied(d, FieldsOf(payload))

\* The reports of an LE meta event, up to the first that is not all there.
LE_ADVERTISING_REPORT == 2
HEAD == ADDR + 3

ReadReport(evt, at) ==
  IF at.pos + HEAD > Len(evt) THEN at
  ELSE LET data == at.pos + HEAD
           end == data + evt[data] + 1 IN
       IF end > Len(evt) THEN at
       ELSE [pos |-> end,
             got |-> Append(at.got, parse_ad_payload(SubSeq(evt, data + 1, end - 1),
                       [NoData EXCEPT !.address = SubSeq(evt, at.pos + 3, at.pos + 2 + ADDR),
                                      !.rssi = Int8(evt[end])]))]

handle_le_meta_event(evt) ==
  LET At[k \in 0 .. evt[2]] ==
        IF k = 0 THEN [pos |-> 2, got |-> <<>>] ELSE ReadReport(evt, At[k - 1])
  IN IF Len(evt) < 2 THEN <<>>
     ELSE IF evt[1] # LE_ADVERTISING_REPORT THEN <<>> ELSE At[evt[2]].got

-----------------------------------------------------------------------------
(***************************************************************************)
(* The D-Bus backend: parse_device1_props_() on the properties BlueZ       *)
(* decoded, dictionaries for ManufacturerData and ServiceData.  A property *)
(* the signal does not carry is <<>> here and leaves its field alone.      *)
(***************************************************************************)
\* A uint16_t of the bus, and its bytes, least significant first.
Uint16(bytes) == bytes[1] + 256 * bytes[2]
Bytes16(n) == <<n % 256, n \div 256>>

\* Mutant: manufacturer data without its company id.
parse_device1_propsNoCompany(p, device) ==
  [device EXCEPT
     !.address = IF p.Address = <<>> THEN @ ELSE Reverse(p.Address),
     !.rssi = IF p.RSSI = <<>> THEN @ ELSE Int8(p.RSSI[1]),
     !.name = p.Name, !.appearance = p.Appearance,
     !.tx = [i \in DOMAIN p.TxPower |-> Int8(p.TxPower[i])],
     !.uuids = [i \in DOMAIN p.UUIDs |-> from_uuid_str(p.UUIDs[i])],
     !.manufacturer = LET keys == SetToSeq(DOMAIN p.ManufacturerData) IN
                      [i \in DOMAIN keys |-> p.ManufacturerData[keys[i]]],
     !.service = LET keys == SetToSeq(DOMAIN p.ServiceData) IN
                 [i \in DOMAIN keys |-> [uuid |-> from_uuid_str(keys[i]),
                                         data |-> p.ServiceData[keys[i]]]]]

parse_device1_props(p, device) ==
  [device EXCEPT
     !.address = IF p.Address = <<>> THEN @ ELSE Reverse(p.Address),
     !.rssi = IF p.RSSI = <<>> THEN @ ELSE Int8(p.RSSI[1]),
     !.name = p.Name, !.appearance = p.Appearance,
     !.tx = [i \in DOMAIN p.TxPower |-> Int8(p.TxPower[i])],
     !.uuids = [i \in DOMAIN p.UUIDs |-> from_uuid_str(p.UUIDs[i])],
     !.manufacturer = LET keys == SetToSeq(DOMAIN p.ManufacturerData) IN
                      [i \in DOMAIN keys |-> Bytes16(keys[i]) \o p.ManufacturerData[keys[i]]],
     !.service = LET keys == SetToSeq(DOMAIN p.ServiceData) IN
                 [i \in DOMAIN keys |-> [uuid |-> from_uuid_str(keys[i]),
                                         data |-> p.ServiceData[keys[i]]]]]

\* InterfacesAdded: the device with all that is known of it.
on_interfaces_added(p) == parse_device1_props(p, NoData)

\* PropertiesChanged: what changed, the address from the path of the object.
on_properties_changed(path, p) ==
  parse_device1_props(p, [NoData EXCEPT !.address = Reverse(path)])

-----------------------------------------------------------------------------
(***************************************************************************)
(* BluetoothProxy::parse_device(): the fields again as AD structures, each *)
(* cut to its limit, one that does not fit left out.                       *)
(***************************************************************************)
Cut(s, n) == SubSeq(s, 1, IF Len(s) < n THEN Len(s) ELSE n)

AdStructure(f) == <<Len(f.data) + 1, f.type>> \o f.data

\* Mutant: the length byte does not count the type.
append_adShort(buf, f) ==
  IF Len(buf) + 2 + Len(f.data) > BUF THEN buf
  ELSE buf \o <<Len(f.data), f.type>> \o f.data

append_ad(buf, f) ==
  IF Len(buf) + 2 + Len(f.data) > BUF THEN buf
  ELSE buf \o AdStructure(f)

Resent(d) ==
  (IF d.flag = <<>> THEN <<>> ELSE <<[type |-> 1, data |-> d.flag]>>)
  \o [i \in DOMAIN d.manufacturer |-> [type |-> 255, data |-> Cut(d.manufacturer[i], MFR_MAX)]]
  \o [i \in DOMAIN d.service |->
        [type |-> 22, data |-> get_16bit(d.service[i].uuid) \o Cut(d.service[i].data, SVC_MAX)]]
  \o (IF d.name = <<>> THEN <<>> ELSE <<[type |-> 9, data |-> Cut(d.name, NAME_MAX)]>>)

Serialized(d) ==
  LET asked == Resent(d)
      Buf[k \in 0 .. Len(asked)] == IF k = 0 THEN <<>> ELSE append_ad(Buf[k - 1], asked[k])
  IN Buf[Len(asked)]

-----------------------------------------------------------------------------
(***************************************************************************)
(* External: the controller that frames the reports of an event, and       *)
(* BlueZ, which publishes their decoded fields.                            *)
(***************************************************************************)
Encode(fields) ==
  LET Bytes[k \in 0 .. Len(fields)] == IF k = 0 THEN <<>> ELSE Bytes[k - 1] \o AdStructure(fields[k])
  IN Bytes[Len(fields)]

Payload(r) == Encode(r.fields) \o r.tail

Framed(r) == <<0, 0>> \o r.addr \o <<Len(Payload(r))>> \o Payload(r) \o <<r.rssi>>

Event(reports) ==
  LET Bytes[k \in 0 .. Len(reports)] ==
        IF k = 0 THEN <<LE_ADVERTISING_REPORT, Len(reports)>> ELSE Bytes[k - 1] \o Framed(reports[k])
  IN Bytes[Len(reports)]

\* BlueZ keeps, of equal keys, the last, and each UUID once.
Greatest(S) == CHOOSE i \in S : \A j \in S : j <= i

Device1(r) ==
  LET of(types, w) == {i \in DOMAIN r.fields : r.fields[i].type \in types /\ Len(r.fields[i].data) >= w}
      data(S) == r.fields[Greatest(S)].data
      company(i) == Uint16(SubSeq(r.fields[i].data, 1, W16))
      service(i) == ServiceData(ServiceWidth(r.fields[i].type), r.fields[i].data)
      mfr == of({255}, W16)
      svc == {i \in DOMAIN r.fields : IsService(r.fields[i])} IN
  [Address |-> Reverse(r.addr), RSSI |-> <<Int8(r.rssi)>>,
   Name |-> IF of({8, 9}, 0) = {} THEN <<>> ELSE data(of({8, 9}, 0)),
   TxPower |-> IF of({10}, 1) = {} THEN <<>> ELSE <<Int8(data(of({10}, 1))[1])>>,
   Appearance |-> IF of({25}, W16) = {} THEN <<>> ELSE SubSeq(data(of({25}, W16)), 1, W16),
   UUIDs |-> SetToSeq(UNION {{to_str(u) : u \in ToSet(UuidList(ListWidth(r.fields[i].type), r.fields[i].data))} :
                               i \in of(2 .. 7, 0)}),
   ManufacturerData |->
     [key \in {company(i) : i \in mfr} |->
        LET d == data({i \in mfr : company(i) = key}) IN SubSeq(d, W16 + 1, Len(d))],
   ServiceData |->
     [key \in {to_str(service(i).uuid) : i \in svc} |->
        service(Greatest({i \in svc : to_str(service(i).uuid) = key})).data]]

\* What a signal shows of the properties p.
Shown(p, carried) ==
  LET only(name, value) == IF name \in carried THEN value ELSE <<>> IN
  [Address |-> only("Address", p.Address), RSSI |-> only("RSSI", p.RSSI),
   Name |-> only("Name", p.Name), TxPower |-> only("TxPower", p.TxPower),
   Appearance |-> only("Appearance", p.Appearance), UUIDs |-> only("UUIDs", p.UUIDs),
   ManufacturerData |-> only("ManufacturerData", p.ManufacturerData),
   ServiceData |-> only("ServiceData", p.ServiceData)]

-----------------------------------------------------------------------------
CodecInit ==
  /\ air \in Air /\ via \in {"hci", "dbus"}
  /\ cut \in IF via = "hci" THEN 0 .. Len(Event(air)) ELSE {0}
  /\ signal \in IF via = "hci" THEN {<<>>} ELSE [DOMAIN air -> {Property} \cup Changes]
  /\ received = FALSE /\ devices = <<>> /\ api = FALSE /\ batch = <<>>

\* A read of the HCI socket: the event is as long as its parameter length says,
\* which its reports may overrun.
ReceiveHci ==
  /\ ~received /\ via = "hci"
  /\ devices' = handle_le_meta_event(SubSeq(Event(air), 1, cut))
  /\ received' = TRUE
  /\ UNCHANGED <<air, cut, via, signal, api, batch>>

\* A signal of BlueZ: only an InterfacesAdded carries the address.
Signalled(r, carried) ==
  LET p == Shown(Device1(r), carried) IN
  IF "Address" \in carried THEN on_interfaces_added(p)
  ELSE on_properties_changed(Device1(r).Address, p)

\* A signal for every report.
ReceiveDbus ==
  /\ ~received /\ via = "dbus"
  /\ devices' = [i \in DOMAIN air |-> Signalled(air[i], signal[i])]
  /\ received' = TRUE
  /\ UNCHANGED <<air, cut, via, signal, api, batch>>

\* A batch that is full is sent at once.
Added(b, e) == LET full == Append(b, e) IN IF Len(full) >= BATCH THEN <<>> ELSE full

parse_device ==
  /\ devices # <<>>
  /\ batch' = IF api THEN Added(batch, [of |-> Head(devices), data |-> Serialized(Head(devices))])
              ELSE batch
  /\ devices' = Tail(devices)
  /\ UNCHANGED <<air, cut, via, signal, received, api>>

\* loop(), every 100 ms.
FlushPending ==
  /\ received /\ api /\ batch # <<>>
  /\ batch' = <<>>
  /\ UNCHANGED <<air, cut, via, signal, received, devices, api>>

\* subscribe_api_connection(), unsubscribe_api_connection(): what is batched stays.
ApiChanges ==
  /\ received
  /\ api' = ~api
  /\ UNCHANGED <<air, cut, via, signal, received, devices, batch>>

CodecNext == ReceiveHci \/ ReceiveDbus \/ parse_device \/ FlushPending \/ ApiChanges
CodecSpec == CodecInit /\ [][CodecNext]_codecVars

-----------------------------------------------------------------------------
(***************************************************************************)
(* Properties.                                                             *)
(***************************************************************************)
CodecTypeOK ==
  /\ air \in Air /\ via \in {"hci", "dbus"} /\ cut \in Nat
  /\ via = "dbus" => signal \in [DOMAIN air -> SUBSET Property]
  /\ received \in BOOLEAN /\ api \in BOOLEAN
  /\ \A i \in DOMAIN devices : DOMAIN devices[i] = DOMAIN NoData
  /\ Len(batch) < BATCH
  /\ \A i \in DOMAIN batch : Len(batch[i].data) <= BUF

\* What the report says, read off its fields rather than its bytes.
Meant(r) == Applied([NoData EXCEPT !.address = r.addr, !.rssi = Int8(r.rssi)], r.fields)

\* The first k reports are all there.
Whole(k) == k = 0 \/ Len(Event(SubSeq(air, 1, k))) <= cut

\* handle_le_meta_event_() and parse_ad_payload() never mistake bytes: of an
\* event cut anywhere and of payloads with a padded or overrunning tail, they
\* deliver exactly the reports that are all there, each with exactly its whole
\* fields.
WholeReportsOnly ==
  [][via = "hci" /\ ~received /\ received' =>
       \E n \in 0 .. Len(air) :
         /\ Whole(n) /\ (n < Len(air) => ~Whole(n + 1))
         /\ devices' = [i \in 1 .. n |-> Meant(air[i])]]_codecVars

\* What device h would be if only some of its properties were known.
Limited(h, carried) ==
  LET only(name, value) == IF name \in carried THEN value ELSE <<>> IN
  [h EXCEPT !.rssi = IF "RSSI" \in carried THEN @ ELSE 0,
            !.name = only("Name", @), !.tx = only("TxPower", @),
            !.appearance = only("Appearance", @), !.uuids = only("UUIDs", @),
            !.manufacturer = only("ManufacturerData", @), !.service = only("ServiceData", @)]

\* A device d over D-Bus and the device h of the same report over HCI: the same
\* address, name, appearance and signal strength, a transmission power, company
\* data and service data that h has, and the companies and services of h, all of
\* them.  UUIDs are h's in their 128-bit form, which ESPBTUUID's operator== tells
\* apart from the short form that h has.  The AD flags come over HCI only.
Alike(d, h) ==
  LET wide(item) == [uuid |-> as_128bit(item.uuid), data |-> item.data] IN
  /\ d.address = h.address /\ d.rssi = h.rssi /\ d.name = h.name
  /\ d.appearance = h.appearance
  /\ ToSet(d.tx) \subseteq ToSet(h.tx) /\ (ToSet(d.tx) = {} => ToSet(h.tx) = {})
  /\ ToSet(d.uuids) = {as_128bit(u) : u \in ToSet(h.uuids)}
  /\ ToSet(d.manufacturer) \subseteq ToSet(h.manufacturer)
  /\ {get_16bit(m) : m \in ToSet(d.manufacturer)} = {get_16bit(m) : m \in ToSet(h.manufacturer)}
  /\ ToSet(d.service) \subseteq {wide(item) : item \in ToSet(h.service)}
  /\ {item.uuid : item \in ToSet(d.service)} = {as_128bit(item.uuid) : item \in ToSet(h.service)}

\* Over D-Bus, parse_device1_props_() makes of a signal what HCI makes of the
\* report behind it, as far as the signal goes: alike (UUIDs widened) in every
\* property it carries, with the address even when a PropertiesChanged leaves it
\* to the object path, and blank in the others, the signal strength 0.
BackendsAgree ==
  [][via = "dbus" /\ ~received /\ received' =>
       \A i \in DOMAIN air : Alike(devices'[i], Limited(Meant(air[i]), signal[i]))]_codecVars

\* What the proxy forwards parses again as AD structures, all of it, and holds
\* fields that parse_device() resends (flags, manufacturer and service data, the
\* name; never UUID lists, transmission power or appearance) in their order, cut
\* but never mixed; all of those when there is room.
ForwardedReparses ==
  \A i \in DOMAIN batch :
    LET fields == FieldsOf(batch[i].data)
        asked == Resent(batch[i].of) IN
    /\ Encode(fields) = batch[i].data
    /\ \E from \in [DOMAIN fields -> DOMAIN asked] :
         /\ \A k \in DOMAIN fields : fields[k] = asked[from[k]]
         /\ \A j, k \in DOMAIN fields : j < k => from[j] < from[k]
    /\ Len(Encode(asked)) <= BUF => fields = asked

\* Service data keeps its service on the way through the proxy.
ServiceKeepsUuid ==
  \A i \in DOMAIN batch :
    LET again == parse_ad_payload(batch[i].data, NoData)
        uuids(x) == {as_128bit(s.uuid) : s \in ToSet(x.service)} IN
    uuids(again) \subseteq uuids(batch[i].of)
=============================================================================
