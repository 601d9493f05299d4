---------------------------- MODULE Broadcaster ----------------------------
(***************************************************************************)
(* bthome_advertiser and esp32_ble_beacon: a payload built on the main     *)
(* thread, an advertisement registered with BlueZ on the worker thread,    *)
(* and what a receiver makes of the bytes BlueZ then puts on the air.      *)
(***************************************************************************)
EXTENDS Integers, Sequences, FiniteSets

CONSTANTS
  Measurements,  \* bound: the lists of [id, raw] a BTHome advertiser may have
  Beacons        \* bound: the [uuid, major, minor, power] of a beacon

\* The widths of the encoder's and the beacon's fields.
uint8 == 0 .. 255
uint16 == 0 .. 65535
int8 == -128 .. 127

ASSUME BroadcasterAssumption ==
  /\ \A ms \in Measurements : ms \in Seq([id : uint8, raw : Int])
  /\ Beacons \subseteq [uuid : Seq(uint8), major : uint16, minor : uint16, power : int8]
  /\ \A b \in Beacons : Len(b.uuid) = 16

VARIABLES
  kind,             \* "bthome" or "beacon"
  conf,             \* its configuration
  payload,          \* payload_, mfg_data_
  setup_at,         \* main thread: where setup() is; "gone" once destroyed
  start_requested,  \* under mu_
  started,
  adv_registered,   \* optimistic while the call is under way
  call,             \* RegisterAdvertisement: none, sent, accepted or refused
  on_air,           \* BlueZ: the payload it advertises, <<>> if none
  release           \* a Release call of BlueZ on its way

broadcastVars == <<kind, conf, payload, setup_at, start_requested, started,
                   adv_registered, call, on_air, release>>

-----------------------------------------------------------------------------
(***************************************************************************)
(* build_bthome_payload().                                                 *)
(***************************************************************************)
Spec16 == {3, 12, 18, 19, 20}
Size(id) ==
  CASE id \in {0, 1, 16, 33, 35} -> 1
    [] id \in {2} \cup Spec16 -> 2
    [] id \in {4, 5} -> 3
    [] OTHER -> 0
Known(o) == Size(o.id) > 0
Signed(id) == id = 2

\* std::stable_sort by id.
Rank(s, i) == Cardinality({j \in DOMAIN s : s[j].id < s[i].id \/ (s[j].id = s[i].id /\ j <= i)})
Sorted(s) == [k \in DOMAIN s |-> s[CHOOSE i \in DOMAIN s : Rank(s, i) = k]]

\* 256 ^ (i - 1): what byte i of a number counts.
Weight == <<1, 256, 65536>>

\* Mutant: a negative value of an unsigned object is not clamped.
ClampAboveOnly(o) ==
  LET w == Weight[Size(o.id)]
      hi == IF Signed(o.id) THEN 128 * w - 1 ELSE 256 * w - 1 IN
  IF o.raw > hi THEN hi ELSE o.raw

Clamp(o) ==
  LET w == Weight[Size(o.id)]
      lo == IF Signed(o.id) THEN 0 - 128 * w ELSE 0
      hi == IF Signed(o.id) THEN 128 * w - 1 ELSE 256 * w - 1 IN
  IF o.raw < lo THEN lo ELSE IF o.raw > hi THEN hi ELSE o.raw

\* The low bytes of the two's complement, least significant first.
LittleEndian(n, size) == [i \in 1 .. size |-> (n \div Weight[i]) % 256]

\* One pass of the loop: an unknown id is skipped.
PushObject(out, o) ==
  IF Known(o) THEN out \o <<o.id>> \o LittleEndian(Clamp(o), Size(o.id)) ELSE out

INFO == 64
build_bthome_payload(objects) ==
  LET sorted == Sorted(objects)
      Out[k \in 0 .. Len(objects)] == IF k = 0 THEN <<INFO>> ELSE PushObject(Out[k - 1], sorted[k])
  IN Out[Len(objects)]

\* build_ibeacon_payload_(): numbers most significant byte first.
build_ibeacon_payload(b) ==
  <<2, 21>> \o b.uuid
  \o <<b.major \div 256, b.major % 256, b.minor \div 256, b.minor % 256, b.power % 256>>

-----------------------------------------------------------------------------
(***************************************************************************)
(* ESPBLEiBeacon: the receiver of beacons in esp32_ble_tracker.            *)
(***************************************************************************)
\* Mutant: the word as the host reads it.
SwappedNot(lo, hi) == lo + 256 * hi

\* get_major(), get_minor(): the host's little-endian word, swapped.
Swapped(lo, hi) == LET word == lo + 256 * hi IN (word \div 256) + 256 * (word % 256)

NoBeacon == "none"
from_manufacturer_data(d) ==
  IF Len(d) < 25 THEN NoBeacon
  ELSE IF d[1] # 76 \/ d[2] # 0 \/ d[3] # 2 \/ d[4] # 21 THEN NoBeacon
  ELSE [uuid |-> SubSeq(d, 5, 20), major |-> Swapped(d[21], d[22]),
        minor |-> Swapped(d[23], d[24]), power |-> ((d[25] + 128) % 256) - 128]

-----------------------------------------------------------------------------
BroadcastInit ==
  /\ kind \in {"bthome", "beacon"}
  /\ conf \in IF kind = "bthome" THEN Measurements ELSE Beacons
  /\ payload = <<>> /\ setup_at = "build"
  /\ start_requested = FALSE /\ started = FALSE
  /\ adv_registered = FALSE /\ call = "none" /\ on_air = <<>> /\ release = FALSE

\* setup(): the payload first, then the request to the worker, woken each time
\* another user of the shared worker is.
setup ==
  /\ setup_at = "build"
  /\ payload' = IF kind = "bthome" THEN build_bthome_payload(conf) ELSE build_ibeacon_payload(conf)
  /\ setup_at' = "request"
  /\ UNCHANGED <<kind, conf, start_requested, started, adv_registered, call, on_air, release>>

RequestStart ==
  /\ setup_at = "request"
  /\ start_requested' = TRUE
  /\ setup_at' = "done"
  /\ UNCHANGED <<kind, conf, payload, started, adv_registered, call, on_air, release>>

\* open_bus_(), do_start_(): no bus, or the object is not exported.
StartFails == UNCHANGED <<adv_registered, call>>

\* Mutant: the registration is marked by its reply, not by its call.
RegistersUnmarked == call' = "sent" /\ UNCHANGED adv_registered

\* register_advertisement_(): marked as the call is sent.
Registers == adv_registered' = TRUE /\ call' = "sent"

\* worker_process_commands(): started_ is set whether the start succeeds or
\* fails, and nothing tries again.
WorkerStarts ==
  /\ start_requested /\ ~started /\ setup_at # "gone"
  /\ start_requested' = FALSE /\ started' = TRUE
  /\ Registers \/ StartFails
  /\ UNCHANGED <<kind, conf, payload, setup_at, on_air, release>>

\* adv_get_service_data_(), adv_get_manufacturer_data_(): what BlueZ is given.
adv_get_data == payload

\* External: BlueZ reads the properties of the object, then answers.
BluezAnswers ==
  /\ call = "sent"
  /\ \/ call' = "accepted" /\ on_air' = adv_get_data
     \/ call' = "refused" /\ UNCHANGED on_air
  /\ UNCHANGED <<kind, conf, payload, setup_at, start_requested, started, adv_registered, release>>

on_register_adv_reply ==
  /\ call \in {"accepted", "refused"} /\ setup_at # "gone"
  /\ adv_registered' = IF call = "refused" THEN FALSE ELSE adv_registered
  /\ call' = "none"
  /\ UNCHANGED <<kind, conf, payload, setup_at, start_requested, started, on_air, release>>

\* External: BlueZ drops the advertisement (the adapter went away) and says so.
BluezReleases ==
  /\ on_air # <<>> /\ ~release
  /\ on_air' = <<>> /\ release' = TRUE
  /\ UNCHANGED <<kind, conf, payload, setup_at, start_requested, started, adv_registered, call>>

adv_release ==
  /\ release /\ call = "none" /\ setup_at # "gone"
  /\ adv_registered' = FALSE /\ release' = FALSE
  /\ UNCHANGED <<kind, conf, payload, setup_at, start_requested, started, call, on_air>>

\* ~BTHomeAdvertiser(): detach, then unregister what is marked registered.
Destroy ==
  /\ kind = "bthome" /\ setup_at = "done"
  /\ on_air' = IF adv_registered THEN <<>> ELSE on_air
  /\ adv_registered' = FALSE
  /\ setup_at' = "gone"
  /\ call' = "none"   \* the bus is closed: an unread answer is dropped, and
                      \* UnregisterAdvertisement comes after the call
  /\ UNCHANGED <<kind, conf, payload, start_requested, started, release>>

BroadcastNext ==
  \/ setup \/ RequestStart \/ WorkerStarts \/ BluezAnswers
  \/ on_register_adv_reply \/ BluezReleases \/ adv_release \/ Destroy

BroadcastSpec == BroadcastInit /\ [][BroadcastNext]_broadcastVars

-----------------------------------------------------------------------------
(***************************************************************************)
(* Properties.                                                             *)
(***************************************************************************)
\* What a BTHome receiver reads: objects one after the other, each as long as
\* its id says, up to one it does not know or that is not all there.
Signed16(u) == IF u >= 32768 THEN u - 65536 ELSE u

ReadValue(bytes, id, pos) ==
  LET u == CASE Size(id) = 1 -> bytes[pos]
             [] Size(id) = 2 -> bytes[pos] + 256 * bytes[pos + 1]
             [] OTHER -> bytes[pos] + 256 * bytes[pos + 1] + 65536 * bytes[pos + 2] IN
  IF Signed(id) THEN Signed16(u) ELSE u

ReadObject(bytes, at) ==
  IF at.pos > Len(bytes) THEN at
  ELSE LET id == bytes[at.pos] IN
       IF Size(id) = 0 \/ at.pos + Size(id) > Len(bytes) THEN at
       ELSE [pos |-> at.pos + 1 + Size(id),
             got |-> Append(at.got, [id |-> id, value |-> ReadValue(bytes, id, at.pos + 1)])]

Decoded(bytes) ==
  LET At[k \in 0 .. Len(bytes)] ==
        IF k = 0 THEN [pos |-> 2, got |-> <<>>] ELSE ReadObject(bytes, At[k - 1])
  IN At[Len(bytes)].got

\* What the field of an object can hold.
Least(o) == IF Signed(o.id) THEN -32768 ELSE 0
Most(o) ==
  IF Signed(o.id) THEN 32767
  ELSE CASE Size(o.id) = 1 -> 255 [] Size(o.id) = 2 -> 65535 [] OTHER -> 16777215

\* The value, or the nearest one the field can hold.
Nearest(o, v) ==
  /\ o.raw < Least(o) => v = Least(o)
  /\ o.raw > Most(o) => v = Most(o)
  /\ Least(o) <= o.raw /\ o.raw <= Most(o) => v = o.raw

\* got holds each of the objects that this build knows once, by ascending id
\* and in the order of the configuration where ids are equal.
ReadsAs(got, objects) ==
  LET known == {i \in DOMAIN objects : Known(objects[i])} IN
  \E of \in [DOMAIN got -> known] :
    /\ \A i \in known : \E k \in DOMAIN got : of[k] = i
    /\ \A j, k \in DOMAIN got : j < k =>
         \/ got[j].id < got[k].id
         \/ got[j].id = got[k].id /\ of[j] < of[k]
    /\ \A k \in DOMAIN got : /\ got[k].id = objects[of[k]].id
                            /\ Nearest(objects[of[k]], got[k].value)

\* The receiver of a BTHome advertisement reads every measurement this build
\* knows once, by ascending id and in the order of the configuration where ids
\* are equal, each with its value or the nearest one its field can hold: one
\* out of range never shifts or spoils the ones after it.
BthomeDecodes == kind = "bthome" /\ on_air # <<>> => ReadsAs(Decoded(on_air), conf)

\* A tracker that hears this beacon, company id in front, reports its UUID,
\* major, minor and power; one that hears less than all of it, no beacon.
BeaconIsRecognised ==
  kind = "beacon" /\ on_air # <<>> =>
    LET heard == <<76, 0>> \o on_air IN
    /\ from_manufacturer_data(heard) = conf
    /\ \A n \in 0 .. Len(heard) - 1 : from_manufacturer_data(SubSeq(heard, 1, n)) = NoBeacon

\* While BlueZ advertises for it, the component knows that it has something to
\* unregister, answer or no answer; destroyed, it has left nothing on the air.
OnAirIsMarked == on_air # <<>> => adv_registered /\ setup_at # "gone"
=============================================================================
