---------------------------- MODULE ServerValues ----------------------------
(***************************************************************************)
(* esp32_ble_server: the value of one characteristic and of one of its     *)
(* descriptors, between the main thread (set_value(), notify() and the     *)
(* automations), the worker thread (BlueZ's reads and writes, queued       *)
(* notifications) and a subscribed central.                                *)
(*                                                                         *)
(* The characteristic's value_ has no lock.  An assignment is a step that  *)
(* begins and one that ends it; who reads in between, or assigns at the    *)
(* same time, may get either value or neither (TornValue).  The            *)
(* descriptor's value_ has no lock either; its assignments are one step    *)
(* here, since nothing is derived from what it holds.                      *)
(***************************************************************************)
EXTENDS Integers, Sequences

CONSTANTS
  Payload,   \* values that templates, lambdas and centrals come up with
  max_len,   \* max_len_ of the descriptor
  OffsetMax, \* bound: offset of a read
  NotifyMax  \* bound: notifications queued in a behaviour

ASSUME ValuesAssumption ==
  /\ Payload # {} /\ \A v \in Payload : v \in Seq(0 .. 255)
  /\ max_len \in Nat /\ OffsetMax \in Nat /\ NotifyMax \in Nat

TornValue == <<256>>
NoValue == "none"

VARIABLES
  value,     \* value_ of the characteristic
  assigning, \* [main, worker]: what each thread is assigning to value_, or NoValue
  racing,    \* both have been assigning at once
  listener,  \* a set-value action was played: on_read and pre-notify listeners
  main_at,   \* main thread: "idle", "set", "play", "pre-notify" or "notify"
  exported,  \* "no"; "tree" once built, the start requested; "up"; "failed"
  notify_q,  \* commands_: the values, the path being the characteristic's
  worker_at, \* worker thread: "idle", "drain", "read", "serve", "write" or "written"
  data,      \* the bytes of the WriteValue it is handling
  swapped,   \* the commands it swapped out
  cached,    \* cached_value, which the Value getter serves
  notifying, \* the Notifying property
  answer,    \* its last answer to ReadValue
  desc,      \* value_ of the descriptor
  asked,     \* history: the values notify() was called with, once exported
  told       \* history: the values signalled to subscribers

mainThread == <<listener, main_at>>
valueStore == <<value, assigning, racing>>
workerThread == <<exported, worker_at, data, swapped, cached, notifying, answer>>
valuesVars == <<valueStore, mainThread, notify_q, workerThread, desc, asked, told>>

ValuesInit ==
  /\ value = <<>> /\ assigning = [main |-> NoValue, worker |-> NoValue] /\ racing = FALSE
  /\ listener = FALSE /\ main_at = "idle"
  /\ exported = "no" /\ notify_q = <<>>
  /\ worker_at = "idle" /\ data = <<>> /\ swapped = <<>>
  /\ cached = <<>> /\ notifying = FALSE /\ answer = <<>>
  /\ desc = <<>>
  /\ asked = <<>> /\ told = <<>>

-----------------------------------------------------------------------------
(***************************************************************************)
(* value_, without a lock.                                                 *)
(***************************************************************************)
Other(t) == IF t = "main" THEN "worker" ELSE "main"

AssignBegins(t, v) ==
  /\ assigning' = [assigning EXCEPT ![t] = v]
  /\ racing' = (assigning[Other(t)] # NoValue)
  /\ UNCHANGED value

AssignEnds(t) ==
  /\ value' \in IF racing THEN {assigning[t], value, TornValue} ELSE {assigning[t]}
  /\ assigning' = [assigning EXCEPT ![t] = NoValue]
  /\ racing' = (racing /\ assigning[Other(t)] # NoValue)

\* What thread t may find in value_ while the other one is assigning.
Seen(t, v) ==
  {v} \cup IF assigning[Other(t)] = NoValue THEN {} ELSE {assigning[Other(t)], TornValue}

-----------------------------------------------------------------------------
(***************************************************************************)
(* notify(), on the thread that calls it.                                  *)
(***************************************************************************)
\* Mutant: the command carries no value of its own.
QueuedLate(v) == cached

\* notify_characteristic(): the command carries a copy of the value.
Queued(v) == v

\* Without gatt_server_ and object_path_ it returns at once.
Notify(v) ==
  IF exported = "no" THEN UNCHANGED <<notify_q, asked>>
  ELSE /\ Len(asked) < NotifyMax
       /\ notify_q' = Append(notify_q, Queued(v))
       /\ asked' = Append(asked, v)

-----------------------------------------------------------------------------
(***************************************************************************)
(* The main thread.                                                        *)
(***************************************************************************)
\* BLEGattServer::start(), in setup(): build_tree_() takes the value over,
\* then the worker is attached and asked to start.
BuildTree ==
  /\ main_at = "idle" /\ exported = "no"
  /\ exported' = "tree" /\ cached' = value
  /\ UNCHANGED <<valueStore, mainThread, notify_q, worker_at, data, swapped, notifying,
                 answer, desc, asked, told>>

\* set_value(), from a lambda ("set") or from a set-value action ("play"),
\* which returns at once when the characteristic has a listener.
SetValue(v, by) ==
  /\ main_at = "idle" /\ (by = "play" => ~listener)
  /\ AssignBegins("main", v)
  /\ main_at' = by
  /\ UNCHANGED <<listener, notify_q, workerThread, desc, asked, told>>

\* The action goes on to install its on_read and pre-notify listeners.
SetValueReturns ==
  /\ main_at \in {"set", "play"}
  /\ AssignEnds("main")
  /\ listener' = (listener \/ main_at = "play") /\ main_at' = "idle"
  /\ UNCHANGED <<notify_q, workerThread, desc, asked, told>>

\* The notify action: the pre-notify listener evaluates its template anew.
PreNotify(v) ==
  /\ main_at = "idle" /\ listener
  /\ AssignBegins("main", v)
  /\ main_at' = "pre-notify"
  /\ UNCHANGED <<listener, notify_q, workerThread, desc, asked, told>>

PreNotifyReturns ==
  /\ main_at = "pre-notify"
  /\ AssignEnds("main")
  /\ main_at' = "notify"
  /\ UNCHANGED <<listener, notify_q, workerThread, desc, asked, told>>

\* BLECharacteristic::notify(), the end of the action or from a lambda.
MainNotifies ==
  /\ main_at \in {"idle", "notify"}
  /\ \E v \in Seen("main", value) : Notify(v)
  /\ main_at' = "idle"
  /\ UNCHANGED <<valueStore, listener, workerThread, desc, told>>

\* BLEDescriptor::set_value_impl_(): too long a value is refused.
SetDescriptor(v) ==
  /\ main_at = "idle" /\ Len(v) <= max_len
  /\ desc' = v
  /\ UNCHANGED <<valueStore, mainThread, notify_q, workerThread, asked, told>>

-----------------------------------------------------------------------------
(***************************************************************************)
(* The worker.                                                             *)
(***************************************************************************)
\* worker_process_commands(): a requested start comes before the commands.
\* It fails without the bus, or if the characteristic cannot be exported.
SwapCommands ==
  /\ worker_at = "idle" /\ exported # "no"
  /\ exported = "tree" \/ notify_q # <<>>
  /\ exported' \in IF exported = "tree" THEN {"up", "failed"} ELSE {exported}
  /\ swapped' = notify_q /\ notify_q' = <<>>
  /\ worker_at' = IF notify_q = <<>> THEN "idle" ELSE "drain"
  /\ UNCHANGED <<valueStore, mainThread, data, cached, notifying, answer, desc, asked, told>>

\* do_notify_(): cached_value, then the signal, whose value the getter takes
\* from cached_value; it fails when the server did not start.
DoNotify ==
  /\ worker_at = "drain"
  /\ cached' = Head(swapped)
  /\ told' = IF exported = "up" THEN Append(told, cached') ELSE told
  /\ swapped' = Tail(swapped)
  /\ worker_at' = IF Len(swapped) = 1 THEN "idle" ELSE "drain"
  /\ UNCHANGED <<valueStore, mainThread, exported, notify_q, data, notifying, answer, desc,
                 asked>>

\* chr_read_value_(): host_on_read() may evaluate the template and assign.
ReadBegins ==
  /\ worker_at = "idle" /\ exported = "up"
  /\ IF listener THEN \E v \in Payload : AssignBegins("worker", v) ELSE UNCHANGED valueStore
  /\ worker_at' = "read"
  /\ UNCHANGED <<mainThread, notify_q, exported, data, swapped, cached, notifying, answer, desc,
                 asked, told>>

\* The part of the value from an offset on; past its end there is none.
Slice(v, offset) ==
  IF offset > Len(v) THEN "InvalidOffset" ELSE SubSeq(v, offset + 1, Len(v))

OnReadReturns ==
  /\ worker_at = "read" /\ assigning.worker # NoValue
  /\ AssignEnds("worker")
  /\ worker_at' = "serve"
  /\ UNCHANGED <<mainThread, notify_q, exported, data, swapped, cached, notifying, answer, desc,
                 asked, told>>

ReadAnswers(offset) ==
  /\ worker_at = "serve" \/ (worker_at = "read" /\ assigning.worker = NoValue)
  /\ cached' \in Seen("worker", value)
  /\ \E v \in Seen("worker", value) : answer' = Slice(v, offset)
  /\ worker_at' = "idle"
  /\ UNCHANGED <<valueStore, mainThread, notify_q, exported, data, swapped, notifying, desc,
                 asked, told>>

\* chr_write_value_(): the offset is not looked at; host_on_write() assigns,
\* its callback, an automation on this thread, may notify; cached_value last.
WriteBegins(v) ==
  /\ worker_at = "idle" /\ exported = "up"
  /\ AssignBegins("worker", v)
  /\ worker_at' = "write" /\ data' = v
  /\ UNCHANGED <<mainThread, notify_q, exported, swapped, cached, notifying, answer, desc,
                 asked, told>>

WriteAssigned ==
  /\ worker_at = "write"
  /\ AssignEnds("worker")
  /\ worker_at' = "written"
  /\ UNCHANGED <<mainThread, notify_q, exported, data, swapped, cached, notifying, answer, desc,
                 asked, told>>

WriteReturns ==
  /\ worker_at = "written"
  /\ \/ UNCHANGED <<notify_q, asked>>
     \/ \E v \in Seen("worker", value) : Notify(v)
  /\ cached' = data /\ data' = <<>>
  /\ worker_at' = "idle"
  /\ UNCHANGED <<valueStore, mainThread, exported, swapped, notifying, answer, desc, told>>

\* chr_start_notify_(), chr_stop_notify_().
Subscribe(on) ==
  /\ worker_at = "idle" /\ exported = "up"
  /\ notifying' = on
  /\ UNCHANGED <<valueStore, mainThread, notify_q, exported, worker_at, data, swapped, cached,
                 answer, desc, asked, told>>

\* desc_write_value_(): max_len_ is not looked at.
DescriptorWritten(v) ==
  /\ worker_at = "idle" /\ exported = "up"
  /\ desc' = v
  /\ UNCHANGED <<valueStore, mainThread, notify_q, workerThread, asked, told>>

DescriptorRead(offset) ==
  /\ worker_at = "idle" /\ exported = "up"
  /\ answer' = Slice(desc, offset)
  /\ UNCHANGED <<valueStore, mainThread, notify_q, exported, worker_at, data, swapped, cached,
                 notifying, desc, asked, told>>

-----------------------------------------------------------------------------
MainSteps ==
  \/ \E v \in Payload : \/ \E by \in {"set", "play"} : SetValue(v, by)
                        \/ PreNotify(v)
                        \/ SetDescriptor(v)
  \/ BuildTree \/ SetValueReturns \/ PreNotifyReturns \/ MainNotifies

WorkerSteps ==
  \/ SwapCommands \/ DoNotify
  \/ ReadBegins \/ OnReadReturns \/ WriteAssigned \/ WriteReturns
  \/ \E v \in Payload : WriteBegins(v) \/ DescriptorWritten(v)
  \/ \E offset \in 0 .. OffsetMax : ReadAnswers(offset) \/ DescriptorRead(offset)
  \/ \E on \in BOOLEAN : Subscribe(on)

ValuesNext == MainSteps \/ WorkerSteps

ValuesSpec == ValuesInit /\ [][ValuesNext]_valuesVars

-----------------------------------------------------------------------------
\* On a server that started, each notify() since its tree was built is
\* signalled to the subscribers once, in the order of the calls of both
\* threads, with the value as it was at the call, whatever is set, read or
\* written before the worker gets to it, the calls from before the start
\* included (notify_characteristic(), worker_process_commands(),
\* do_notify_()).
NotifiedInOrder == exported = "up" => asked = told \o swapped \o notify_q
=============================================================================
