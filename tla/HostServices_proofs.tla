------------------------ MODULE HostServices_proofs ------------------------
(***************************************************************************)
(* Two services of the host, for any number of calls.  GpioAlerts: pins    *)
(* and kernel agree about the lines, outputs keep their level, and only a  *)
(* stale snapshot misleads the alert thread, for any pins and descriptors. *)
(* MqttBackend: the library's thread never outlives its handle.            *)
(***************************************************************************)
EXTENDS GpioAlerts, MqttBackend, TLAPS

Mode == {"closed", "in", "out", "edge"}
FileType == [pin : Pin \cup {NoPin}, blocking : BOOLEAN, mode : Mode]
Op == {"idle", "in", "out", "attach", "detach", "reopen", "close", "request", "nonblock", "add"}

-----------------------------------------------------------------------------
(***************************************************************************)
(* Lines: the main thread and the kernel.                                  *)
(***************************************************************************)
LineOK ==
  /\ line_fd \in [Pin -> Fd \cup {NoFd}]
  /\ file \in [Fd -> FileType]
  /\ driven \in [Pin -> BOOLEAN] /\ output_value \in [Pin -> BOOLEAN]
  /\ call \in [op : Op, pin : Pin \cup {NoPin}]

\* What is left of a call says whether its pin has a claim; one that still has
\* to be made non-blocking is the only edge request that blocks.
CallOK ==
  /\ call.op # "idle" => call.pin \in Pin
  /\ call.op \in {"in", "out", "request"} => line_fd[call.pin] = NoFd
  /\ call.op \in {"attach", "detach", "reopen", "close", "nonblock", "add"}
       => line_fd[call.pin] # NoFd
  /\ \A f \in Fd : file[f].mode = "edge" /\ file[f].blocking
                     => call.op = "nonblock" /\ line_fd[call.pin] = f

OpenOK == \A f \in Fd : file[f] = NoFile \/ file[f].pin \in Pin

LineInd == LineOK /\ CallOK /\ OpenOK /\ ClaimsMatch /\ OutputHeld

lineVars == <<line_fd, file, driven, refused, output_value, call>>

LEMMA FdFacts == NoFd \notin Fd
BY GpioAssumption DEF Fd, NoFd

LEMMA NoFileFacts ==
  /\ NoFile \in FileType
  /\ NoFile.pin \notin Pin /\ NoFile.mode = "closed" /\ ~NoFile.blocking
BY GpioAssumption DEF NoFile, FileType, Mode

LEMMA LineKept ==
  ASSUME LineInd, UNCHANGED lineVars
  PROVE  LineInd'
BY DEF lineVars, LineInd, LineOK, CallOK, OpenOK, ClaimsMatch, OutputHeld

\* A descriptor that is granted was free, so no pin has it.
LEMMA RequestKeepsLines ==
  ASSUME LineInd, NEW p \in Pin, NEW mode \in {"in", "out", "edge"},
         line_fd[p] = NoFd, Request(p, mode), UNCHANGED output_value,
         call' \in [op : Op, pin : Pin \cup {NoPin}],
         call.op # "nonblock",
         IF mode = "edge" THEN call' = [op |-> "nonblock", pin |-> p] ELSE call' = Idle
  PROVE  LineInd'
<1>1. PICK f \in FreeFds :
        /\ file' = [file EXCEPT ![f] = [pin |-> p, mode |-> mode, blocking |-> TRUE]]
        /\ line_fd' = [line_fd EXCEPT ![p] = f]
        /\ driven' = [driven EXCEPT ![p] = Level(p, mode)]
        /\ refused' = refused \ {p}
  BY DEF Request
<1>2. f \in Fd /\ file[f] = NoFile
  BY DEF FreeFds
<1>3. /\ file'[f] = [pin |-> p, mode |-> mode, blocking |-> TRUE]
      /\ \A g \in Fd \ {f} : file'[g] = file[g]
      /\ line_fd'[p] = f /\ \A q \in Pin \ {p} : line_fd'[q] = line_fd[q]
      /\ driven'[p] = Level(p, mode) /\ \A q \in Pin \ {p} : driven'[q] = driven[q]
  BY <1>1, <1>2 DEF LineInd, LineOK
<1>4. \A q \in Pin : line_fd[q] # f
  BY <1>2, NoFileFacts, FdFacts DEF LineInd, ClaimsMatch
<1>5. Level(p, mode) \in BOOLEAN
  BY DEF Level, LineInd, LineOK
<1>6. LineOK'
  BY <1>1, <1>2, <1>5 DEF LineInd, LineOK, FileType, Mode
<1>7. CallOK'
  BY <1>2, <1>3, FdFacts DEF LineInd, CallOK, Idle
<1>8. OpenOK'
  BY <1>3 DEF LineInd, OpenOK
<1>9. ClaimsMatch'
  BY <1>2, <1>3, <1>4, FdFacts DEF LineInd, LineOK, OpenOK, ClaimsMatch
<1>10. OutputHeld'
  <2> SUFFICES ASSUME NEW q \in Pin \ refused', line_fd'[q] # NoFd,
                      file'[line_fd'[q]].mode = "out"
               PROVE  driven'[q] = output_value[q]
    BY DEF OutputHeld
  <2>1. CASE q = p
    <3>1. mode = "out"
      BY <1>3, <2>1
    <3> QED
      BY <1>3, <2>1, <3>1 DEF Level
  <2>2. CASE q # p
    <3>1. line_fd'[q] = line_fd[q] /\ line_fd[q] \in Fd \ {f}
      BY <1>3, <1>4, <2>2 DEF LineInd, LineOK
    <3>2. file[line_fd[q]].mode = "out" /\ driven'[q] = driven[q]
      BY <1>3, <2>2, <3>1
    <3>3. q \notin refused
      BY <1>1, <2>2
    <3> QED
      BY <2>2, <3>1, <3>2, <3>3 DEF LineInd, OutputHeld
  <2> QED
    BY <2>1, <2>2
<1> QED
  BY <1>6, <1>7, <1>8, <1>9, <1>10 DEF LineInd

LEMMA CloseKeepsLines ==
  ASSUME LineInd, NEW p \in Pin, line_fd[p] # NoFd, Close(p),
         UNCHANGED <<driven, refused, output_value>>,
         call.op # "nonblock",
         NEW op \in {"idle", "in", "out", "request"},
         call' = IF op = "idle" THEN Idle ELSE [op |-> op, pin |-> p]
  PROVE  LineInd'
<1> DEFINE f == line_fd[p]
<1>1. f \in Fd /\ file[f].pin = p
  BY DEF LineInd, LineOK, ClaimsMatch
<1>2. /\ file'[f] = NoFile /\ \A g \in Fd \ {f} : file'[g] = file[g]
      /\ line_fd'[p] = NoFd /\ \A q \in Pin \ {p} : line_fd'[q] = line_fd[q]
  BY <1>1 DEF Close, LineInd, LineOK
<1>3. LineOK'
  BY <1>1, NoFileFacts DEF Close, LineInd, LineOK, Idle, Op
<1>4. CallOK'
  BY <1>1, <1>2, NoFileFacts DEF LineInd, CallOK, Idle
<1>5. OpenOK'
  BY <1>2 DEF LineInd, OpenOK
<1>6. ClaimsMatch'
  BY <1>1, <1>2 DEF LineInd, LineOK, OpenOK, ClaimsMatch
<1>7. OutputHeld'
  BY <1>1, <1>2 DEF LineInd, LineOK, ClaimsMatch, OutputHeld
<1> QED
  BY <1>3, <1>4, <1>5, <1>6, <1>7 DEF LineInd
\* A claimed line is reconfigured in place, between calls.
LEMMA ReconfigureKeepsLines ==
  ASSUME LineInd, NEW p \in Pin, NEW mode \in {"in", "out"}, Reconfigure(p, mode)
  PROVE  LineInd'
<1> DEFINE f == line_fd[p]
<1>1. /\ f # NoFd /\ call = Idle
      /\ file' = [file EXCEPT ![f].mode = mode]
      /\ driven' = [driven EXCEPT ![p] = Level(p, mode)]
      /\ refused' = refused \ {p}
      /\ UNCHANGED <<line_fd, output_value, call>>
  BY DEF Reconfigure
<1>2. f \in Fd /\ file[f].pin = p
  BY <1>1 DEF LineInd, LineOK, ClaimsMatch
<1>3. file'[f] = [file[f] EXCEPT !.mode = mode] /\ \A g \in Fd \ {f} : file'[g] = file[g]
  BY <1>1, <1>2 DEF LineInd, LineOK
<1>4. file[f] \in FileType
  BY <1>2 DEF LineInd, LineOK
<1>5. file'[f] \in FileType /\ file'[f].pin = p /\ file'[f].mode = mode
  BY <1>2, <1>3, <1>4 DEF FileType, Mode
<1>6. Level(p, mode) \in BOOLEAN
  BY DEF Level, LineInd, LineOK
<1>7. LineOK'
  <2>1. driven' \in [Pin -> BOOLEAN]
    BY <1>1, <1>6 DEF LineInd, LineOK
  <2>2. file' \in [Fd -> FileType]
    BY <1>1, <1>2, <1>3, <1>5 DEF LineInd, LineOK
  <2> QED
    BY <1>1, <2>1, <2>2 DEF LineInd, LineOK
<1>8. CallOK'
  BY <1>1, <1>3, <1>5 DEF LineInd, CallOK, Idle
<1>9. OpenOK'
  BY <1>3, <1>5 DEF LineInd, OpenOK
<1>10. ClaimsMatch'
  <2>1. \A q \in Pin \ {p} : line_fd[q] # f
    BY <1>2, FdFacts DEF LineInd, ClaimsMatch
  <2>2. \A q \in Pin : line_fd'[q] # NoFd => file'[line_fd'[q]].pin = q
    BY <1>1, <1>3, <1>5, <2>1 DEF LineInd, LineOK, ClaimsMatch
  <2>3. \A g \in Fd : file'[g] # NoFile => line_fd'[file'[g].pin] = g
    BY <1>1, <1>3, <1>5 DEF LineInd, ClaimsMatch
  <2> QED
    BY <2>2, <2>3 DEF ClaimsMatch
<1>11. OutputHeld'
  <2> SUFFICES ASSUME NEW q \in Pin \ refused', line_fd'[q] # NoFd,
                      file'[line_fd'[q]].mode = "out"
               PROVE  driven'[q] = output_value[q]
    BY <1>1 DEF OutputHeld
  <2>1. CASE q = p
    <3>1. mode = "out"
      BY <1>1, <1>5, <2>1
    <3>2. driven'[p] = Level(p, mode)
      BY <1>1 DEF LineInd, LineOK
    <3> QED
      BY <2>1, <3>1, <3>2 DEF Level
  <2>2. CASE q # p
    <3>1. line_fd'[q] = line_fd[q] /\ line_fd[q] \in Fd \ {f}
      BY <1>1, <1>2, <2>2 DEF LineInd, LineOK, ClaimsMatch
    <3>2. file[line_fd[q]].mode = "out"
      BY <1>3, <3>1
    <3>3. driven'[q] = driven[q]
      BY <1>1, <2>2 DEF LineInd, LineOK
    <3>4. q \notin refused
      BY <1>1, <2>2
    <3> QED
      BY <3>1, <3>2, <3>3, <3>4 DEF LineInd, OutputHeld
  <2> QED
    BY <2>1, <2>2
<1> QED
  BY <1>7, <1>8, <1>9, <1>10, <1>11 DEF LineInd

LEMMA WriteKeepsLines ==
  ASSUME LineInd, NEW p \in Pin, NEW level \in BOOLEAN, digital_write(p, level)
  PROVE  LineInd'
<1>1. /\ line_fd[p] # NoFd
      /\ output_value' = [output_value EXCEPT ![p] = level]
      /\ \/ driven' = [driven EXCEPT ![p] = level] /\ refused' = refused \ {p}
         \/ driven' = driven /\ refused' = refused \cup {p}
      /\ UNCHANGED <<line_fd, file, call>>
  BY DEF digital_write
<1>2. driven' \in [Pin -> BOOLEAN] /\ output_value' \in [Pin -> BOOLEAN]
  BY <1>1 DEF LineInd, LineOK
<1>3. OutputHeld'
  <2> SUFFICES ASSUME NEW q \in Pin \ refused', line_fd[q] # NoFd, file[line_fd[q]].mode = "out"
               PROVE  driven'[q] = output_value'[q]
    BY <1>1 DEF OutputHeld
  <2>1. CASE q = p
    \* The write was done, or q would be among the refused.
    <3>1. driven' = [driven EXCEPT ![p] = level]
      BY <1>1, <2>1
    <3> QED
      BY <1>1, <2>1, <3>1 DEF LineInd, LineOK
  <2>2. CASE q # p
    <3>1. q \notin refused
      BY <1>1, <2>2
    <3>2. driven'[q] = driven[q] /\ output_value'[q] = output_value[q]
      BY <1>1, <2>2 DEF LineInd, LineOK
    <3> QED
      BY <3>1, <3>2 DEF LineInd, OutputHeld
  <2> QED
    BY <2>1, <2>2
<1> QED
  BY <1>1, <1>2, <1>3 DEF LineInd, LineOK, CallOK, OpenOK, ClaimsMatch

LEMMA NonblockKeepsLines ==
  ASSUME LineInd, SetNonblock
  PROVE  LineInd'
<1> DEFINE p == call.pin
           f == line_fd[p]
<1>1. /\ call.op = "nonblock"
      /\ file' = [file EXCEPT ![f].blocking = FALSE]
      /\ call' = [call EXCEPT !.op = "add"]
      /\ UNCHANGED <<line_fd, driven, refused, output_value>>
  BY DEF SetNonblock
<1>2. p \in Pin /\ f \in Fd /\ file[f].pin = p
  BY <1>1 DEF LineInd, LineOK, CallOK, ClaimsMatch
<1>3. file'[f] = [file[f] EXCEPT !.blocking = FALSE] /\ \A g \in Fd \ {f} : file'[g] = file[g]
  BY <1>1, <1>2 DEF LineInd, LineOK
<1>4. file[f] \in FileType
  BY <1>2 DEF LineInd, LineOK
<1>5. /\ file'[f] \in FileType /\ file'[f].pin = p /\ file'[f].mode = file[f].mode
      /\ ~file'[f].blocking
  BY <1>2, <1>3, <1>4 DEF FileType
<1>6. call'.op = "add" /\ call'.pin = p /\ call' \in [op : Op, pin : Pin \cup {NoPin}]
  BY <1>1, <1>2 DEF LineInd, LineOK, Op
<1>7. LineOK'
  <2>1. file' \in [Fd -> FileType]
    BY <1>1, <1>2, <1>3, <1>5 DEF LineInd, LineOK
  <2> QED
    BY <1>1, <1>6, <2>1 DEF LineInd, LineOK
<1>8. CallOK'
  <2>1. \A g \in Fd : file'[g].mode = "edge" => ~file'[g].blocking
    BY <1>1, <1>3, <1>5 DEF LineInd, CallOK
  <2> QED
    BY <1>1, <1>2, <1>6, <2>1, FdFacts DEF CallOK
<1>9. OpenOK'
  BY <1>2, <1>3, <1>5 DEF LineInd, OpenOK
<1>10. ClaimsMatch'
  <2>1. \A q \in Pin \ {p} : line_fd[q] # f
    BY <1>2, FdFacts DEF LineInd, ClaimsMatch
  <2>2. \A q \in Pin : line_fd'[q] # NoFd => file'[line_fd'[q]].pin = q
    BY <1>1, <1>3, <1>5, <2>1 DEF LineInd, LineOK, ClaimsMatch
  <2>3. \A g \in Fd : file'[g] # NoFile => line_fd'[file'[g].pin] = g
    BY <1>1, <1>3, <1>5 DEF LineInd, ClaimsMatch
  <2> QED
    BY <2>2, <2>3 DEF ClaimsMatch
<1>11. OutputHeld'
  BY <1>1, <1>3, <1>5 DEF LineInd, LineOK, OutputHeld
<1> QED
  BY <1>7, <1>8, <1>9, <1>10, <1>11 DEF LineInd
\* Steps that only move the call on.
LEMMA CallKeepsLines ==
  ASSUME LineInd, UNCHANGED <<line_fd, file, driven, refused, output_value>>,
         call' \in [op : Op, pin : Pin \cup {NoPin}], CallOK'
  PROVE  LineInd'
BY DEF LineInd, LineOK, OpenOK, ClaimsMatch, OutputHeld

LEMMA IdleFacts == Idle \in [op : Op, pin : Pin \cup {NoPin}] /\ Idle.op = "idle"
BY DEF Idle, Op

LEMMA LineStep ==
  ASSUME LineInd, [GpioNext]_gpioVars
  PROVE  LineInd'
<1>1. ASSUME NEW p \in Pin, NEW mode \in {"in", "out"}, claim_line(p, mode)
      PROVE  LineInd'
  <2>1. CASE Reconfigure(p, mode)
    BY <2>1, ReconfigureKeepsLines
  <2>2. CASE ReconfigureFails(p, mode)
    <3>1. /\ line_fd[p] # NoFd /\ call = Idle /\ call' = [op |-> mode, pin |-> p] /\ Close(p)
          /\ UNCHANGED <<driven, refused, output_value>>
      BY <2>2 DEF ReconfigureFails, Begin
    <3> QED
      BY <3>1, IdleFacts, CloseKeepsLines
  <2>3. CASE FirstClaim(p, mode)
    <3>1. /\ line_fd[p] = NoFd /\ call = Idle /\ call' = [op |-> mode, pin |-> p]
          /\ UNCHANGED <<line_fd, file, driven, refused, output_value>>
      BY <2>3 DEF FirstClaim, Begin, kernelVars
    <3>2. CallOK' /\ call' \in [op : Op, pin : Pin \cup {NoPin}]
      BY <3>1, IdleFacts DEF LineInd, CallOK, Op
    <3> QED
      BY <3>1, <3>2, CallKeepsLines
  <2> QED
    BY <1>1, <2>1, <2>2, <2>3 DEF claim_line
<1>2. ASSUME NEW p \in Pin, NEW level \in BOOLEAN, digital_write(p, level)
      PROVE  LineInd'
  BY <1>2, WriteKeepsLines
<1>3. ASSUME NEW p \in Pin, BeginAttach(p) \/ BeginDetach(p)
      PROVE  LineInd'
  <2>1. /\ call = Idle /\ UNCHANGED <<line_fd, file, driven, refused, output_value>>
        /\ \E op \in {"attach", "detach", "request"} :
             /\ call' = [op |-> op, pin |-> p]
             /\ op = "request" <=> line_fd[p] = NoFd
    BY <1>3 DEF BeginAttach, BeginDetach, Begin, kernelVars
  <2>2. CallOK' /\ call' \in [op : Op, pin : Pin \cup {NoPin}]
    BY <2>1, IdleFacts DEF LineInd, CallOK, Op
  <2> QED
    BY <2>1, <2>2, CallKeepsLines
<1>4. CASE ClaimRequest
  <2>1. /\ call.op \in {"in", "out"} /\ call' = Idle /\ UNCHANGED output_value
        /\ call.pin \in Pin /\ line_fd[call.pin] = NoFd
    BY <1>4 DEF ClaimRequest, LineInd, CallOK
  <2>2. CASE Request(call.pin, call.op)
    BY <2>1, <2>2, IdleFacts, RequestKeepsLines
  <2>3. CASE UNCHANGED <<file, line_fd, driven, refused>>
    <3>1. CallOK'
      BY <2>1, <2>3, IdleFacts DEF LineInd, CallOK
    <3> QED
      BY <2>1, <2>3, <3>1, IdleFacts, CallKeepsLines
  <2> QED
    BY <1>4, <2>2, <2>3 DEF ClaimRequest
<1>5. CASE AlertRemove
  <2>1. /\ call.op \in {"attach", "detach"} /\ UNCHANGED <<line_fd, file, driven, refused, output_value>>
        /\ call' = [call EXCEPT !.op = IF @ = "attach" THEN "reopen" ELSE "close"]
    BY <1>5 DEF AlertRemove, kernelVars
  <2>2. /\ call' \in [op : Op, pin : Pin \cup {NoPin}] /\ call'.pin = call.pin
        /\ call'.op \in {"reopen", "close"}
    BY <2>1 DEF LineInd, LineOK, Op
  <2>3. CallOK'
    BY <2>1, <2>2 DEF LineInd, CallOK
  <2> QED
    BY <2>1, <2>2, <2>3, CallKeepsLines
<1>6. CASE AlertClose
  <2>1. /\ call.op \in {"reopen", "close"} /\ Close(call.pin) /\ UNCHANGED <<driven, refused, output_value>>
        /\ call' = IF call.op = "reopen" THEN [call EXCEPT !.op = "request"] ELSE Idle
    BY <1>6 DEF AlertClose
  <2>2. call.pin \in Pin /\ line_fd[call.pin] # NoFd
    BY <2>1 DEF LineInd, CallOK
  <2>3. [call EXCEPT !.op = "request"] = [op |-> "request", pin |-> call.pin]
    BY DEF LineInd, LineOK
  <2>4. CASE call.op = "reopen"
    BY <2>1, <2>2, <2>3, <2>4, CloseKeepsLines
  <2>5. CASE call.op = "close"
    BY <2>1, <2>2, <2>5, CloseKeepsLines
  <2> QED
    BY <2>1, <2>4, <2>5
<1>7. CASE EdgeRequest
  <2>1. call.op = "request" /\ UNCHANGED output_value /\ call.pin \in Pin /\ line_fd[call.pin] = NoFd
    BY <1>7 DEF EdgeRequest, LineInd, CallOK
  <2>2. CASE Request(call.pin, "edge") /\ call' = [call EXCEPT !.op = "nonblock"]
    <3>1. /\ call' = [op |-> "nonblock", pin |-> call.pin]
          /\ call' \in [op : Op, pin : Pin \cup {NoPin}]
      BY <2>2 DEF LineInd, LineOK, Op
    <3> QED
      BY <2>1, <2>2, <3>1, RequestKeepsLines
  <2>3. CASE call' = Idle /\ UNCHANGED <<file, line_fd, driven, refused>>
    <3>1. CallOK'
      BY <2>1, <2>3, IdleFacts DEF LineInd, CallOK
    <3> QED
      BY <2>1, <2>3, <3>1, IdleFacts, CallKeepsLines
  <2> QED
    BY <1>7, <2>2, <2>3 DEF EdgeRequest
<1>8. CASE SetNonblock
  BY <1>8, NonblockKeepsLines
<1>9. CASE AlertAdd
  <2>1. call.op = "add" /\ call' = Idle /\ UNCHANGED <<line_fd, file, driven, refused, output_value>>
    BY <1>9 DEF AlertAdd, kernelVars
  <2>2. CallOK'
    BY <2>1, IdleFacts DEF LineInd, CallOK
  <2> QED
    BY <2>1, <2>2, IdleFacts, CallKeepsLines
<1>10. ASSUME NEW p \in Pin, Edge(p)
       PROVE  LineInd'
  BY <1>10, LineKept DEF Edge, lineVars, mainVars
<1>11. CASE RunStep \/ PollFails
  BY <1>11, LineKept
  DEF RunStep, TakeSnapshot, PollEnter, PollReturn, EndRound, ReadEvent, ReadNothing, PollFails,
      lineVars, mainVars, kernelVars
<1>12. CASE UNCHANGED gpioVars
  BY <1>12, LineKept DEF gpioVars, lineVars, mainVars, kernelVars
<1> QED
  BY <1>1, <1>2, <1>3, <1>4, <1>5, <1>6, <1>7, <1>8, <1>9, <1>10, <1>11, <1>12
  DEF GpioNext, GpioMain, MainContinues

LEMMA LineInit ==
  ASSUME GpioInit
  PROVE  LineInd
<1>1. LineOK
  BY NoFileFacts, IdleFacts DEF GpioInit, LineOK
<1>2. CallOK /\ OpenOK
  BY NoFileFacts, IdleFacts DEF GpioInit, CallOK, OpenOK
<1>3. ClaimsMatch /\ OutputHeld
  BY DEF GpioInit, ClaimsMatch, OutputHeld
<1> QED
  BY <1>1, <1>2, <1>3 DEF LineInd

LEMMA LineInvariant == GpioSpec => []LineInd
<1>1. GpioInit => LineInd
  BY LineInit
<1>2. LineInd /\ [GpioNext]_gpioVars => LineInd'
  BY LineStep
<1> QED
  BY <1>1, <1>2, PTL DEF GpioSpec

\* No sequence of claims, reconfigurations, refusals, attaches and detaches
\* leaks a line request or leaves line_fd_ at a closed descriptor.
THEOREM ClaimsAlwaysMatch == GpioSpec => []ClaimsMatch
<1>1. LineInd => ClaimsMatch
  BY DEF LineInd
<1> QED
  BY <1>1, LineInvariant, PTL

\* An output drives what digital_write() last asked for, through every
\* reconfiguration and every new request of its line, unless the SET_VALUES of
\* that write failed and the line has not been configured since.
THEOREM OutputsHold == GpioSpec => []OutputHeld
<1>1. LineInd => OutputHeld
  BY DEF LineInd
<1> QED
  BY <1>1, LineInvariant, PTL
-----------------------------------------------------------------------------
(***************************************************************************)
(* Rounds of the alert thread.                                             *)
(***************************************************************************)
RoundOK ==
  /\ edge \in [Pin -> BOOLEAN]
  /\ entries \subseteq Entry /\ snapshot \subseteq Entry
  /\ watched \subseteq snapshot /\ ready \subseteq snapshot /\ stuck_on \subseteq ready
  /\ alert \in {"snapshot", "enter"} => watched = {}
  /\ alert # "serve" => ready = {}

\* An entry of the snapshot that was not closed since still has its line.
Fresh == \A e \in snapshot : e.fd \notin closedSince => line_fd[e.pin] = e.fd

\* Where a read could block, there is an event to read.
NoBlock == \A e \in ready : e.fd \notin closedSince /\ file[e.fd].blocking => HasEvent(e)

RoundInd == RoundOK /\ Fresh /\ NoBlock /\ StaleRoundOnly

roundVars == <<edge, snapshot, watched, ready, stuck_on, alert, called, closedSince>>

LEMMA RoundKept ==
  ASSUME RoundInd, UNCHANGED roundVars, UNCHANGED <<line_fd, file>>, entries' \subseteq Entry
  PROVE  RoundInd'
BY DEF roundVars, RoundInd, RoundOK, Fresh, NoBlock, StaleRoundOnly, HasEvent

\* A new request takes a free descriptor, which no fresh entry names.
LEMMA RequestKeepsRound ==
  ASSUME LineInd, RoundInd, NEW p \in Pin, NEW mode, line_fd[p] = NoFd, Request(p, mode),
         UNCHANGED roundVars, UNCHANGED entries
  PROVE  RoundInd'
<1>1. PICK f \in FreeFds :
        /\ file' = [file EXCEPT ![f] = [pin |-> p, mode |-> mode, blocking |-> TRUE]]
        /\ line_fd' = [line_fd EXCEPT ![p] = f]
  BY DEF Request
<1>2. f \in Fd /\ file[f] = NoFile
  BY DEF FreeFds
<1>3. /\ \A g \in Fd \ {f} : file'[g] = file[g]
      /\ \A q \in Pin \ {p} : line_fd'[q] = line_fd[q]
  BY <1>1 DEF LineInd, LineOK
<1>4. \A e \in snapshot : e.fd \in Fd /\ e.pin \in Pin
  BY DEF RoundInd, RoundOK, Entry
<1>5. \A e \in snapshot : e.fd \notin closedSince => e.pin # p /\ e.fd # f
  <2> SUFFICES ASSUME NEW e \in snapshot, e.fd \notin closedSince
               PROVE  e.pin # p /\ e.fd # f
    OBVIOUS
  <2>1. line_fd[e.pin] = e.fd
    BY DEF RoundInd, Fresh
  <2>2. file[e.fd].pin = e.pin
    BY <1>4, <2>1, FdFacts DEF LineInd, ClaimsMatch
  <2> QED
    BY <1>2, <1>4, <2>1, <2>2, NoFileFacts, FdFacts
<1>6. RoundOK' /\ StaleRoundOnly'
  BY DEF roundVars, RoundInd, RoundOK, StaleRoundOnly
<1>7. Fresh'
  BY <1>3, <1>4, <1>5 DEF roundVars, RoundInd, Fresh
<1>8. NoBlock'
  <2> SUFFICES ASSUME NEW e \in ready, e.fd \notin closedSince, file'[e.fd].blocking
               PROVE  HasEvent(e)'
    BY DEF NoBlock, roundVars
  <2>1. e \in snapshot
    BY DEF RoundInd, RoundOK
  <2>2. file'[e.fd] = file[e.fd]
    BY <1>3, <1>4, <1>5, <2>1
  <2> QED
    BY <2>2 DEF RoundInd, NoBlock, HasEvent, roundVars
<1> QED
  BY <1>6, <1>7, <1>8 DEF RoundInd

\* A closed descriptor is stale from now on; the others are as they were.
LEMMA CloseKeepsRound ==
  ASSUME LineInd, RoundInd, NEW p \in Pin, line_fd[p] # NoFd, Close(p),
         UNCHANGED <<entries, alert, snapshot, ready, stuck_on, called>>
  PROVE  RoundInd'
<1> DEFINE f == line_fd[p]
<1>1. /\ f \in Fd /\ closedSince' = closedSince \cup {f}
      /\ edge' = [edge EXCEPT ![p] = FALSE]
      /\ watched' \subseteq watched
      /\ \A g \in Fd \ {f} : file'[g] = file[g]
      /\ \A q \in Pin \ {p} : line_fd'[q] = line_fd[q]
  BY DEF Close, LineInd, LineOK
<1>2. \A e \in snapshot : e.fd \in Fd /\ e.pin \in Pin
  BY DEF RoundInd, RoundOK, Entry
<1>3. RoundOK'
  BY <1>1 DEF RoundInd, RoundOK
<1>4. Fresh'
  BY <1>1, <1>2 DEF RoundInd, Fresh
<1>5. NoBlock'
  <2> SUFFICES ASSUME NEW e \in ready, e.fd \notin closedSince', file'[e.fd].blocking
               PROVE  HasEvent(e)'
    BY DEF NoBlock
  <2>1. e \in snapshot /\ e.fd \in Fd \ {f} /\ e.pin \in Pin
    BY <1>1, <1>2 DEF RoundInd, RoundOK
  <2>2. line_fd[e.pin] = e.fd
    BY <1>1, <2>1 DEF RoundInd, Fresh
  <2>3. file'[e.fd] = file[e.fd] /\ file[e.fd].pin = e.pin /\ e.pin # p
    BY <1>1, <2>1, <2>2, FdFacts DEF LineInd, ClaimsMatch
  <2>4. HasEvent(e)
    BY <1>1, <2>3 DEF RoundInd, NoBlock
  <2>5. edge'[e.pin] = edge[e.pin]
    BY <1>1, <2>1, <2>3 DEF RoundInd, RoundOK
  <2> QED
    BY <2>3, <2>4, <2>5 DEF HasEvent
<1>6. StaleRoundOnly'
  BY <1>1 DEF RoundInd, StaleRoundOnly
<1> QED
  BY <1>3, <1>4, <1>5, <1>6 DEF RoundInd

\* Between calls no edge request blocks, so a reconfiguration strands nobody.
LEMMA ReconfigureKeepsRound ==
  ASSUME LineInd, RoundInd, NEW p \in Pin, NEW mode \in {"in", "out"}, Reconfigure(p, mode)
  PROVE  RoundInd'
<1> DEFINE f == line_fd[p]
<1>1. /\ f # NoFd /\ call = Idle
      /\ file' = [file EXCEPT ![f].mode = mode]
      /\ edge' = [edge EXCEPT ![p] = FALSE]
      /\ UNCHANGED <<line_fd, entries, alertVars, closedSince>>
  BY DEF Reconfigure
<1>2. f \in Fd /\ file[f] \in FileType
  BY <1>1 DEF LineInd, LineOK
<1>3. \A g \in Fd : file'[g].blocking = file[g].blocking
  BY <1>1, <1>2 DEF LineInd, LineOK, FileType
<1>4. edge' \in [Pin -> BOOLEAN]
  BY <1>1 DEF RoundInd, RoundOK
<1>5. NoBlock'
  <2> SUFFICES ASSUME NEW e \in ready, e.fd \notin closedSince, file'[e.fd].blocking
               PROVE  FALSE
    BY <1>1 DEF NoBlock, alertVars
  <2>1. e.fd \in Fd
    BY DEF RoundInd, RoundOK, Entry
  <2>2. file[e.fd].blocking
    BY <1>3, <2>1
  <2>3. file[e.fd].mode = "edge"
    BY <2>2 DEF RoundInd, NoBlock, HasEvent
  <2> QED
    BY <1>1, <2>1, <2>2, <2>3, IdleFacts DEF LineInd, CallOK
<1> QED
  BY <1>1, <1>4, <1>5 DEF RoundInd, RoundOK, Fresh, StaleRoundOnly, alertVars

LEMMA NonblockKeepsRound ==
  ASSUME LineInd, RoundInd, SetNonblock
  PROVE  RoundInd'
<1> DEFINE f == line_fd[call.pin]
<1>1. /\ call.op = "nonblock" /\ file' = [file EXCEPT ![f].blocking = FALSE]
      /\ UNCHANGED <<line_fd, edge, entries, alertVars, closedSince>>
  BY DEF SetNonblock
<1>2. f \in Fd /\ file[f] \in FileType
  BY <1>1 DEF LineInd, LineOK, CallOK
<1>3. \A g \in Fd : file'[g].blocking => file'[g] = file[g]
  BY <1>1, <1>2 DEF LineInd, LineOK, FileType
<1>4. NoBlock'
  <2> SUFFICES ASSUME NEW e \in ready, e.fd \notin closedSince, file'[e.fd].blocking
               PROVE  HasEvent(e)'
    BY <1>1 DEF NoBlock, alertVars
  <2>1. e.fd \in Fd
    BY DEF RoundInd, RoundOK, Entry
  <2>2. file'[e.fd] = file[e.fd]
    BY <1>3, <2>1
  <2> QED
    BY <1>1, <2>2 DEF RoundInd, NoBlock, HasEvent
<1> QED
  BY <1>1, <1>4 DEF RoundInd, RoundOK, Fresh, StaleRoundOnly, alertVars

LEMMA EdgeKeepsRound ==
  ASSUME RoundInd, NEW p \in Pin, Edge(p)
  PROVE  RoundInd'
<1>1. edge' = [edge EXCEPT ![p] = TRUE] /\ UNCHANGED <<line_fd, file, entries, alertVars, closedSince>>
  BY DEF Edge, mainVars
<1>2. edge' \in [Pin -> BOOLEAN] /\ \A q \in Pin : edge[q] => edge'[q]
  BY <1>1 DEF RoundInd, RoundOK
<1>3. NoBlock'
  <2> SUFFICES ASSUME NEW e \in ready, HasEvent(e)
               PROVE  HasEvent(e)'
    BY <1>1 DEF RoundInd, NoBlock, alertVars
  <2>1. CASE file[e.fd].pin = p
    BY <1>1, <2>1 DEF HasEvent, RoundInd, RoundOK
  <2>2. CASE file[e.fd].pin # p
    BY <1>1, <2>2 DEF HasEvent, RoundInd, RoundOK
  <2> QED
    BY <2>1, <2>2
<1> QED
  BY <1>1, <1>2, <1>3 DEF RoundInd, RoundOK, Fresh, StaleRoundOnly, alertVars
\* The alert thread itself.  Two fresh entries of one descriptor are one entry,
\* so a read takes no other's event.
LEMMA ReadKeepsRound ==
  ASSUME LineInd, RoundInd, NEW e \in ready, ReadEvent(e)
  PROVE  RoundInd'
<1> DEFINE src == file[e.fd].pin
<1>1. /\ alert = "serve" /\ HasEvent(e) /\ edge' = [edge EXCEPT ![src] = FALSE]
      /\ called' = [callee |-> e.pin, source |-> src, fd |-> e.fd]
      /\ ready' = ready \ {e} /\ stuck_on' = {}
      /\ UNCHANGED <<line_fd, file, entries, alert, snapshot, watched, closedSince>>
  BY DEF ReadEvent, mainVars
<1>2. \A x \in snapshot : x.fd \in Fd /\ x.pin \in Pin /\ x = [fd |-> x.fd, pin |-> x.pin]
  BY DEF RoundInd, RoundOK, Entry
<1>3. ready \subseteq snapshot /\ e \in snapshot
  BY DEF RoundInd, RoundOK
<1>4. \A x \in snapshot : x.fd \notin closedSince => line_fd[x.pin] = x.fd /\ file[x.fd].pin = x.pin
  BY <1>2, FdFacts DEF RoundInd, Fresh, LineInd, ClaimsMatch
<1>5. RoundOK'
  BY <1>1 DEF RoundInd, RoundOK
<1>6. Fresh'
  BY <1>1 DEF RoundInd, Fresh
<1>7. NoBlock'
  <2> SUFFICES ASSUME NEW x \in ready, x # e, x.fd \notin closedSince, file[x.fd].blocking
               PROVE  HasEvent(x)'
    BY <1>1 DEF NoBlock
  <2>1. HasEvent(x) /\ line_fd[x.pin] = x.fd /\ file[x.fd].pin = x.pin /\ x.pin \in Pin
    BY <1>2, <1>3, <1>4 DEF RoundInd, NoBlock
  <2>2. x.pin # src
    <3> SUFFICES ASSUME x.pin = src PROVE FALSE
      OBVIOUS
    <3>1. file[e.fd] # NoFile
      BY <1>1, NoFileFacts DEF HasEvent
    <3>2. line_fd[src] = e.fd
      BY <1>2, <1>3, <3>1 DEF LineInd, ClaimsMatch
    <3>3. x.fd = e.fd
      BY <2>1, <3>2
    <3>4. x.pin = e.pin
      BY <1>3, <1>4, <2>1, <3>3
    <3> QED
      BY <1>2, <1>3, <3>3, <3>4
  <2>3. edge'[x.pin] = edge[x.pin]
    BY <1>1, <2>1, <2>2 DEF RoundInd, RoundOK
  <2> QED
    BY <1>1, <2>1, <2>3 DEF HasEvent
<1>8. StaleRoundOnly'
  BY <1>1, <1>3, <1>4 DEF StaleRoundOnly
<1> QED
  BY <1>5, <1>6, <1>7, <1>8 DEF RoundInd

LEMMA AlertKeepsRound ==
  ASSUME LineInd, RoundInd, RunStep \/ PollFails
  PROVE  RoundInd'
<1>1. CASE TakeSnapshot
  <2>1. /\ alert = "snapshot" /\ alert' = "enter" /\ snapshot' = entries
        /\ closedSince' = Abandoned /\ called' = NoCall
        /\ UNCHANGED <<line_fd, file, edge, entries, watched, ready, stuck_on>>
    BY <1>1 DEF TakeSnapshot, mainVars, kernelVars
  <2>2. ready = {} /\ watched = {} /\ stuck_on = {}
    BY <2>1 DEF RoundInd, RoundOK
  <2>3. RoundOK'
    BY <2>1, <2>2 DEF RoundInd, RoundOK
  <2>4. Fresh'
    BY <2>1 DEF Fresh, Abandoned
  <2> QED
    BY <2>1, <2>2, <2>3, <2>4 DEF RoundInd, NoBlock, StaleRoundOnly, NoCall
<1>2. CASE PollEnter
  BY <1>2 DEF PollEnter, mainVars, kernelVars, RoundInd, RoundOK, Fresh, NoBlock, StaleRoundOnly
<1>3. CASE PollReturn
  <2>1. /\ alert \in {"return", "poll"} /\ alert' = "serve" /\ ready' = {e \in watched : HasEvent(e)}
        /\ UNCHANGED <<line_fd, file, edge, entries, snapshot, watched, stuck_on, closedSince, called>>
    BY <1>3 DEF PollReturn, mainVars, kernelVars
  <2>2. stuck_on = {}
    BY <2>1 DEF RoundInd, RoundOK
  <2>3. RoundOK'
    BY <2>1, <2>2 DEF RoundInd, RoundOK
  <2>4. NoBlock'
    BY <2>1 DEF NoBlock, HasEvent
  <2> QED
    BY <2>1, <2>3, <2>4 DEF RoundInd, Fresh, StaleRoundOnly
<1>4. CASE EndRound
  BY <1>4 DEF EndRound, mainVars, kernelVars, RoundInd, RoundOK, Fresh, NoBlock, StaleRoundOnly
<1>5. ASSUME NEW e \in ready, ReadEvent(e)
      PROVE  RoundInd'
  BY <1>5, ReadKeepsRound
<1>6. ASSUME NEW e \in ready, ReadNothing(e)
      PROVE  RoundInd'
  <2>1. /\ alert = "serve" /\ ~HasEvent(e) /\ ready' \subseteq ready
        /\ IF file[e.fd].blocking THEN stuck_on' = {e} /\ ready' = ready ELSE stuck_on' = {}
        /\ UNCHANGED <<line_fd, file, edge, entries, alert, snapshot, watched, closedSince, called>>
    BY <1>6 DEF ReadNothing, mainVars, kernelVars
  <2>2. RoundOK' /\ Fresh'
    BY <2>1 DEF RoundInd, RoundOK, Fresh
  <2>3. NoBlock'
    BY <2>1 DEF RoundInd, NoBlock, HasEvent
  <2>4. file[e.fd].blocking => e.fd \in closedSince
    BY <2>1 DEF RoundInd, NoBlock
  <2>5. StaleRoundOnly'
    BY <2>1, <2>4 DEF RoundInd, StaleRoundOnly
  <2> QED
    BY <2>2, <2>3, <2>5 DEF RoundInd
<1>7. CASE PollFails
  BY <1>7 DEF PollFails, mainVars, kernelVars, RoundInd, RoundOK, Fresh, NoBlock, StaleRoundOnly
<1> QED
  BY <1>1, <1>2, <1>3, <1>4, <1>5, <1>6, <1>7 DEF RunStep

LEMMA RoundStep ==
  ASSUME LineInd, RoundInd, [GpioNext]_gpioVars
  PROVE  RoundInd'
<1>0. entries \subseteq Entry
  BY DEF RoundInd, RoundOK
<1>1. ASSUME NEW p \in Pin, NEW mode \in {"in", "out"}, claim_line(p, mode)
      PROVE  RoundInd'
  <2>1. CASE Reconfigure(p, mode)
    BY <2>1, ReconfigureKeepsRound
  <2>2. CASE ReconfigureFails(p, mode)
    BY <2>2, CloseKeepsRound DEF ReconfigureFails
  <2>3. CASE FirstClaim(p, mode)
    BY <1>0, <2>3, RoundKept DEF FirstClaim, roundVars, kernelVars, alertVars
  <2> QED
    BY <1>1, <2>1, <2>2, <2>3 DEF claim_line
<1>2. ASSUME NEW p \in Pin, NEW level \in BOOLEAN, digital_write(p, level)
      PROVE  RoundInd'
  BY <1>0, <1>2, RoundKept DEF digital_write, roundVars, alertVars
<1>3. ASSUME NEW p \in Pin, BeginAttach(p) \/ BeginDetach(p)
      PROVE  RoundInd'
  BY <1>0, <1>3, RoundKept DEF BeginAttach, BeginDetach, roundVars, kernelVars, alertVars
<1>4. CASE ClaimRequest
  <2>1. call.pin \in Pin /\ line_fd[call.pin] = NoFd /\ UNCHANGED roundVars /\ UNCHANGED entries
    BY <1>4 DEF ClaimRequest, LineInd, CallOK, roundVars, alertVars
  <2>2. CASE Request(call.pin, call.op)
    BY <2>1, <2>2, RequestKeepsRound
  <2>3. CASE UNCHANGED <<file, line_fd, driven, refused>>
    BY <1>0, <2>1, <2>3, RoundKept
  <2> QED
    BY <1>4, <2>2, <2>3 DEF ClaimRequest
<1>5. CASE AlertRemove
  BY <1>0, <1>5, RoundKept DEF AlertRemove, roundVars, kernelVars, alertVars
<1>6. CASE AlertClose
  <2>1. call.pin \in Pin /\ line_fd[call.pin] # NoFd
    BY <1>6 DEF AlertClose, LineInd, CallOK
  <2> QED
    BY <1>6, <2>1, CloseKeepsRound DEF AlertClose
<1>7. CASE EdgeRequest
  <2>1. call.pin \in Pin /\ line_fd[call.pin] = NoFd /\ UNCHANGED roundVars /\ UNCHANGED entries
    BY <1>7 DEF EdgeRequest, LineInd, CallOK, roundVars, alertVars
  <2>2. CASE Request(call.pin, "edge")
    BY <2>1, <2>2, RequestKeepsRound
  <2>3. CASE UNCHANGED <<file, line_fd, driven, refused>>
    BY <1>0, <2>1, <2>3, RoundKept
  <2> QED
    BY <1>7, <2>2, <2>3 DEF EdgeRequest
<1>8. CASE SetNonblock
  BY <1>8, NonblockKeepsRound
<1>9. CASE AlertAdd
  <2>1. [fd |-> line_fd[call.pin], pin |-> call.pin] \in Entry
    BY <1>9 DEF AlertAdd, LineInd, LineOK, CallOK, Entry
  <2>2. entries' \subseteq Entry
    BY <1>0, <1>9, <2>1 DEF AlertAdd
  <2> QED
    BY <1>9, <2>2, RoundKept DEF AlertAdd, roundVars, kernelVars, alertVars
<1>10. ASSUME NEW p \in Pin, Edge(p)
       PROVE  RoundInd'
  BY <1>10, EdgeKeepsRound
<1>11. CASE RunStep \/ PollFails
  BY <1>11, AlertKeepsRound
<1>12. CASE UNCHANGED gpioVars
  BY <1>0, <1>12, RoundKept DEF gpioVars, roundVars, mainVars, kernelVars, alertVars
<1> QED
  BY <1>1, <1>2, <1>3, <1>4, <1>5, <1>6, <1>7, <1>8, <1>9, <1>10, <1>11, <1>12
  DEF GpioNext, GpioMain, MainContinues

\* The alert thread takes a descriptor for another line's, or blocks on it,
\* only in the round in which the main thread closed it, or while entries_
\* keeps one that claim_line_() closed without a remove().
THEOREM OnlyStaleRoundsMislead == GpioSpec => []StaleRoundOnly
<1>1. GpioInit => RoundInd
  BY DEF GpioInit, RoundInd, RoundOK, Fresh, NoBlock, StaleRoundOnly, NoCall
<1>2. LineInd /\ RoundInd /\ [GpioNext]_gpioVars => RoundInd'
  BY RoundStep
<1>3. RoundInd => StaleRoundOnly
  BY DEF RoundInd
<1> QED
  BY <1>1, <1>2, <1>3, LineInvariant, PTL DEF GpioSpec

-----------------------------------------------------------------------------
(***************************************************************************)
(* MqttBackend.                                                            *)
(***************************************************************************)
\* Inductive strengthening: a handle is replaced only when its thread is gone.
MqttInd ==
  /\ ThreadHasHandle
  /\ caller = "renewing" => worker = "none"

LEMMA OneMoreOp ==
  ASSUME NEW n \in 0..MqttOpsMax, n < MqttOpsMax
  PROVE  n + 1 \in 0..MqttOpsMax
BY MqttAssumption

\* The variables keep their types: mqtt_ops stays within its bound and every
\* phase of connect(), disconnect() and the thread is one of those named.
THEOREM MqttTypeCorrect == MqttSpec => []MqttTypeOK
<1>1. MqttInit => MqttTypeOK
  <2> SUFFICES ASSUME MqttInit PROVE MqttTypeOK
    OBVIOUS
  <2>1. mqtt_ops \in 0..MqttOpsMax
    BY MqttAssumption DEF MqttInit
  <2> QED
    BY <2>1, Zenon DEF MqttInit, MqttTypeOK
<1>2. MqttTypeOK /\ [MqttNext]_mqttVars => MqttTypeOK'
  <2> SUFFICES ASSUME MqttTypeOK, [MqttNext]_mqttVars
               PROVE  MqttTypeOK'
    OBVIOUS
  <2> USE MqttAssumption DEF MqttTypeOK
  <2>1. CASE connect
    <3>1. mqtt_ops < MqttOpsMax /\ mqtt_ops' = mqtt_ops + 1
      BY <2>1, Zenon DEF connect, Enter
    <3>2. mqtt_ops' \in 0..MqttOpsMax
      BY <3>1, OneMoreOp, Zenon
    <3> QED
      BY <2>1, <3>2, ZenonT(30) DEF connect, Enter
  <2>2. CASE disconnect
    <3>1. mqtt_ops < MqttOpsMax /\ mqtt_ops' = mqtt_ops + 1
      BY <2>2, Zenon DEF disconnect, Enter
    <3>2. mqtt_ops' \in 0..MqttOpsMax
      BY <3>1, OneMoreOp, Zenon
    <3> QED
      BY <2>2, <3>2, ZenonT(30) DEF disconnect, Enter
  <2>3. CASE MqttCaller
    BY <2>3 DEF MqttCaller, Stopped, Renew, Joined
  <2>4. CASE MqttWorker
    BY <2>4 DEF MqttWorker, MqttEnds, OnConnect, OnMessage, OnDisconnect, CallbackPublishes,
                GetsMu, CallbackReturns, Leave, Cancelled
  <2>5. CASE UNCHANGED mqttVars
    BY <2>5, ZenonT(40) DEF mqttVars
  <2> QED
    BY <2>1, <2>2, <2>3, <2>4, <2>5 DEF MqttNext
<1> QED
  BY <1>1, <1>2, PTL DEF MqttSpec

LEMMA MqttIndStep ==
  ASSUME MqttTypeOK, MqttInd, [MqttNext]_mqttVars
  PROVE  MqttInd'
<1> USE DEF MqttInd, ThreadHasHandle, MqttTypeOK
<1>1. CASE connect
  BY <1>1 DEF connect, Enter
<1>2. CASE disconnect
  BY <1>2 DEF disconnect, Enter
<1>3. CASE Stopped
  BY <1>3 DEF Stopped
<1>4. CASE Renew
  <2>1. ~loop_started
    BY <1>4, Zenon DEF Renew
  <2>2. CASE loop_started'
    BY <1>4, <2>1, <2>2, Zenon DEF Renew
  <2>3. CASE ~loop_started'
    BY <1>4, <2>1, <2>3, Zenon DEF Renew
  <2> QED
    BY <2>2, <2>3
<1>5. CASE Joined
  BY <1>5 DEF Joined
<1>6. CASE MqttWorker
  BY <1>6 DEF MqttWorker, MqttEnds, OnConnect, OnMessage, OnDisconnect, CallbackPublishes,
              GetsMu, CallbackReturns, Leave, Cancelled
<1>7. CASE UNCHANGED mqttVars
  BY <1>7 DEF mqttVars
<1> QED
  BY <1>1, <1>2, <1>3, <1>4, <1>5, <1>6, <1>7 DEF MqttNext, MqttCaller

\* connect() and disconnect(), on every path and after every failure, keep the
\* handle for as long as the library's thread exists.
THEOREM ThreadKeepsHandle == MqttSpec => []ThreadHasHandle
<1>1. MqttInit => MqttInd
  BY DEF MqttInit, MqttInd, ThreadHasHandle
<1>2. MqttTypeOK /\ MqttInd /\ [MqttNext]_mqttVars => MqttInd'
  BY MqttIndStep
<1>3. MqttInd => ThreadHasHandle
  BY DEF MqttInd
<1> QED
  BY <1>1, <1>2, <1>3, MqttTypeCorrect, PTL DEF MqttSpec
=============================================================================
