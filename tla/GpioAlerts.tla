----------------------------- MODULE GpioAlerts -----------------------------
(***************************************************************************)
(* linux_gpio: the pins of the main thread (LinuxGPIOPin) and the thread   *)
(* that polls every edge-sensitive line (GPIOAlertThread).                 *)
(*                                                                         *)
(* Descriptors are numbers the kernel hands out lowest first and uses      *)
(* again after close(); that is what the alert thread's snapshot meets     *)
(* while it works without mu_.  An entry of entries_ is [fd, pin]: pin     *)
(* stands for the callback and its argument.  remove() and close() of the  *)
(* main thread are separate steps, so are the request of a line, the       *)
(* fcntl() that makes it non-blocking and add().                           *)
(***************************************************************************)
EXTENDS Integers, FiniteSets

CONSTANTS
  Pin,        \* the pins of one chip
  FdLimit,    \* descriptors are 1..FdLimit
  GpioOpsMax  \* bound: calls of the main thread in a behaviour

Fd == 1..FdLimit
NoFd == 0
NoPin == "no pin"

ASSUME GpioAssumption ==
  /\ Pin # {} /\ NoPin \notin Pin
  /\ FdLimit \in Nat /\ FdLimit >= Cardinality(Pin)
  /\ GpioOpsMax \in Nat

VARIABLES
  line_fd,      \* Pin -> the line's descriptor or NoFd (line_fd_)
  output_value, \* Pin -> last raw level asked for (output_value_)
  file,         \* kernel: Fd -> the open line request, or NoFile
  driven,       \* kernel: Pin -> level the line drives while it is an output
  refused,      \* history: pins whose last SET_VALUES failed, the line not
                \* configured since
  edge,         \* kernel: Pin -> an edge event waits in the line's FIFO
  call,         \* main thread: what is left of the call it is in
  gpio_ops,     \* calls made so far
  entries,      \* entries_, protected by mu_
  wake_pipe,    \* the self-pipe holds a byte
  alert,        \* alert thread: where run_() is
  snapshot,     \* run_()'s copy of entries_
  watched,      \* entries whose open file poll() waits on
  ready,        \* entries with POLLIN that are still to be read
  stuck_on,     \* the entry whose read() blocks, as a set
  closedSince,  \* history: descriptors of the snapshot closed by their pin
  called        \* history: the round's last callback and the line its event came from

mainVars == <<line_fd, output_value, call, gpio_ops>>
kernelVars == <<file, driven, refused, edge>>
alertVars == <<alert, snapshot, watched, ready, stuck_on, called>>
gpioVars == <<mainVars, kernelVars, entries, wake_pipe, alertVars, closedSince>>

NoFile == [pin |-> NoPin, mode |-> "closed", blocking |-> FALSE]
Idle == [op |-> "idle", pin |-> NoPin]
NoCall == [callee |-> NoPin, source |-> NoPin, fd |-> NoFd]
Entry == [fd : Fd, pin : Pin]

GpioInit ==
  /\ line_fd = [p \in Pin |-> NoFd]
  /\ output_value = [p \in Pin |-> FALSE]
  /\ file = [f \in Fd |-> NoFile]
  /\ driven = [p \in Pin |-> FALSE]
  /\ refused = {}
  /\ edge = [p \in Pin |-> FALSE]
  /\ call = Idle
  /\ gpio_ops = 0
  /\ entries = {}
  /\ wake_pipe = FALSE
  /\ alert = "snapshot"
  /\ snapshot = {} /\ watched = {} /\ ready = {} /\ stuck_on = {}
  /\ closedSince = {}
  /\ called = NoCall

(***************************************************************************)
(* The kernel side of GPIO_V2_GET_LINE, SET_CONFIG and close().            *)
(***************************************************************************)
FreeFds == {f \in Fd : file[f] = NoFile}

\* A line has one owner: the request fails while another descriptor holds it.
Requestable(p) == FreeFds # {} /\ \A f \in Fd : file[f].pin # p

\* Mutant: the configuration carries no output value.
LevelLeftOut(p, mode) == FALSE

\* apply_line_config_(): an output is configured with the level it must drive.
Level(p, mode) == IF mode = "out" THEN output_value[p] ELSE FALSE

Request(p, mode) ==
  \E f \in FreeFds :
    /\ \A g \in FreeFds : f <= g
    /\ file' = [file EXCEPT ![f] = [pin |-> p, mode |-> mode, blocking |-> TRUE]]
    /\ line_fd' = [line_fd EXCEPT ![p] = f]
    /\ driven' = [driven EXCEPT ![p] = Level(p, mode)]
    /\ refused' = refused \ {p}

\* Mutant: line_fd_ keeps the number of the closed descriptor.
CloseKeepsNumber(p) ==
  /\ file' = [file EXCEPT ![line_fd[p]] = NoFile]
  /\ edge' = [edge EXCEPT ![p] = FALSE]
  /\ watched' = {e \in watched : e.fd # line_fd[p]}
  /\ closedSince' = closedSince \cup {line_fd[p]}
  /\ UNCHANGED line_fd

Close(p) ==
  /\ file' = [file EXCEPT ![line_fd[p]] = NoFile]
  /\ edge' = [edge EXCEPT ![p] = FALSE]
  /\ watched' = {e \in watched : e.fd # line_fd[p]}
  /\ closedSince' = closedSince \cup {line_fd[p]}
  /\ line_fd' = [line_fd EXCEPT ![p] = NoFd]

-----------------------------------------------------------------------------
(***************************************************************************)
(* The main thread.  A call that touches the alert thread takes several    *)
(* steps; "call" says which is next.                                       *)
(***************************************************************************)
Begin(op, p) ==
  /\ call = Idle
  /\ gpio_ops < GpioOpsMax
  /\ gpio_ops' = gpio_ops + 1
  /\ call' = [op |-> op, pin |-> p]

\* setup(), pin_mode() and claim_line_(): SET_CONFIG in place, or, when that
\* fails or there is no claim yet, close and request anew.
Reconfigure(p, mode) ==
  /\ line_fd[p] # NoFd
  /\ call = Idle /\ gpio_ops < GpioOpsMax /\ gpio_ops' = gpio_ops + 1
  /\ file' = [file EXCEPT ![line_fd[p]].mode = mode]
  /\ driven' = [driven EXCEPT ![p] = Level(p, mode)]
  /\ refused' = refused \ {p}
  /\ edge' = [edge EXCEPT ![p] = FALSE]
  /\ UNCHANGED <<line_fd, output_value, call, entries, wake_pipe, alertVars, closedSince>>

ReconfigureFails(p, mode) ==
  /\ line_fd[p] # NoFd
  /\ Begin(mode, p)
  /\ Close(p)
  /\ UNCHANGED <<output_value, driven, refused, entries, wake_pipe, alert, snapshot, ready, stuck_on, called>>

FirstClaim(p, mode) ==
  /\ line_fd[p] = NoFd
  /\ Begin(mode, p)
  /\ UNCHANGED <<line_fd, output_value, kernelVars, entries, wake_pipe, alertVars, closedSince>>

claim_line(p, mode) ==
  \/ Reconfigure(p, mode)
  \/ ReconfigureFails(p, mode)
  \/ FirstClaim(p, mode)

\* The GET_LINE of claim_line_(): granted, or refused and line_fd_ stays -1.
ClaimRequest ==
  /\ call.op \in {"in", "out"}
  /\ call' = Idle
  /\ \/ Requestable(call.pin) /\ Request(call.pin, call.op)
     \/ UNCHANGED <<file, line_fd, driven, refused>>
  /\ UNCHANGED <<output_value, gpio_ops, edge, entries, wake_pipe, alertVars, closedSince>>

\* digital_write(): remembered whenever the line is claimed.  SET_VALUES reaches
\* an output only, and may fail there too: that is logged and nothing else.
digital_write(p, level) ==
  /\ call = Idle /\ line_fd[p] # NoFd
  /\ gpio_ops < GpioOpsMax /\ gpio_ops' = gpio_ops + 1
  /\ output_value' = [output_value EXCEPT ![p] = level]
  /\ \/ /\ file[line_fd[p]].mode = "out"
        /\ driven' = [driven EXCEPT ![p] = level]
        /\ refused' = refused \ {p}
     \/ /\ refused' = refused \cup {p}
        /\ UNCHANGED driven
  /\ UNCHANGED <<line_fd, file, edge, call, entries, wake_pipe, alertVars, closedSince>>

\* attach_interrupt() and detach_interrupt(): the first steps are the same.
BeginAttach(p) ==
  /\ Begin(IF line_fd[p] # NoFd THEN "attach" ELSE "request", p)
  /\ UNCHANGED <<line_fd, output_value, kernelVars, entries, wake_pipe, alertVars, closedSince>>

BeginDetach(p) ==
  /\ line_fd[p] # NoFd
  /\ Begin("detach", p)
  /\ UNCHANGED <<line_fd, output_value, kernelVars, entries, wake_pipe, alertVars, closedSince>>

\* GPIOAlertThread::remove(): entries under mu_, then the wake byte.
AlertRemove ==
  /\ call.op \in {"attach", "detach"}
  /\ entries' = {e \in entries : e.fd # line_fd[call.pin]}
  /\ wake_pipe' = TRUE
  /\ call' = [call EXCEPT !.op = IF @ = "attach" THEN "reopen" ELSE "close"]
  /\ UNCHANGED <<line_fd, output_value, gpio_ops, kernelVars, alertVars, closedSince>>

AlertClose ==
  /\ call.op \in {"reopen", "close"}
  /\ Close(call.pin)
  /\ call' = IF call.op = "reopen" THEN [call EXCEPT !.op = "request"] ELSE Idle
  /\ UNCHANGED <<output_value, gpio_ops, driven, refused, entries, wake_pipe, alert, snapshot, ready, stuck_on, called>>

\* The edge request of attach_interrupt(), refused or granted.
EdgeRequest ==
  /\ call.op = "request"
  /\ \/ /\ Requestable(call.pin)
        /\ Request(call.pin, "edge")
        /\ call' = [call EXCEPT !.op = "nonblock"]
     \/ /\ call' = Idle
        /\ UNCHANGED <<file, line_fd, driven, refused>>
  /\ UNCHANGED <<output_value, gpio_ops, edge, entries, wake_pipe, alertVars, closedSince>>

\* Mutant: the descriptor stays in blocking mode.
SetNonblockLeftOut ==
  /\ call.op = "nonblock"
  /\ call' = [call EXCEPT !.op = "add"]
  /\ UNCHANGED <<line_fd, output_value, gpio_ops, kernelVars, entries, wake_pipe, alertVars, closedSince>>

SetNonblock ==
  /\ call.op = "nonblock"
  /\ file' = [file EXCEPT ![line_fd[call.pin]].blocking = FALSE]
  /\ call' = [call EXCEPT !.op = "add"]
  /\ UNCHANGED <<line_fd, output_value, gpio_ops, driven, refused, edge, entries, wake_pipe, alertVars, closedSince>>

\* Mutant: add() does not wake the poll.
AlertAddQuietly ==
  /\ call.op = "add"
  /\ entries' = entries \cup {[fd |-> line_fd[call.pin], pin |-> call.pin]}
  /\ call' = Idle
  /\ UNCHANGED <<line_fd, output_value, gpio_ops, kernelVars, wake_pipe, alertVars, closedSince>>

\* GPIOAlertThread::add(): entries under mu_, then the wake byte.
AlertAdd ==
  /\ call.op = "add"
  /\ entries' = entries \cup {[fd |-> line_fd[call.pin], pin |-> call.pin]}
  /\ wake_pipe' = TRUE
  /\ call' = Idle
  /\ UNCHANGED <<line_fd, output_value, gpio_ops, kernelVars, alertVars, closedSince>>

MainContinues ==
  ClaimRequest \/ AlertRemove \/ AlertClose \/ EdgeRequest \/ SetNonblock \/ AlertAdd

GpioMain ==
  \/ \E p \in Pin, mode \in {"in", "out"} : claim_line(p, mode)
  \/ \E p \in Pin, level \in BOOLEAN : digital_write(p, level)
  \/ \E p \in Pin : BeginAttach(p) \/ BeginDetach(p)
  \/ MainContinues

-----------------------------------------------------------------------------
\* The kernel queues an edge of a line that is requested for edges.
Edge(p) ==
  /\ ~edge[p]
  /\ \E f \in Fd : file[f].pin = p /\ file[f].mode = "edge"
  /\ edge' = [edge EXCEPT ![p] = TRUE]
  /\ UNCHANGED <<mainVars, file, driven, refused, entries, wake_pipe, alertVars, closedSince>>

(***************************************************************************)
(* The alert thread: run_().                                               *)
(***************************************************************************)
\* entries_ keeps a line that claim_line_() closed: there is no remove() there.
Abandoned == {e.fd : e \in {x \in entries : line_fd[x.pin] # x.fd}}

TakeSnapshot ==
  /\ alert = "snapshot"
  /\ snapshot' = entries
  /\ closedSince' = Abandoned
  /\ called' = NoCall
  /\ alert' = "enter"
  /\ UNCHANGED <<mainVars, kernelVars, entries, wake_pipe, watched, ready, stuck_on>>

\* poll() looks up every descriptor once; a closed one makes it return at once.
PollEnter ==
  /\ alert = "enter"
  /\ watched' = {e \in snapshot : file[e.fd] # NoFile}
  /\ alert' = IF \E e \in snapshot : file[e.fd] = NoFile THEN "return" ELSE "poll"
  /\ UNCHANGED <<mainVars, kernelVars, entries, wake_pipe, snapshot, ready, stuck_on, closedSince, called>>

HasEvent(e) == file[e.fd].mode = "edge" /\ edge[file[e.fd].pin]

\* poll() returns; one read() empties the wake pipe.
PollReturn ==
  /\ \/ alert = "return"
     \/ alert = "poll" /\ (wake_pipe \/ \E e \in watched : HasEvent(e))
  /\ ready' = {e \in watched : HasEvent(e)}
  /\ wake_pipe' = FALSE
  /\ alert' = "serve"
  /\ UNCHANGED <<mainVars, kernelVars, entries, snapshot, watched, stuck_on, closedSince, called>>

\* poll() fails with something other than EINTR: run_() ends.
PollFails ==
  /\ alert = "poll"
  /\ alert' = "ended"
  /\ UNCHANGED <<mainVars, kernelVars, entries, wake_pipe, snapshot, watched, ready, stuck_on, closedSince, called>>

\* read() of a ready entry: of whatever its descriptor number means by now.  A
\* request that is not (yet) non-blocking and has no event holds the thread.
ReadEvent(e) ==
  /\ alert = "serve" /\ e \in ready /\ stuck_on \subseteq {e}
  /\ HasEvent(e)
  /\ edge' = [edge EXCEPT ![file[e.fd].pin] = FALSE]
  /\ called' = [callee |-> e.pin, source |-> file[e.fd].pin, fd |-> e.fd]
  /\ ready' = ready \ {e}
  /\ stuck_on' = {}
  /\ UNCHANGED <<mainVars, file, driven, refused, entries, wake_pipe, alert, snapshot, watched, closedSince>>

ReadNothing(e) ==
  /\ alert = "serve" /\ e \in ready /\ stuck_on = {}
  /\ ~HasEvent(e)
  /\ IF file[e.fd].blocking
       THEN stuck_on' = {e} /\ ready' = ready
       ELSE stuck_on' = {} /\ ready' = ready \ {e}
  /\ UNCHANGED <<mainVars, kernelVars, entries, wake_pipe, alert, snapshot, watched, closedSince, called>>

EndRound ==
  /\ alert = "serve" /\ ready = {}
  /\ alert' = "snapshot"
  /\ watched' = {}
  /\ UNCHANGED <<mainVars, kernelVars, entries, wake_pipe, snapshot, ready, stuck_on, closedSince, called>>

RunStep == TakeSnapshot \/ PollEnter \/ PollReturn \/ EndRound
           \/ \E e \in ready : ReadEvent(e) \/ ReadNothing(e)

GpioNext == GpioMain \/ (\E p \in Pin : Edge(p)) \/ RunStep \/ PollFails

GpioSpec == GpioInit /\ [][GpioNext]_gpioVars

\* A thread that can run does: the poll thread and a started call of the main
\* thread.  Calls, edges and poll failures are free to happen or not.
GpioFairness == WF_gpioVars(RunStep) /\ WF_gpioVars(MainContinues)
GpioFairSpec == GpioSpec /\ GpioFairness

-----------------------------------------------------------------------------
(***************************************************************************)
(* Properties.                                                             *)
(***************************************************************************)
GpioTypeOK ==
  /\ line_fd \in [Pin -> Fd \cup {NoFd}]
  /\ output_value \in [Pin -> BOOLEAN]
  /\ file \in [Fd -> [pin : Pin \cup {NoPin}, blocking : BOOLEAN,
                      mode : {"closed", "in", "out", "edge"}]]
  /\ driven \in [Pin -> BOOLEAN] /\ refused \subseteq Pin /\ edge \in [Pin -> BOOLEAN]
  /\ call \in [op : {"idle", "in", "out", "attach", "detach", "reopen", "close",
                     "request", "nonblock", "add"}, pin : Pin \cup {NoPin}]
  /\ gpio_ops \in 0..GpioOpsMax
  /\ entries \subseteq Entry /\ snapshot \subseteq Entry
  /\ watched \subseteq Entry /\ ready \subseteq Entry /\ stuck_on \subseteq Entry
  /\ wake_pipe \in BOOLEAN
  /\ alert \in {"snapshot", "enter", "poll", "return", "serve", "ended"}
  /\ closedSince \subseteq Fd
  /\ called \in [callee : Pin \cup {NoPin}, source : Pin \cup {NoPin}, fd : Fd \cup {NoFd}]

\* A pin's line_fd_ names its own open request and nothing else does: no path
\* of claim_line_(), attach_interrupt() or detach_interrupt() leaks a claim or
\* leaves line_fd_ at a closed descriptor.
ClaimsMatch ==
  /\ \A p \in Pin : line_fd[p] # NoFd => file[line_fd[p]].pin = p
  /\ \A f \in Fd : file[f] # NoFile => line_fd[file[f].pin] = f

\* An output drives the level digital_write() last asked for, through every
\* reconfiguration and re-request of the line (apply_line_config_()).  The one
\* exception is a SET_VALUES that failed: digital_write() keeps the level it
\* could not set, and the line shows it from its next configuration on.
OutputHeld ==
  \A p \in Pin \ refused :
    line_fd[p] # NoFd /\ file[line_fd[p]].mode = "out" => driven[p] = output_value[p]

\* The alert thread calls the callback of another pin than the one whose edge
\* it read, or blocks in read(), only for a descriptor that was closed since it
\* took its snapshot, or that claim_line_() closed without a remove().
StaleRoundOnly ==
  /\ called.callee # called.source => called.fd \in closedSince
  /\ \A e \in stuck_on : e.fd \in closedSince

\* The poll thread is out of action: run_() ended or its read() blocks.
Out == alert = "ended" \/ stuck_on # {}

Registered(p) == \E e \in entries : e.pin = p /\ e.fd = line_fd[p]

\* Every edge of a registered pin is read out of the kernel: add() wakes a poll
\* that does not know the line yet.
EdgeIsRead ==
  \A p \in Pin : Registered(p) /\ edge[p] ~> ~edge[p] \/ ~Registered(p) \/ Out
=============================================================================
