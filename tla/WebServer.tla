------------------------------ MODULE WebServer ------------------------------
(***************************************************************************)
(* web_server_base: the HTTP server (one detached thread per connection)   *)
(* and the server-sent event source that the main loop serves.             *)
(*                                                                         *)
(* A connection c is its socket, its thread and, when its request is for   *)
(* the event stream, its AsyncEventSourceResponse.  Payloads are left out: *)
(* an answer is its status, an event is the entity it tells about and the  *)
(* generator that will render it.                                          *)
(***************************************************************************)
EXTENDS Integers, Sequences, FiniteSets, SequencesExt

CONSTANTS
  Conn,      \* connections of a behaviour
  Entity,    \* entities whose state is told
  TickMax,   \* entities the iterator visits in one pass (16)
  ValueMax   \* bound: changes of an entity's state

ASSUME WebAssumption ==
  /\ IsFiniteSet(Conn) /\ IsFiniteSet(Entity)
  /\ TickMax \in Nat \ {0} /\ ValueMax \in Nat

Handler == {"events", "page"}
Generator == {"all", "state"}       \* ListEntitiesIterator, and a state update
Key == Entity \X Generator          \* DeferredEvent: source_ and generator
Unknown == -1

VARIABLES
  listening,  \* listen_fd_ >= 0 and the accept thread runs
  handlers,   \* handlers_ of the server
  thread,     \* Conn -> where its thread is
  request,    \* Conn -> what was asked for
  answers,    \* history: Conn -> statuses sent
  closes,     \* history: Conn -> times the socket was closed
  fd,         \* Conn -> who owns the open socket: "request", "session" or "none"
  peer,       \* Conn -> the client still reads
  sessions,   \* sessions_
  freed,      \* sessions deleted by the main loop
  queue,      \* Conn -> deferred_queue_
  iterating,  \* Conn -> entities its entities_iterator_ has still to visit
  value,      \* Entity -> its state
  shown,      \* Conn -> Entity -> state last sent
  main,       \* main loop: where AsyncEventSource::loop() is
  visiting,   \* loop()'s snapshot of sessions_, those still to be served
  dead,       \* sessions taken out of sessions_ and not deleted yet
  loop_on,    \* the web server component's loop is enabled
  loop_wake   \* enable_loop_soon_any_context() was called

threadVars == <<thread, request, answers, closes, fd>>
streamVars == <<sessions, queue, iterating, shown>>
loopVars == <<main, visiting, dead, freed>>
webVars == <<listening, handlers, threadVars, peer, streamVars, value, loopVars,
             loop_on, loop_wake>>

WebInit ==
  /\ listening = FALSE /\ handlers = {}
  /\ thread = [c \in Conn |-> "none"]
  /\ request = [c \in Conn |-> "none"]
  /\ answers = [c \in Conn |-> <<>>]
  /\ closes = [c \in Conn |-> 0]
  /\ fd = [c \in Conn |-> "none"]
  /\ peer = [c \in Conn |-> TRUE]
  /\ sessions = {} /\ freed = {}
  /\ queue = [c \in Conn |-> <<>>]
  /\ iterating = [c \in Conn |-> {}]
  /\ value = [e \in Entity |-> 0]
  /\ shown = [c \in Conn |-> [e \in Entity |-> Unknown]]
  /\ main = "idle" /\ visiting = {} /\ dead = {}
  /\ loop_on = TRUE /\ loop_wake = FALSE

-----------------------------------------------------------------------------
(***************************************************************************)
(* Server start: init() listens first and adds the handlers afterwards.    *)
(***************************************************************************)
begin ==
  /\ ~listening
  /\ listening' = TRUE
  /\ UNCHANGED <<handlers, threadVars, peer, streamVars, value, loopVars, loop_on, loop_wake>>

addHandler(h) ==
  /\ listening /\ h \notin handlers
  /\ handlers' = handlers \cup {h}
  /\ UNCHANGED <<listening, threadVars, peer, streamVars, value, loopVars, loop_on, loop_wake>>

\* accept_loop_(): a detached thread for the connection.
Accept(c) ==
  /\ listening /\ thread[c] = "none"
  /\ thread' = [thread EXCEPT ![c] = "parse"]
  /\ fd' = [fd EXCEPT ![c] = "request"]
  /\ UNCHANGED <<listening, handlers, request, answers, closes, peer, streamVars, value,
                 loopVars, loop_on, loop_wake>>

-----------------------------------------------------------------------------
(***************************************************************************)
(* The connection thread: handle_connection_() and dispatch_().            *)
(***************************************************************************)
Answer(c, s) == answers' = [answers EXCEPT ![c] = Append(@, s)]
CloseSocket(c) ==
  /\ closes' = [closes EXCEPT ![c] = @ + 1]
  /\ fd' = [fd EXCEPT ![c] = "none"]

ParseFails(c) ==
  /\ thread[c] = "parse"
  /\ Answer(c, "400") /\ CloseSocket(c)
  /\ thread' = [thread EXCEPT ![c] = "done"]
  /\ UNCHANGED <<listening, handlers, request, peer, streamVars, value, loopVars, loop_on, loop_wake>>

ParseRequest(c, what) ==
  /\ thread[c] = "parse"
  /\ request' = [request EXCEPT ![c] = what]
  /\ thread' = [thread EXCEPT ![c] = "dispatch"]
  /\ UNCHANGED <<listening, handlers, answers, closes, fd, peer, streamVars, value, loopVars,
                 loop_on, loop_wake>>

\* Mutant: a handler's second response is sent too.
SendResponseAgain(c, s) == Answer(c, s)

\* send_response_(): only the first response of a request is sent.
SendResponse(c, s) ==
  IF answers[c] = <<>> THEN Answer(c, s) ELSE UNCHANGED answers

\* No handler for the URL: on_not_found_ or the server itself says 404.
NotFound(c) ==
  /\ thread[c] = "dispatch" /\ request[c] \notin handlers
  /\ SendResponse(c, "404")
  /\ thread' = [thread EXCEPT ![c] = "finish"]
  /\ UNCHANGED <<listening, handlers, request, closes, fd, peer, streamVars, value, loopVars,
                 loop_on, loop_wake>>

\* A page handler that sends a response; Handle stays for a further one.
HandlerSends(c) ==
  /\ thread[c] \in {"dispatch", "handler"} /\ request[c] = "page" /\ "page" \in handlers
  /\ SendResponse(c, "200")
  /\ thread' = [thread EXCEPT ![c] = IF @ = "dispatch" THEN "handler" ELSE "finish"]
  /\ UNCHANGED <<listening, handlers, request, closes, fd, peer, streamVars, value, loopVars,
                 loop_on, loop_wake>>

HandlerReturns(c) ==
  /\ thread[c] \in {"dispatch", "handler"} /\ request[c] = "page" /\ "page" \in handlers
  /\ thread' = [thread EXCEPT ![c] = "finish"]
  /\ UNCHANGED <<listening, handlers, request, answers, closes, fd, peer, streamVars, value,
                 loopVars, loop_on, loop_wake>>

\* The end of handle_connection_(): 204 if nothing was sent, then the request's
\* destructor closes the socket.
Finish(c) ==
  /\ thread[c] = "finish" /\ fd[c] = "request"
  /\ SendResponse(c, "204")
  /\ CloseSocket(c)
  /\ thread' = [thread EXCEPT ![c] = "done"]
  /\ UNCHANGED <<listening, handlers, request, peer, streamVars, value, loopVars, loop_on, loop_wake>>

\* The descriptor was taken for a stream: the thread just ends.
HandOff(c) ==
  /\ thread[c] = "finish" /\ fd[c] # "request"
  /\ thread' = [thread EXCEPT ![c] = "done"]
  /\ UNCHANGED <<listening, handlers, request, answers, closes, fd, peer, streamVars, value,
                 loopVars, loop_on, loop_wake>>

(***************************************************************************)
(* AsyncEventSource::handleRequest(), still on the connection thread.      *)
(***************************************************************************)
\* A send succeeds unless the client is gone; to a client that is gone it may
\* still seem to.
CanFail(c) == ~peer[c]

\* AsyncEventSourceResponse(): take_fd_(), the headers, the entity iterator.
NewSession(c) ==
  /\ thread[c] = "dispatch" /\ request[c] = "events" /\ "events" \in handlers
  /\ thread' = [thread EXCEPT ![c] = "publish"]
  /\ Answer(c, "stream")
  /\ \/ /\ fd' = [fd EXCEPT ![c] = "session"]
        /\ iterating' = [iterating EXCEPT ![c] = Entity]
        /\ UNCHANGED closes
     \/ /\ CanFail(c) /\ CloseSocket(c)
        /\ UNCHANGED iterating
  /\ UNCHANGED <<listening, handlers, request, peer, sessions, queue, shown, value, loopVars,
                 loop_on, loop_wake>>

Publish(c) ==
  /\ thread[c] = "publish"
  /\ sessions' = sessions \cup {c}
  /\ thread' = [thread EXCEPT ![c] = "greet"]
  /\ UNCHANGED <<listening, handlers, request, answers, closes, fd, peer, queue, iterating, shown,
                 value, loopVars, loop_on, loop_wake>>

\* send_raw_(): under fd_mu_, closes the socket when the send fails.
SendRaw(c) ==
  \/ UNCHANGED <<fd, closes>>
  \/ fd[c] = "session" /\ CanFail(c) /\ CloseSocket(c)

Greet(c) ==
  /\ thread[c] = "greet"
  /\ SendRaw(c)
  /\ thread' = [thread EXCEPT ![c] = "wake"]
  /\ UNCHANGED <<listening, handlers, request, answers, peer, streamVars, value, loopVars,
                 loop_on, loop_wake>>

\* Mutant: nobody enables the loop for the new session.
WakeLoopForgets(c) ==
  /\ thread[c] = "wake"
  /\ thread' = [thread EXCEPT ![c] = "finish"]
  /\ UNCHANGED <<listening, handlers, request, answers, closes, fd, peer, streamVars, value,
                 loopVars, loop_on, loop_wake>>

WakeLoop(c) ==
  /\ thread[c] = "wake"
  /\ loop_wake' = TRUE
  /\ thread' = [thread EXCEPT ![c] = "finish"]
  /\ UNCHANGED <<listening, handlers, request, answers, closes, fd, peer, streamVars, value,
                 loopVars, loop_on>>

Parse(c) == ParseFails(c) \/ \E what \in Handler : ParseRequest(c, what)

ConnStep(c) ==
  \/ NotFound(c) \/ HandlerSends(c) \/ HandlerReturns(c) \/ Finish(c) \/ HandOff(c)
  \/ NewSession(c) \/ Publish(c) \/ Greet(c) \/ WakeLoop(c)

PeerGoes(c) ==
  /\ peer[c] /\ thread[c] # "none"
  /\ peer' = [peer EXCEPT ![c] = FALSE]
  /\ UNCHANGED <<listening, handlers, threadVars, streamVars, value, loopVars, loop_on, loop_wake>>

-----------------------------------------------------------------------------
(***************************************************************************)
(* The main loop: state changes, AsyncEventSource::loop(), and the         *)
(* component's loop being enabled and disabled.                            *)
(***************************************************************************)
\* deq_push_back_with_dedup_() of each key, on the queue q.
PushDedup(q, keys) ==
  q \o SetToSeq({k \in keys : \A i \in DOMAIN q : q[i] # k})

\* deferrable_send_state() of the source: every published session.
Broadcast(keys) ==
  [c \in Conn |-> IF c \in sessions THEN PushDedup(queue[c], keys) ELSE queue[c]]

StateChanges(e) ==
  /\ main = "idle" /\ value[e] < ValueMax
  /\ value' = [value EXCEPT ![e] = @ + 1]
  /\ queue' = Broadcast({<<e, "state">>})
  /\ UNCHANGED <<listening, handlers, threadVars, peer, sessions, iterating, shown, loopVars,
                 loop_on, loop_wake>>

\* try_send_nodefer() of the source, a ping or a log line: a failed send closes.
Ping ==
  /\ main = "idle"
  /\ \E gone \in (SUBSET {c \in sessions : fd[c] = "session" /\ CanFail(c)}) \ {{}} :
       /\ fd' = [c \in Conn |-> IF c \in gone THEN "none" ELSE fd[c]]
       /\ closes' = [c \in Conn |-> IF c \in gone THEN closes[c] + 1 ELSE closes[c]]
  /\ UNCHANGED <<listening, handlers, thread, request, answers, peer, streamVars, value, loopVars,
                 loop_on, loop_wake>>

LoopBegins ==
  /\ main = "idle" /\ loop_on
  /\ main' = "visit" /\ visiting' = sessions
  /\ UNCHANGED <<listening, handlers, threadVars, peer, streamVars, value, dead, freed,
                 loop_on, loop_wake>>

\* process_buffer_(): the iterator's entities go to every session's queue.
\* process_deferred_queue_(): each message is rendered from the state of now and
\* taken off the queue once it is sent.
Serve(c) ==
  /\ main = "visit" /\ c \in visiting /\ fd[c] = "session"
  /\ \E batch \in SUBSET iterating[c] :
       /\ Cardinality(batch) = (IF Cardinality(iterating[c]) < TickMax
                                THEN Cardinality(iterating[c]) ELSE TickMax)
       /\ LET q == Broadcast(batch \X {"all"}) IN
          \E n \in 0..Len(q[c]) :
            /\ n < Len(q[c]) => CanFail(c)
            /\ IF n < Len(q[c]) THEN CloseSocket(c) ELSE UNCHANGED <<fd, closes>>
            /\ queue' = [q EXCEPT ![c] = SubSeq(@, n + 1, Len(@))]
            /\ shown' = [shown EXCEPT ![c] =
                 [e \in Entity |-> IF \E i \in 1..n : q[c][i][1] = e THEN value[e] ELSE @[e]]]
       /\ iterating' = [iterating EXCEPT ![c] = @ \ batch]
  /\ visiting' = visiting \ {c}
  /\ UNCHANGED <<listening, handlers, thread, request, answers, peer, sessions, value,
                 main, dead, freed, loop_on, loop_wake>>

SkipClosed(c) ==
  /\ main = "visit" /\ c \in visiting /\ fd[c] # "session"
  /\ visiting' = visiting \ {c}
  /\ UNCHANGED <<listening, handlers, threadVars, peer, streamVars, value, main, dead, freed,
                 loop_on, loop_wake>>

\* Mutant: the dead sessions are collected and left in sessions_.
CollectLeavesThem ==
  /\ main = "visit" /\ visiting = {}
  /\ dead' = {c \in sessions : fd[c] # "session"}
  /\ main' = "free"
  /\ UNCHANGED <<listening, handlers, threadVars, peer, streamVars, value, visiting, freed,
                 loop_on, loop_wake>>

\* Sessions with a closed descriptor leave sessions_ under the lock ...
Collect ==
  /\ main = "visit" /\ visiting = {}
  /\ dead' = {c \in sessions : fd[c] # "session"}
  /\ sessions' = {c \in sessions : fd[c] = "session"}
  /\ main' = "free"
  /\ UNCHANGED <<listening, handlers, threadVars, peer, queue, iterating, shown, value, visiting,
                 freed, loop_on, loop_wake>>

\* ... and are deleted after it; loop() then looks whether any is left.
Delete ==
  /\ main = "free"
  /\ freed' = freed \cup dead /\ dead' = {}
  /\ queue' = [c \in Conn |-> IF c \in dead THEN <<>> ELSE queue[c]]
  /\ iterating' = [c \in Conn |-> IF c \in dead THEN {} ELSE iterating[c]]
  /\ main' = IF sessions = {} THEN "disable" ELSE "idle"
  /\ UNCHANGED <<listening, handlers, threadVars, peer, sessions, shown, value, visiting,
                 loop_on, loop_wake>>

DisableLoop ==
  /\ main = "disable"
  /\ main' = "idle" /\ loop_on' = FALSE
  /\ UNCHANGED <<listening, handlers, threadVars, peer, streamVars, value, visiting, dead, freed,
                 loop_wake>>

\* The application enables the loops asked for since its last pass.
EnableLoop ==
  /\ main = "idle" /\ loop_wake
  /\ loop_on' = TRUE /\ loop_wake' = FALSE
  /\ UNCHANGED <<listening, handlers, threadVars, peer, streamVars, value, loopVars>>

LoopStep ==
  \/ LoopBegins \/ Collect \/ Delete \/ DisableLoop \/ EnableLoop
  \/ \E c \in Conn : Serve(c) \/ SkipClosed(c)

WebNext ==
  \/ begin \/ \E h \in Handler : addHandler(h)
  \/ \E c \in Conn : Accept(c) \/ Parse(c) \/ ConnStep(c) \/ PeerGoes(c)
  \/ \E e \in Entity : StateChanges(e)
  \/ Ping \/ LoopStep

WebSpec == WebInit /\ [][WebNext]_webVars

\* Threads run once their request is read (a client may never send one), and
\* the main loop goes round: a send to a client that does not read is taken to
\* return in the end.
WebFairness == (\A c \in Conn : WF_webVars(ConnStep(c))) /\ WF_webVars(LoopStep)
WebFairSpec == WebSpec /\ WebFairness

-----------------------------------------------------------------------------
(***************************************************************************)
(* Properties.                                                             *)
(***************************************************************************)
WebTypeOK ==
  /\ listening \in BOOLEAN /\ handlers \subseteq Handler
  /\ thread \in [Conn -> {"none", "parse", "dispatch", "handler", "publish", "greet", "wake",
                          "finish", "done"}]
  /\ request \in [Conn -> Handler \cup {"none"}]
  /\ answers \in [Conn -> Seq({"200", "204", "400", "404", "stream"})]
  /\ closes \in [Conn -> Nat] /\ fd \in [Conn -> {"none", "request", "session"}]
  /\ peer \in [Conn -> BOOLEAN]
  /\ sessions \subseteq Conn /\ freed \subseteq Conn
  /\ queue \in [Conn -> Seq(Key)] /\ iterating \in [Conn -> SUBSET Entity]
  /\ value \in [Entity -> 0..ValueMax]
  /\ shown \in [Conn -> [Entity -> Unknown..ValueMax]]
  /\ main \in {"idle", "visit", "free", "disable"}
  /\ visiting \subseteq Conn /\ dead \subseteq Conn
  /\ loop_on \in BOOLEAN /\ loop_wake \in BOOLEAN

\* Every request gets exactly one answer and every socket is closed exactly
\* once, by whoever owns it when it fails or ends: the thread that could not
\* parse, the request's destructor, or the event session.
OneAnswerOneClose ==
  \A c \in Conn :
    /\ Len(answers[c]) <= 1
    /\ thread[c] = "done" => Len(answers[c]) = 1
    /\ closes[c] <= 1
    /\ thread[c] # "none" => (closes[c] = 0 <=> fd[c] # "none")
    /\ thread[c] = "done" /\ fd[c] # "none" => c \in sessions

\* The main loop never serves, collects or deletes a session twice: what it
\* holds is not deleted, although connection threads publish at any time.
HeldIsAlive ==
  /\ (sessions \cup visiting \cup dead) \cap freed = {}
  /\ sessions \cap dead = {}
  /\ main = "visit" => visiting \subseteq sessions

\* A published stream is told every state, the states of before it connected
\* included: handleRequest() publishes before it wakes the loop, and loop()
\* goes to sleep only when sessions_ is empty.
StateReachesStream ==
  \A c \in Conn, e \in Entity :
    c \in sessions /\ shown[c][e] # value[e]
      ~> shown[c][e] = value[e] \/ fd[c] = "none"
=============================================================================
