-------------------------- MODULE WebServer_proofs --------------------------
(***************************************************************************)
(* Proofs about WebServer: the ownership of sockets and sessions, for any  *)
(* number of connections and entities.                                     *)
(***************************************************************************)
EXTENDS WebServer, SequenceTheorems, TLAPS

-----------------------------------------------------------------------------
(***************************************************************************)
(* The inductive invariant says, for every place a connection's thread may *)
(* be at, who owns the socket, whether the answer is out, and that the     *)
(* main loop knows nothing of a session before it is published; and what   *)
(* of the main loop's own sets is empty between its steps.                 *)
(***************************************************************************)
Early == {"none", "parse", "dispatch", "handler", "publish"}   \* not published

ThreadInv(c) ==
  /\ Len(answers[c]) <= 1
  /\ thread[c] \in {"none", "parse", "dispatch"} => answers[c] = <<>>
  /\ thread[c] \in {"handler", "publish", "greet", "wake", "done"} => Len(answers[c]) = 1
  /\ thread[c] = "finish" /\ fd[c] # "request" => Len(answers[c]) = 1
  /\ thread[c] = "none" => fd[c] = "none"
  /\ thread[c] \in {"parse", "dispatch", "handler"} => fd[c] = "request"
  /\ thread[c] \in {"publish", "greet", "wake", "done"} => fd[c] # "request"
  /\ fd[c] = "session" => thread[c] = "publish" \/ c \in sessions
  /\ closes[c] = IF thread[c] # "none" /\ fd[c] = "none" THEN 1 ELSE 0
  /\ thread[c] \in Early => c \notin sessions \cup dead \cup freed

LoopInv ==
  /\ HeldIsAlive
  /\ main # "visit" => visiting = {}
  /\ main # "free" => dead = {}

ThreadType ==
  /\ thread \in [Conn -> {"none", "parse", "dispatch", "handler", "publish", "greet", "wake",
                          "finish", "done"}]
  /\ answers \in [Conn -> Seq({"200", "204", "400", "404", "stream"})]
  /\ closes \in [Conn -> Nat] /\ fd \in [Conn -> {"none", "request", "session"}]
  /\ sessions \subseteq Conn /\ visiting \subseteq Conn

WebInv == ThreadType /\ LoopInv /\ \A c \in Conn : ThreadInv(c)

\* Nothing happens to connection c.
SameFor(c) ==
  /\ thread'[c] = thread[c] /\ answers'[c] = answers[c]
  /\ closes'[c] = closes[c] /\ fd'[c] = fd[c]

SameSessions == UNCHANGED <<sessions, dead, freed>>

LEMMA Untouched ==
  ASSUME NEW c \in Conn, ThreadInv(c), SameFor(c),
         c \in sessions' <=> c \in sessions,
         c \in dead' \cup freed' <=> c \in dead \cup freed
  PROVE  ThreadInv(c)'
BY DEF ThreadInv, SameFor

\* The socket of a stream is closed, whoever finds out that it must be.
LEMMA StreamClosed ==
  ASSUME ThreadType, NEW c \in Conn, ThreadInv(c), SameSessions,
         thread'[c] = thread[c], answers'[c] = answers[c],
         fd[c] = "session", fd'[c] = "none", closes'[c] = closes[c] + 1
  PROVE  ThreadInv(c)'
<1>1. thread[c] # "none" /\ thread[c] \notin {"parse", "dispatch", "handler"}
  BY DEF ThreadInv
<1>2. closes'[c] = 1
  BY DEF ThreadInv
<1>3. thread[c] = "finish" => Len(answers[c]) = 1
  BY DEF ThreadInv
<1> QED
  BY <1>1, <1>2, <1>3 DEF ThreadInv, SameSessions

\* The main loop's sets, while the sessions stay as they are.
LEMMA LoopKept ==
  ASSUME LoopInv, UNCHANGED <<sessions, main, visiting, dead, freed>>
  PROVE  LoopInv'
BY DEF LoopInv, HeldIsAlive

LEMMA AnswerFacts ==
  ASSUME ThreadType, NEW c \in Conn, NEW s \in {"200", "204", "400", "404", "stream"}
  PROVE  /\ Answer(c, s) =>
              /\ answers' \in [Conn -> Seq({"200", "204", "400", "404", "stream"})]
              /\ Len(answers'[c]) = Len(answers[c]) + 1
              /\ \A d \in Conn \ {c} : answers'[d] = answers[d]
         /\ SendResponse(c, s) /\ Len(answers[c]) <= 1 =>
              /\ answers' \in [Conn -> Seq({"200", "204", "400", "404", "stream"})]
              /\ Len(answers'[c]) = 1
              /\ \A d \in Conn \ {c} : answers'[d] = answers[d]
<1> DEFINE S == {"200", "204", "400", "404", "stream"}
<1>1. answers \in [Conn -> Seq(S)] /\ answers[c] \in Seq(S) /\ Len(answers[c]) \in Nat
  BY DEF ThreadType
<1>2. Append(answers[c], s) \in Seq(S) /\ Len(Append(answers[c], s)) = Len(answers[c]) + 1
  BY <1>1
<1>3. ASSUME Answer(c, s)
      PROVE  /\ answers' \in [Conn -> Seq(S)]
             /\ Len(answers'[c]) = Len(answers[c]) + 1
             /\ \A d \in Conn \ {c} : answers'[d] = answers[d]
  BY <1>1, <1>2, <1>3 DEF Answer
<1>4. ASSUME SendResponse(c, s), Len(answers[c]) <= 1
      PROVE  /\ answers' \in [Conn -> Seq(S)]
             /\ Len(answers'[c]) = 1
             /\ \A d \in Conn \ {c} : answers'[d] = answers[d]
  <2>1. CASE answers[c] = <<>>
    BY <1>3, <1>4, <2>1 DEF SendResponse
  <2>2. CASE answers[c] # <<>>
    <3>1. Len(answers[c]) = 1
      <4>1. Len(answers[c]) # 0
        BY <1>1, <2>2, EmptySeq
      <4>2. ASSUME NEW n \in Nat, n # 0, n <= 1 PROVE n = 1
        BY <4>2
      <4>3. Len(answers[c]) \in Nat /\ Len(answers[c]) <= 1
        BY <1>1, <1>4
      <4> QED
        BY <4>1, <4>2, <4>3
    <3> QED
      BY <1>1, <1>4, <2>2, <3>1 DEF SendResponse
  <2> QED
    BY <2>1, <2>2
<1> QED
  BY <1>3, <1>4

LEMMA CloseFacts ==
  ASSUME ThreadType, NEW c \in Conn, CloseSocket(c)
  PROVE  /\ closes' \in [Conn -> Nat] /\ fd' \in [Conn -> {"none", "request", "session"}]
         /\ closes'[c] = closes[c] + 1 /\ fd'[c] = "none"
         /\ \A d \in Conn \ {c} : closes'[d] = closes[d] /\ fd'[d] = fd[d]
BY DEF ThreadType, CloseSocket

\* A step of connection c: the others are not touched.
LEMMA ConnectionStep ==
  ASSUME WebInv, NEW c \in Conn, ThreadType', LoopInv', ThreadInv(c)',
         \A d \in Conn \ {c} : SameFor(d), UNCHANGED <<dead, freed>>,
         \A d \in Conn \ {c} : d \in sessions' <=> d \in sessions
  PROVE  WebInv'
<1>1. ASSUME NEW d \in Conn \ {c} PROVE ThreadInv(d)'
  BY <1>1, Untouched DEF WebInv
<1> QED
  BY <1>1 DEF WebInv

-----------------------------------------------------------------------------
(* Connection threads.                                                     *)

LEMMA ThreadWeb ==
  ASSUME WebInv, NEW c \in Conn, Accept(c) \/ Parse(c) \/ ConnStep(c)
  PROVE  WebInv'
<1> USE DEF threadVars, streamVars, loopVars
<1>1. ThreadType /\ LoopInv /\ ThreadInv(c)
  BY DEF WebInv
<1>2. /\ thread \in [Conn -> {"none", "parse", "dispatch", "handler", "publish", "greet", "wake",
                              "finish", "done"}]
      /\ answers[c] \in Seq({"200", "204", "400", "404", "stream"}) /\ Len(answers[c]) \in Nat
      /\ closes[c] \in Nat /\ fd[c] \in {"none", "request", "session"}
  BY <1>1 DEF ThreadType
<1>3. CASE Accept(c)
  <2>1. /\ thread' = [thread EXCEPT ![c] = "parse"] /\ fd' = [fd EXCEPT ![c] = "request"]
        /\ UNCHANGED <<answers, closes, sessions, main, visiting, dead, freed>>
        /\ thread[c] = "none"
    BY <1>3 DEF Accept
  <2>2. thread'[c] = "parse" /\ fd'[c] = "request"
    BY <1>1, <2>1 DEF ThreadType
  <2>3. ThreadType' /\ \A d \in Conn \ {c} : SameFor(d)
    BY <1>1, <2>1 DEF ThreadType, SameFor
  <2>4. ThreadInv(c)'
    BY <1>1, <2>1, <2>2 DEF ThreadInv, Early
  <2> QED
    BY <1>1, <2>1, <2>3, <2>4, LoopKept, ConnectionStep
<1>4. CASE ParseFails(c)
  <2>1. /\ thread' = [thread EXCEPT ![c] = "done"]
        /\ UNCHANGED <<sessions, main, visiting, dead, freed>> /\ thread[c] = "parse"
        /\ Answer(c, "400") /\ CloseSocket(c)
    BY <1>4 DEF ParseFails
  <2>2. /\ thread'[c] = "done" /\ Len(answers'[c]) = 1 /\ closes'[c] = 1 /\ fd'[c] = "none"
    <3>1. Len(answers[c]) = 0 /\ closes[c] = 0
      BY <1>1, <1>2, <2>1 DEF ThreadInv
    <3>2. Len(answers'[c]) = Len(answers[c]) + 1
      BY <1>1, <2>1, AnswerFacts
    <3>3. closes'[c] = closes[c] + 1 /\ fd'[c] = "none"
      BY <1>1, <2>1, CloseFacts
    <3> QED
      BY <1>2, <2>1, <3>1, <3>2, <3>3
  <2>3. ThreadType' /\ \A d \in Conn \ {c} : SameFor(d)
    BY <1>1, <1>2, <2>1, AnswerFacts, CloseFacts DEF ThreadType, SameFor
  <2>4. ThreadInv(c)'
    BY <1>1, <2>1, <2>2 DEF ThreadInv, Early
  <2> QED
    BY <1>1, <2>1, <2>3, <2>4, LoopKept, ConnectionStep
<1>5. ASSUME NEW what \in Handler, ParseRequest(c, what) PROVE WebInv'
  <2>1. /\ thread' = [thread EXCEPT ![c] = "dispatch"] /\ thread[c] = "parse"
        /\ UNCHANGED <<answers, closes, fd, sessions, main, visiting, dead, freed>>
    BY <1>5 DEF ParseRequest
  <2>2. thread'[c] = "dispatch"
    BY <1>2, <2>1
  <2>3. ThreadType' /\ \A d \in Conn \ {c} : SameFor(d)
    BY <1>1, <2>1 DEF ThreadType, SameFor
  <2>4. ThreadInv(c)'
    BY <1>1, <2>1, <2>2 DEF ThreadInv, Early
  <2> QED
    BY <1>1, <2>1, <2>3, <2>4, LoopKept, ConnectionStep
<1>6. CASE NotFound(c) \/ HandlerSends(c)
  <2>1. /\ thread[c] \in {"dispatch", "handler"} /\ \E s \in {"404", "200"} : SendResponse(c, s)
        /\ \E t \in {"handler", "finish"} : thread' = [thread EXCEPT ![c] = t]
        /\ UNCHANGED <<closes, fd, sessions, main, visiting, dead, freed>>
    BY <1>6 DEF NotFound, HandlerSends
  <2>2. /\ thread'[c] \in {"handler", "finish"} /\ Len(answers'[c]) = 1
    BY <1>1, <1>2, <2>1, AnswerFacts DEF ThreadInv
  <2>3. ThreadType' /\ \A d \in Conn \ {c} : SameFor(d)
    <3>1. Len(answers[c]) <= 1
      BY <1>1 DEF ThreadInv
    <3>2. /\ answers' \in [Conn -> Seq({"200", "204", "400", "404", "stream"})]
          /\ \A d \in Conn \ {c} : answers'[d] = answers[d]
      BY <1>1, <2>1, <3>1, AnswerFacts
    <3> QED
      BY <1>1, <2>1, <3>2 DEF ThreadType, SameFor
  <2>4. fd[c] = "request" /\ closes[c] = 0
    BY <1>1, <2>1 DEF ThreadInv
  <2>5. ThreadInv(c)'
    BY <1>1, <2>1, <2>2, <2>4 DEF ThreadInv, Early
  <2> QED
    BY <1>1, <2>1, <2>3, <2>5, LoopKept, ConnectionStep
<1>7. CASE HandlerReturns(c)
  <2>1. /\ thread' = [thread EXCEPT ![c] = "finish"] /\ thread[c] \in {"dispatch", "handler"}
        /\ UNCHANGED <<answers, closes, fd, sessions, main, visiting, dead, freed>>
    BY <1>7 DEF HandlerReturns
  <2>2. thread'[c] = "finish" /\ fd[c] = "request"
    BY <1>1, <1>2, <2>1 DEF ThreadInv
  <2>3. ThreadType' /\ \A d \in Conn \ {c} : SameFor(d)
    BY <1>1, <2>1 DEF ThreadType, SameFor
  <2>4. ThreadInv(c)'
    BY <1>1, <2>1, <2>2 DEF ThreadInv, Early
  <2> QED
    BY <1>1, <2>1, <2>3, <2>4, LoopKept, ConnectionStep
<1>8. CASE Finish(c)
  <2>1. /\ thread' = [thread EXCEPT ![c] = "done"] /\ thread[c] = "finish" /\ fd[c] = "request"
        /\ UNCHANGED <<sessions, main, visiting, dead, freed>>
        /\ SendResponse(c, "204") /\ CloseSocket(c) /\ Len(answers[c]) <= 1 /\ closes[c] = 0
    BY <1>1, <1>8 DEF Finish, ThreadInv
  <2>2. /\ thread'[c] = "done" /\ Len(answers'[c]) = 1 /\ closes'[c] = 1 /\ fd'[c] = "none"
    BY <1>1, <1>2, <2>1, AnswerFacts, CloseFacts
  <2>3. ThreadType' /\ \A d \in Conn \ {c} : SameFor(d)
    BY <1>1, <1>2, <2>1, AnswerFacts, CloseFacts DEF ThreadType, SameFor
  <2>4. ThreadInv(c)'
    BY <1>1, <2>1, <2>2 DEF ThreadInv, Early
  <2> QED
    BY <1>1, <2>1, <2>3, <2>4, LoopKept, ConnectionStep
<1>9. CASE HandOff(c)
  <2>1. /\ thread' = [thread EXCEPT ![c] = "done"] /\ thread[c] = "finish" /\ fd[c] # "request"
        /\ UNCHANGED <<answers, closes, fd, sessions, main, visiting, dead, freed>>
    BY <1>9 DEF HandOff
  <2>2. thread'[c] = "done"
    BY <1>2, <2>1
  <2>3. ThreadType' /\ \A d \in Conn \ {c} : SameFor(d)
    BY <1>1, <2>1 DEF ThreadType, SameFor
  <2>4. ThreadInv(c)'
    BY <1>1, <2>1, <2>2 DEF ThreadInv, Early
  <2> QED
    BY <1>1, <2>1, <2>3, <2>4, LoopKept, ConnectionStep
<1>10. CASE NewSession(c)
  <2>1. /\ thread' = [thread EXCEPT ![c] = "publish"] /\ thread[c] = "dispatch"
        /\ UNCHANGED <<sessions, main, visiting, dead, freed>> /\ Answer(c, "stream")
        /\ \/ fd' = [fd EXCEPT ![c] = "session"] /\ UNCHANGED closes
           \/ CloseSocket(c)
    BY <1>10 DEF NewSession
  <2>2. Len(answers[c]) = 0 /\ closes[c] = 0
    BY <1>1, <1>2, <2>1 DEF ThreadInv
  <2>3. /\ thread'[c] = "publish" /\ Len(answers'[c]) = 1
        /\ \/ fd'[c] = "session" /\ closes'[c] = 0
           \/ fd'[c] = "none" /\ closes'[c] = 1
    <3>1. thread'[c] = "publish" /\ Len(answers'[c]) = 1
      <4>1. Len(answers'[c]) = Len(answers[c]) + 1
        BY <1>1, <2>1, AnswerFacts
      <4> QED
        BY <1>2, <2>1, <2>2, <4>1
    <3>2. CASE CloseSocket(c)
      BY <1>1, <2>2, <3>1, <3>2, CloseFacts
    <3>3. CASE fd' = [fd EXCEPT ![c] = "session"] /\ UNCHANGED closes
      BY <1>1, <2>2, <3>1, <3>3 DEF ThreadType
    <3> QED
      BY <2>1, <3>2, <3>3
  <2>4. ThreadType' /\ \A d \in Conn \ {c} : SameFor(d)
    <3>1. /\ answers' \in [Conn -> Seq({"200", "204", "400", "404", "stream"})]
          /\ \A d \in Conn \ {c} : answers'[d] = answers[d]
      BY <1>1, <2>1, AnswerFacts
    <3>2. /\ closes' \in [Conn -> Nat] /\ fd' \in [Conn -> {"none", "request", "session"}]
          /\ \A d \in Conn \ {c} : closes'[d] = closes[d] /\ fd'[d] = fd[d]
      BY <1>1, <2>1, CloseFacts DEF ThreadType
    <3> QED
      BY <1>1, <2>1, <3>1, <3>2 DEF ThreadType, SameFor
  <2>5. ThreadInv(c)'
    BY <1>1, <2>1, <2>3 DEF ThreadInv, Early
  <2> QED
    BY <1>1, <2>1, <2>4, <2>5, LoopKept, ConnectionStep
<1>11. CASE Publish(c)
  <2>1. /\ thread' = [thread EXCEPT ![c] = "greet"] /\ thread[c] = "publish"
        /\ sessions' = sessions \cup {c}
        /\ UNCHANGED <<answers, closes, fd, main, visiting, dead, freed>>
    BY <1>11 DEF Publish
  <2>2. thread'[c] = "greet" /\ c \notin sessions \cup dead \cup freed
    BY <1>1, <1>2, <2>1 DEF ThreadInv, Early
  <2>3. ThreadType' /\ \A d \in Conn \ {c} : SameFor(d)
    BY <1>1, <2>1 DEF ThreadType, SameFor
  <2>4. ThreadInv(c)'
    BY <1>1, <2>1, <2>2 DEF ThreadInv, Early
  <2>5. LoopInv'
    BY <1>1, <2>1, <2>2 DEF LoopInv, HeldIsAlive
  <2> QED
    BY <2>1, <2>3, <2>4, <2>5, ConnectionStep
<1>12. CASE Greet(c) \/ WakeLoop(c)
  <2>1. /\ thread[c] \in {"greet", "wake"}
        /\ \E t \in {"wake", "finish"} : thread' = [thread EXCEPT ![c] = t]
        /\ UNCHANGED <<answers, sessions, main, visiting, dead, freed>>
        /\ \/ UNCHANGED <<fd, closes>>
           \/ fd[c] = "session" /\ CloseSocket(c)
    BY <1>12 DEF Greet, SendRaw, WakeLoop
  <2>2. thread'[c] \in {"wake", "finish"}
    BY <1>2, <2>1
  <2>3. /\ Len(answers[c]) = 1 /\ fd[c] # "request"
        /\ fd[c] = "session" => c \in sessions /\ closes[c] = 0
    BY <1>1, <2>1 DEF ThreadInv
  <2>4. /\ closes' \in [Conn -> Nat] /\ fd' \in [Conn -> {"none", "request", "session"}]
        /\ \A d \in Conn \ {c} : closes'[d] = closes[d] /\ fd'[d] = fd[d]
    BY <1>1, <2>1, CloseFacts DEF ThreadType
  <2>5. ThreadType' /\ \A d \in Conn \ {c} : SameFor(d)
    <3>1. PICK t \in {"wake", "finish"} : thread' = [thread EXCEPT ![c] = t]
      BY <2>1
    <3> QED
      BY <1>1, <2>1, <2>4, <3>1 DEF ThreadType, SameFor
  <2>6. \/ fd'[c] = fd[c] /\ closes'[c] = closes[c]
        \/ fd'[c] = "none" /\ closes'[c] = 1
    <3>1. ASSUME fd[c] = "session", CloseSocket(c) PROVE fd'[c] = "none" /\ closes'[c] = 1
      BY <1>1, <2>3, <3>1, CloseFacts
    <3> QED
      BY <2>1, <3>1
  <2>7. ThreadInv(c)'
    BY <1>1, <2>1, <2>2, <2>3, <2>6 DEF ThreadInv, Early
  <2> QED
    BY <1>1, <2>1, <2>5, <2>7, LoopKept, ConnectionStep
<1> QED
  BY <1>3, <1>4, <1>5, <1>6, <1>7, <1>8, <1>9, <1>10, <1>11, <1>12 DEF Parse, ConnStep

-----------------------------------------------------------------------------
(* The main loop.                                                          *)

LEMMA PingWeb == WebInv /\ Ping => WebInv'
<1> SUFFICES ASSUME WebInv, Ping PROVE WebInv'
  OBVIOUS
<1> USE DEF threadVars, streamVars, loopVars
<1>1. ThreadType /\ LoopInv /\ \A c \in Conn : ThreadInv(c)
  BY DEF WebInv
<1>2. UNCHANGED <<thread, answers, sessions, main, visiting, dead, freed>>
  BY DEF Ping
<1>3. PICK gone \in SUBSET {c \in sessions : fd[c] = "session" /\ CanFail(c)} :
        /\ fd' = [c \in Conn |-> IF c \in gone THEN "none" ELSE fd[c]]
        /\ closes' = [c \in Conn |-> IF c \in gone THEN closes[c] + 1 ELSE closes[c]]
  BY DEF Ping
<1>4. ThreadType'
  BY <1>1, <1>2, <1>3 DEF ThreadType
<1>5. ASSUME NEW c \in Conn PROVE ThreadInv(c)'
  <2>1. CASE c \in gone
    BY <1>1, <1>2, <1>3, <2>1, StreamClosed DEF SameSessions
  <2>2. CASE c \notin gone
    BY <1>1, <1>2, <1>3, <2>2, Untouched DEF SameFor
  <2> QED
    BY <2>1, <2>2
<1> QED
  BY <1>1, <1>2, <1>4, <1>5, LoopKept DEF WebInv

LEMMA ServeWeb == ASSUME WebInv, NEW c \in Conn, Serve(c) PROVE WebInv'
<1> USE DEF threadVars, streamVars, loopVars
<1>1. ThreadType /\ LoopInv /\ \A d \in Conn : ThreadInv(d)
  BY DEF WebInv
<1>2. /\ UNCHANGED <<thread, answers, sessions, main, dead, freed>> /\ main = "visit"
      /\ visiting' = visiting \ {c} /\ fd[c] = "session"
      /\ CloseSocket(c) \/ UNCHANGED <<fd, closes>>
  BY DEF Serve
<1>3. LoopInv'
  BY <1>1, <1>2 DEF LoopInv, HeldIsAlive
<1>4. CASE UNCHANGED <<fd, closes>>
  <2>1. ThreadType'
    BY <1>1, <1>2, <1>4 DEF ThreadType
  <2> QED
    BY <1>1, <1>2, <1>3, <1>4, <2>1, Untouched DEF SameFor, WebInv
<1>5. CASE CloseSocket(c)
  <2>1. ThreadType' /\ \A d \in Conn \ {c} : SameFor(d)
    BY <1>1, <1>2, <1>5, CloseFacts DEF ThreadType, SameFor
  <2>2. ThreadInv(c)'
    BY <1>1, <1>2, <1>5, CloseFacts, StreamClosed DEF SameSessions
  <2> QED
    BY <1>2, <1>3, <2>1, <2>2, ConnectionStep
<1> QED
  BY <1>2, <1>4, <1>5

\* The sessions that are collected are those whose socket is closed; they are
\* deleted before anything else happens on this thread.
LEMMA CollectWeb == WebInv /\ (Collect \/ Delete) => WebInv'
<1> SUFFICES ASSUME WebInv, Collect \/ Delete PROVE WebInv'
  OBVIOUS
<1> USE DEF threadVars, streamVars, loopVars
<1>1. ThreadType /\ LoopInv /\ \A c \in Conn : ThreadInv(c)
  BY DEF WebInv
<1>2. UNCHANGED <<thread, answers, fd, closes, visiting>>
  BY DEF Collect, Delete
<1>3. CASE Collect
  <2>1. /\ dead' = {c \in sessions : fd[c] # "session"} /\ main = "visit" /\ main' = "free"
        /\ sessions' = {c \in sessions : fd[c] = "session"} /\ freed' = freed /\ visiting = {}
    BY <1>3 DEF Collect
  <2>2. dead = {}
    BY <1>1, <2>1 DEF LoopInv
  <2>3. LoopInv'
    BY <1>1, <1>2, <2>1 DEF LoopInv, HeldIsAlive
  <2>4. ThreadType'
    BY <1>1, <1>2, <2>1 DEF ThreadType
  <2>5. ASSUME NEW c \in Conn PROVE ThreadInv(c)'
    BY <1>1, <1>2, <2>1, <2>2, <2>5 DEF ThreadInv
  <2> QED
    BY <2>3, <2>4, <2>5 DEF WebInv
<1>4. CASE Delete
  <2>1. /\ freed' = freed \cup dead /\ dead' = {} /\ sessions' = sessions
        /\ main = "free" /\ main' # "visit"
    BY <1>4 DEF Delete
  <2>2. LoopInv'
    BY <1>1, <1>2, <2>1 DEF LoopInv, HeldIsAlive
  <2>3. ThreadType'
    BY <1>1, <1>2, <2>1 DEF ThreadType
  <2>4. ASSUME NEW c \in Conn PROVE ThreadInv(c)'
    BY <1>1, <1>2, <2>1, Untouched DEF SameFor
  <2> QED
    BY <2>2, <2>3, <2>4 DEF WebInv
<1> QED
  BY <1>3, <1>4

LEMMA NextWeb == WebInv /\ [WebNext]_webVars => WebInv'
<1> SUFFICES ASSUME WebInv, [WebNext]_webVars PROVE WebInv'
  OBVIOUS
<1> USE DEF threadVars, streamVars, loopVars
<1>1. ThreadType /\ LoopInv /\ \A c \in Conn : ThreadInv(c)
  BY DEF WebInv
<1>2. ASSUME UNCHANGED <<thread, answers, closes, fd, sessions, dead, freed>>,
             visiting' \subseteq Conn, LoopInv'
      PROVE  WebInv'
  <2>1. ThreadType'
    BY <1>1, <1>2 DEF ThreadType
  <2>2. \A c \in Conn : ThreadInv(c)'
    BY <1>1, <1>2, Untouched DEF SameFor
  <2> QED
    BY <1>2, <2>1, <2>2 DEF WebInv
<1>3. visiting \subseteq Conn /\ sessions \subseteq Conn
  BY <1>1 DEF ThreadType
<1>4. CASE \/ begin \/ (\E h \in Handler : addHandler(h)) \/ (\E c \in Conn : PeerGoes(c))
           \/ (\E e \in Entity : StateChanges(e)) \/ EnableLoop \/ UNCHANGED webVars
  <2>1. UNCHANGED <<thread, answers, closes, fd, sessions, main, visiting, dead, freed>>
    BY <1>4 DEF begin, addHandler, PeerGoes, StateChanges, EnableLoop, webVars
  <2> QED
    BY <1>1, <1>2, <1>3, <2>1, LoopKept
<1>5. CASE LoopBegins
  <2>1. LoopInv'
    BY <1>1, <1>5 DEF LoopBegins, LoopInv, HeldIsAlive
  <2> QED
    BY <1>2, <1>3, <1>5, <2>1 DEF LoopBegins
<1>6. CASE \E c \in Conn : SkipClosed(c)
  <2>1. LoopInv'
    BY <1>1, <1>6 DEF SkipClosed, LoopInv, HeldIsAlive
  <2> QED
    BY <1>2, <1>3, <1>6, <2>1 DEF SkipClosed
<1>7. CASE DisableLoop
  <2>1. LoopInv'
    BY <1>1, <1>7 DEF DisableLoop, LoopInv, HeldIsAlive
  <2> QED
    BY <1>2, <1>3, <1>7, <2>1 DEF DisableLoop
<1> QED
  BY <1>4, <1>5, <1>6, <1>7, ThreadWeb, PingWeb, ServeWeb, CollectWeb DEF WebNext, LoopStep

LEMMA InitWeb == WebInit => WebInv
<1> SUFFICES ASSUME WebInit PROVE WebInv
  OBVIOUS
<1>1. ThreadType
  BY DEF WebInit, ThreadType
<1>2. LoopInv
  BY DEF WebInit, LoopInv, HeldIsAlive
<1>3. ASSUME NEW c \in Conn PROVE ThreadInv(c)
  <2>1. /\ thread[c] = "none" /\ answers[c] = <<>> /\ closes[c] = 0 /\ fd[c] = "none"
        /\ sessions = {} /\ dead = {} /\ freed = {}
    BY DEF WebInit
  <2> QED
    BY <2>1 DEF ThreadInv
<1> QED
  BY <1>1, <1>2, <1>3 DEF WebInv

(***************************************************************************)
(* handle_connection_() and the event source together answer every request *)
(* once and close every socket once, for any number of connections and     *)
(* wherever a send fails.                                                  *)
(***************************************************************************)
THEOREM WebOneAnswerOneClose == WebSpec => []OneAnswerOneClose
<1>1. WebInv => OneAnswerOneClose
  <2> SUFFICES ASSUME WebInv, NEW c \in Conn
               PROVE  /\ Len(answers[c]) <= 1
                      /\ thread[c] = "done" => Len(answers[c]) = 1
                      /\ closes[c] <= 1
                      /\ thread[c] # "none" => (closes[c] = 0 <=> fd[c] # "none")
                      /\ thread[c] = "done" /\ fd[c] # "none" => c \in sessions
    BY DEF OneAnswerOneClose
  <2>1. ThreadInv(c) /\ fd[c] \in {"none", "request", "session"}
    BY DEF WebInv, ThreadType
  <2> QED
    BY <2>1 DEF ThreadInv
<1> QED
  BY <1>1, InitWeb, NextWeb, PTL DEF WebSpec

(***************************************************************************)
(* What AsyncEventSource::loop() holds is never a deleted session, however *)
(* many connection threads publish theirs in between.                      *)
(***************************************************************************)
THEOREM WebHeldIsAlive == WebSpec => []HeldIsAlive
<1>1. WebInv => HeldIsAlive
  BY DEF WebInv, LoopInv
<1> QED
  BY <1>1, InitWeb, NextWeb, PTL DEF WebSpec

-----------------------------------------------------------------------------
(***************************************************************************)
(* Why StateReachesStream cannot be starved by a loop that sleeps.         *)
(***************************************************************************)
Called(c) == loop_wake \/ thread[c] \in {"greet", "wake"}

\* A published session whose loop is switched off, or is about to be, has the
\* loop's wake-up pending, or its own thread is still to ask for it
\* (handleRequest() publishes first, loop() disables itself last).
NobodySleepsOnStream ==
  ~loop_on \/ main = "disable" => \A c \in sessions : Called(c)

LEMMA SleepStep ==
  ASSUME WebInv, NobodySleepsOnStream, [WebNext]_webVars
  PROVE  NobodySleepsOnStream'
<1> USE DEF threadVars, streamVars, loopVars
<1>1. thread \in [Conn -> {"none", "parse", "dispatch", "handler", "publish", "greet", "wake",
                           "finish", "done"}] /\ sessions \subseteq Conn
  BY DEF WebInv, ThreadType
\* Nothing but the thread of one connection moves.
<1>2. ASSUME NEW c \in Conn, NEW t, thread' = [thread EXCEPT ![c] = t],
             UNCHANGED <<main, loop_on>>, loop_wake => loop_wake',
             \A d \in sessions' : d # c => d \in sessions,
             c \in sessions' => loop_wake' \/ t \in {"greet", "wake"}
      PROVE  NobodySleepsOnStream'
  <2>1. \A d \in Conn : thread'[d] = IF d = c THEN t ELSE thread[d]
    BY <1>1, <1>2
  <2>2. \A d \in sessions' : d # c => (Called(d) => Called(d)')
    BY <1>1, <1>2, <2>1 DEF Called
  <2>3. c \in sessions' => Called(c)'
    BY <1>2, <2>1 DEF Called
  <2> QED
    BY <1>2, <2>2, <2>3 DEF NobodySleepsOnStream
<1>3. ASSUME NEW c \in Conn, c \notin sessions,
             Accept(c) \/ Parse(c) \/ NotFound(c) \/ HandlerSends(c) \/ HandlerReturns(c)
               \/ NewSession(c)
      PROVE  NobodySleepsOnStream'
  <2>1. /\ UNCHANGED <<main, loop_on, loop_wake, sessions>>
        /\ \E t : thread' = [thread EXCEPT ![c] = t]
    BY <1>3 DEF Accept, Parse, ParseFails, ParseRequest, NotFound, HandlerSends,
                HandlerReturns, NewSession
  <2> QED
    BY <1>2, <1>3, <2>1
<1>4. ASSUME NEW c \in Conn, Finish(c) \/ HandOff(c) PROVE NobodySleepsOnStream'
  <2>1. /\ UNCHANGED <<main, loop_on, loop_wake, sessions>>
        /\ thread[c] = "finish" /\ thread' = [thread EXCEPT ![c] = "done"]
    BY <1>4 DEF Finish, HandOff
  <2>2. \A d \in Conn : thread'[d] = IF d = c THEN "done" ELSE thread[d]
    BY <1>1, <2>1
  <2>3. \A d \in sessions : Called(d) => Called(d)'
    BY <1>1, <2>1, <2>2 DEF Called
  <2> QED
    BY <2>1, <2>3 DEF NobodySleepsOnStream
<1>5. ASSUME NEW c \in Conn, Publish(c) \/ Greet(c) \/ WakeLoop(c)
      PROVE  NobodySleepsOnStream'
  <2>1. CASE Publish(c)
    BY <1>2, <2>1 DEF Publish
  <2>2. CASE Greet(c)
    BY <1>2, <2>2 DEF Greet
  <2>3. CASE WakeLoop(c)
    BY <1>2, <2>3 DEF WakeLoop
  <2> QED
    BY <1>5, <2>1, <2>2, <2>3
<1>6. ASSUME NEW c \in Conn, Accept(c) \/ Parse(c) \/ ConnStep(c) PROVE NobodySleepsOnStream'
  <2>1. \/ Accept(c) \/ Parse(c) \/ NotFound(c) \/ HandlerSends(c) \/ HandlerReturns(c)
        \/ NewSession(c)
        => c \notin sessions
    BY DEF Accept, Parse, ParseFails, ParseRequest, NotFound, HandlerSends, HandlerReturns,
           NewSession, WebInv, ThreadInv, Early
  <2> QED
    BY <1>3, <1>4, <1>5, <1>6, <2>1 DEF ConnStep
<1>7. ASSUME thread' = thread, sessions' \subseteq sessions, loop_wake' = loop_wake,
             loop_on' = loop_on, main' = main \/ main' # "disable"
      PROVE  NobodySleepsOnStream'
  BY <1>7 DEF NobodySleepsOnStream, Called
<1>8. CASE \/ begin \/ (\E h \in Handler : addHandler(h)) \/ (\E c \in Conn : PeerGoes(c))
           \/ (\E e \in Entity : StateChanges(e)) \/ Ping \/ LoopBegins \/ Collect
           \/ (\E c \in Conn : Serve(c) \/ SkipClosed(c)) \/ UNCHANGED webVars
  <2>1. /\ thread' = thread /\ sessions' \subseteq sessions
        /\ UNCHANGED <<loop_wake, loop_on>> /\ (main' = main \/ main' # "disable")
    BY <1>8 DEF begin, addHandler, PeerGoes, StateChanges, Ping, LoopBegins, Collect, Serve,
                SkipClosed, webVars
  <2> QED
    BY <1>7, <2>1
<1>9. CASE Delete
  BY <1>9 DEF Delete, NobodySleepsOnStream, Called
<1>10. CASE DisableLoop
  BY <1>10 DEF DisableLoop, NobodySleepsOnStream, Called
<1>11. CASE EnableLoop
  BY <1>11 DEF EnableLoop, NobodySleepsOnStream, Called
<1> QED
  BY <1>6, <1>8, <1>9, <1>10, <1>11 DEF WebNext, LoopStep

(***************************************************************************)
(* The race of loop()'s disable_loop() with handleRequest() on another     *)
(* thread loses no session: the safety that StateReachesStream rests on.   *)
(***************************************************************************)
THEOREM WebNobodySleeps == WebSpec => []NobodySleepsOnStream
<1>1. WebInit => NobodySleepsOnStream
  BY DEF WebInit, NobodySleepsOnStream
<1> QED
  BY <1>1, SleepStep, InitWeb, NextWeb, PTL DEF WebSpec
=============================================================================
