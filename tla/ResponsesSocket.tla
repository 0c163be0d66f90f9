--------------------------- MODULE ResponsesSocket ---------------------------
(***************************************************************************)
(* The WebSocket transport of the OpenAI Responses provider: the session's *)
(* socket (providers/openai-responses/websocket.ts) and the retry loop of  *)
(* one request at a time over it (adapter.ts, streamWebSocket).            *)
(*                                                                         *)
(* A connection remembers the responses completed on it, and only there    *)
(* can a later message name one as its predecessor.  Promise reactions run *)
(* before the next event, so an event and all that follows from it is one  *)
(* step.  A message's number is its response's id.  A session that is      *)
(* closed under a running request leaves that request a session object     *)
(* nobody else finds (closeResponsesWebSocketSession).                     *)
(***************************************************************************)
EXTENDS Naturals, Sequences

CONSTANTS
  MaxRetries,     \* retries of an attempt before the HTTP downgrade
  MaxRequests, MaxDrops, MaxCloses, MaxRotations   \* bounds of the model

VARIABLES
  sockets,   \* the connections, in the order of their creation
  session,   \* the ResponsesWebSocketSession of the request, or of the next one
  orphan,    \* the request's session object is no longer in sessionSockets
  stream,    \* the logical request and its attempt
  answers,   \* history: <<message, response>> of every published generation
  strays,    \* history: connections left open by a session object nobody finds
  sent, used

vars == <<sockets, session, orphan, stream, answers, strays, sent, used>>

NewSocket == [state |-> "connecting", asked |-> {}, made |-> {}]
NewSession == [current |-> 0, pending |-> 0, last |-> 0, prewarm |-> TRUE, armed |-> 0,
               unavailable |-> FALSE]
NoStream == [stage |-> "none", frontier |-> 0, native |-> FALSE, retry |-> 0, phase |-> "generate",
             follows |-> 0, message |-> 0, on |-> 0]

Init ==
  /\ sockets = <<>> /\ session = NewSession /\ orphan = FALSE /\ stream = NoStream
  /\ answers = {} /\ strays = {}
  /\ sent = 0 /\ used = [requests |-> 0, drops |-> 0, closes |-> 0, rotations |-> 0]

Spend(bound) == used' = [used EXCEPT ![bound] = @ + 1]
At(stages) == stream.stage \in stages
Open(s) == s # 0 /\ sockets[s].state = "open"
Generated == {pair[2] : pair \in answers}

-----------------------------------------------------------------------------
\* The session object.

\* close, resetConnection: both sockets, the listeners and the chain.
Reset(sess) == [NewSession EXCEPT !.unavailable = sess.unavailable]
ClosedBy(socks, sess) ==
  [s \in DOMAIN socks |->
    IF s \in {sess.current, sess.pending} THEN [socks[s] EXCEPT !.state = "closed"] ELSE socks[s]]
ClearContinuation(sess) == [sess EXCEPT !.last = 0, !.prewarm = TRUE]

\* markCompleted: the chain lives on an open connection only.
MarkCompleted(sess, id) ==
  IF ~Open(sess.current) THEN ClearContinuation(sess)
  ELSE [sess EXCEPT !.last = id, !.prewarm = FALSE, !.armed = sess.current]

\* The end of a request.  A session object out of the map is forgotten, with
\* whatever connection it still has.
Ended(sess, socks, out) ==
  /\ stream' = NoStream /\ orphan' = FALSE
  /\ sockets' = socks
  /\ session' = IF out THEN NewSession ELSE sess
  /\ strays' = IF out THEN strays \cup ({sess.current, sess.pending} \ {0}) ELSE strays

-----------------------------------------------------------------------------
\* Attempts.

\* An attempt fails: request's catch and the adapter's reset the connection; then
\* a portable replay of a native checkpoint, a retry after a delay, the HTTP
\* downgrade, or the error.
FailsKeepingConnection(sess, socks, kind, out) ==   \* mutant
  /\ sockets' = socks /\ session' = sess /\ orphan' = out /\ UNCHANGED strays
  /\ stream' = IF stream.retry = MaxRetries THEN [stream EXCEPT !.stage = "http"]
                ELSE [stream EXCEPT !.stage = "backoff", !.retry = @ + 1]
Fails(sess, socks, kind, out) ==
  LET portable == kind = "terminal" /\ stream.native
      exhausted == stream.retry >= MaxRetries
      reset == Reset(sess)
  IN  IF kind = "terminal" /\ ~portable THEN Ended(reset, ClosedBy(socks, sess), out)
      ELSE /\ sockets' = ClosedBy(socks, sess)
           /\ session' = IF exhausted THEN [reset EXCEPT !.unavailable = TRUE] ELSE reset
           /\ orphan' = out /\ UNCHANGED strays
           /\ stream' = [NoStream EXCEPT
                !.frontier = stream.frontier, !.native = stream.native /\ ~portable,
                !.retry = IF exhausted THEN stream.retry ELSE stream.retry + 1,
                !.stage = IF exhausted THEN "http" ELSE IF portable THEN "begin" ELSE "backoff"]

\* request after connect: the chain is checked again and the message sent; the
\* send itself can throw.
Sends(sess, socks, str) ==
  /\ sent' = sent + 1
  /\ session' = [sess EXCEPT !.armed = 0]
  /\ sockets' = [socks EXCEPT ![sess.current].asked = @ \cup {sent'}]
  /\ stream' = [str EXCEPT !.stage = "receiving", !.message = sent', !.on = sess.current]
  /\ UNCHANGED <<orphan, strays>>
Dispatch(sess, socks, str) ==
  \/ (str.follows = 0 \/ sess.last = str.follows) /\ Sends(sess, socks, str)
  \/ Fails(sess, socks, "retryable", orphan) /\ UNCHANGED sent

\* request up to connect: an aged connection is dropped, an open one used.
Request(sess, socks, str) ==
  IF sess.current # 0 /\ socks[sess.current].state = "open" THEN Dispatch(sess, socks, str)
  ELSE /\ sockets' = Append(socks, NewSocket)
       /\ session' = [sess EXCEPT !.pending = Len(sockets')]
       /\ stream' = [str EXCEPT !.stage = "connecting"]
       /\ UNCHANGED <<orphan, strays, sent>>

StartRequest ==
  /\ At({"none"}) /\ used.requests < MaxRequests /\ Spend("requests")
  /\ \E frontier \in {0} \cup Generated, native \in BOOLEAN :
       stream' = [NoStream EXCEPT !.stage = IF session.unavailable THEN "http" ELSE "begin",
                                  !.frontier = frontier, !.native = native]
  /\ UNCHANGED <<sockets, session, orphan, answers, strays, sent>>

\* The top of the loop: continue the chain of the request's newest assistant
\* message, or begin one with a prewarm of the full history.
Begin ==
  /\ At({"begin"})
  /\ LET continues == session.last # 0 /\ session.last = stream.frontier
         sess == IF session.last # 0 /\ ~continues THEN ClearContinuation(session) ELSE session
         str == [stream EXCEPT !.follows = IF continues THEN session.last ELSE 0,
                               !.phase = IF ~continues /\ sess.prewarm THEN "prewarm" ELSE "generate"]
     IN  \/ Request(sess, sockets, str) /\ UNCHANGED used
         \/ /\ sess.current # 0 /\ used.rotations < MaxRotations /\ Spend("rotations")
            /\ Request(Reset(sess), ClosedBy(sockets, sess), str)
  /\ UNCHANGED answers

\* abortableDelay's timer
Retry ==
  /\ At({"backoff"})
  /\ stream' = [stream EXCEPT !.stage = "begin"]
  /\ UNCHANGED <<sockets, session, orphan, answers, strays, sent, used>>

Opened ==
  /\ At({"connecting"})
  /\ LET s == session.pending
     IN  Dispatch([session EXCEPT !.current = s, !.pending = 0],
                  [sockets EXCEPT ![s].state = "open"], stream)
  /\ UNCHANGED <<answers, used>>

\* error, close or timeout before the connection is open
ConnectFailsUntimed ==   \* mutant: no timer, only the network ends it
  /\ At({"connecting"}) /\ used.drops < MaxDrops /\ Spend("drops")
  /\ Fails(session, sockets, "retryable", orphan)
  /\ UNCHANGED <<answers, sent>>
ConnectFails ==
  /\ At({"connecting"})
  /\ Fails(session, sockets, "retryable", orphan)
  /\ UNCHANGED <<answers, sent, used>>

\* The terminal event of a message.  The generation after a prewarm goes out on
\* the same turn of the event loop.
Completed(m) ==
  LET sess == MarkCompleted(session, m)
  IN  IF stream.phase = "prewarm"
      THEN /\ Request(sess, [sockets EXCEPT ![stream.on].made = @ \cup {m}, ![stream.on].asked = @ \ {m}],
                      [stream EXCEPT !.phase = "generate", !.follows = m])
           /\ UNCHANGED answers
      ELSE /\ answers' = answers \cup {<<stream.message, m>>}
           /\ Ended(sess, [sockets EXCEPT ![stream.on].made = @ \cup {m}, ![stream.on].asked = @ \ {m}], orphan)
           /\ UNCHANGED sent

\* Only the connection that completed the predecessor knows it.
Known == stream.follows = 0 \/ stream.follows \in sockets[stream.on].made
Terminal ==
  /\ At({"receiving"})
  /\ \E m \in sockets[stream.on].asked :
       \/ Known /\ Completed(m)
       \/ \E kind \in {"retryable", "terminal"} : Known /\ Fails(session, sockets, kind, orphan) /\ UNCHANGED <<answers, sent>>
       \/ ~Known /\ Fails(session, sockets, "retryable", orphan) /\ UNCHANGED <<answers, sent>>
  /\ UNCHANGED used

ReceiveTimesOut ==
  /\ At({"receiving"})
  /\ Fails(session, sockets, "retryable", orphan)
  /\ UNCHANGED <<answers, sent, used>>

\* The connection stops being open; its close event comes later.
Drop(s) ==
  /\ sockets[s].state = "open" /\ used.drops < MaxDrops /\ Spend("drops")
  /\ sockets' = [sockets EXCEPT ![s].state = "closing"]
  /\ UNCHANGED <<session, orphan, stream, answers, strays, sent>>

CloseEvent(s) ==
  /\ sockets[s].state = "closing"
  /\ LET closed == [sockets EXCEPT ![s].state = "closed"]
     IN  IF At({"receiving"}) /\ stream.on = s THEN Fails(session, closed, "retryable", orphan)
         ELSE /\ sockets' = closed
              /\ session' = IF session.armed # s THEN session
                            ELSE IF session.current = s
                            THEN [ClearContinuation(session) EXCEPT !.current = 0, !.armed = 0]
                            ELSE [session EXCEPT !.armed = 0]
              /\ UNCHANGED <<orphan, stream, strays>>
  /\ UNCHANGED <<answers, sent, used>>

\* The user's Escape, at any await: the connection goes with the request.
Cancel ==
  /\ At({"connecting", "receiving", "backoff", "http"})
  /\ IF At({"backoff", "http"}) THEN Ended(session, sockets, orphan)
     ELSE Ended(Reset(session), ClosedBy(sockets, session), orphan)
  /\ UNCHANGED <<answers, sent, used>>

HttpEnds ==
  /\ At({"http"})
  /\ Ended(session, sockets, orphan)
  /\ UNCHANGED <<answers, sent, used>>

\* A change of model or session closes the active one and takes it from the map;
\* with a host's delivery it can come under a running request.
CloseSession ==
  /\ used.closes < MaxCloses /\ Spend("closes")
  /\ ~orphan
  /\ \/ /\ At({"none"})
        /\ session' = NewSession /\ sockets' = ClosedBy(sockets, session)
        /\ UNCHANGED <<orphan, stream, strays>>
     \/ /\ At({"begin", "backoff", "http"})
        /\ session' = Reset(session) /\ sockets' = ClosedBy(sockets, session)
        /\ orphan' = TRUE /\ UNCHANGED <<stream, strays>>
     \/ At({"connecting"}) /\ Fails(session, sockets, "retryable", TRUE)
     \/ At({"receiving"}) /\ Fails(session, sockets, "terminal", TRUE)
  /\ UNCHANGED <<answers, sent>>

\* commitCompact: an installed native compaction begins a new chain.
CommitCompact ==
  /\ At({"none"}) /\ session.last # 0
  /\ session' = ClearContinuation(session)
  /\ UNCHANGED <<sockets, orphan, stream, answers, strays, sent, used>>

Next ==
  \/ StartRequest \/ Begin \/ Retry \/ Opened \/ ConnectFails \/ Terminal \/ ReceiveTimesOut
  \/ \E s \in DOMAIN sockets : Drop(s) \/ CloseEvent(s)
  \/ Cancel \/ HttpEnds \/ CloseSession \/ CommitCompact

\* The loop runs and its timers fire; no server, network or user is relied on.
Fairness ==
  /\ WF_vars(Begin) /\ WF_vars(Retry)
  /\ WF_vars(ConnectFails) /\ WF_vars(ReceiveTimesOut)

Spec == Init /\ [][Next]_vars /\ Fairness

-----------------------------------------------------------------------------
\* Types, and who holds the connections: each that is not closed is the session's
\* own, or was left by a session object that was closed under its request.
TypeOK ==
  /\ stream.stage \in {"none", "begin", "connecting", "receiving", "backoff", "http"}
  /\ stream.retry \in 0..MaxRetries
  /\ At({"connecting"}) <=> session.pending # 0
  /\ At({"receiving"}) => session.current = stream.on
  /\ \A s \in DOMAIN sockets :
       sockets[s].state \in {"connecting", "open"} => s \in {session.current, session.pending} \cup strays
  /\ session.last # 0 => ~session.prewarm

\* An exchange stays on its connection, through retries, rotation, late answers
\* and closed connections: a message names as its predecessor only a response
\* that its own connection completed (unless that one's close event is still on
\* its way, which the server then answers with previous_response_not_found), and
\* what a request publishes answers the message of the attempt that ends it.
ExchangesIsolated ==
  [][/\ sent' # sent /\ stream'.follows # 0 =>
          \/ stream'.follows \in sockets'[stream'.on].made
          \/ \E s \in DOMAIN sockets : /\ stream'.follows \in sockets[s].made
                                       /\ sockets[s].state = "closing"
     /\ \A pair \in answers' : pair[1] = pair[2]]_vars

\* A silent server, lost connections and closed sessions never hold a request: it
\* ends, or is handed to HTTP.
RequestSettles == ~At({"none", "http"}) ~> At({"none", "http"})
=============================================================================
