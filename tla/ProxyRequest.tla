----------------------------- MODULE ProxyRequest -----------------------------
(***************************************************************************)
(* The request handler of src/proxy.mjs: what happens between the headers  *)
(* of a visitor's request and the end of its answer.                       *)
(*                                                                         *)
(* Every exchange joins four event sources that know nothing of one        *)
(* another: the visitor's connection, the body limiter, the upstream       *)
(* request with its timers, and the upstream response with the injection   *)
(* transform.  An action is one event with all its listeners run; the      *)
(* events of different sources may come in any order.                      *)
(*                                                                         *)
(* The network and Node's http module are external: they decide when a     *)
(* connection fails, when a body ends and when 'close' follows a destroy.  *)
(* Bytes are abstracted: a body is the upstream's own ("original") or one  *)
(* with items inserted ("transformed").                                    *)
(***************************************************************************)
EXTENDS Integers, FiniteSets

CONSTANT Requests   \* the exchanges

VARIABLES ex,       \* Requests -> the state of the exchange
          counters  \* the counters that /api/status reports

vars == <<ex, counters>>

ASSUME RequestsAssumption == IsFiniteSet(Requests)

\* conn       the visitor's connection
\* body       the request body as the limiter saw it
\* res        the response object; heads counts its writeHead calls
\* head, sent the head that was written, and the body that was handed over
\* upstream   the upstream request; "closing" after destroy, before 'close'
\* message    the upstream response as the parser saw it
\* filter     how the response travels: piped, or through InjectionTransform
\* timers     the armed timers; the idle timer lives with the open socket
\* completed, counted, interrupted   completed, requestFinished, responseInterrupted
ConnStates == {"none", "open", "gone"}
BodyStates == {"sending", "sent", "over"}
ResStates == {"open", "ended", "finished", "destroyed"}
HeadCounts == 0..2
Bodies == {"none", "original", "transformed"}
Heads == Bodies \cup {"refused", "failed"}
UpstreamStates == {"none", "connecting", "waiting", "responding", "closing", "closed"}
MessageStates == {"none", "flowing", "complete", "cut"}
Filters == {"none", "piped", "buffering", "passthrough", "flushed"}
TimerSets == SUBSET {"connect", "response"}

Exchange ==
    [conn : ConnStates, body : BodyStates, res : ResStates, heads : HeadCounts,
     head : Heads, sent : Bodies, upstream : UpstreamStates, message : MessageStates,
     filter : Filters, timers : TimerSets,
     completed : BOOLEAN, counted : BOOLEAN, interrupted : BOOLEAN]

NewExchange ==
    [conn |-> "none", body |-> "sending", res |-> "open", heads |-> 0,
     head |-> "none", sent |-> "none", upstream |-> "none", message |-> "none",
     filter |-> "none", timers |-> {}, completed |-> FALSE, counted |-> FALSE,
     interrupted |-> FALSE]

Zero == [activeRequests |-> 0, upstreamErrors |-> 0, interruptedResponses |-> 0,
         injectionApplied |-> 0, injectionSkipped |-> 0, injectionErrors |-> 0]

Init == ex = [q \in Requests |-> NewExchange] /\ counters = Zero

OpenUpstream == {"connecting", "waiting", "responding"}

-----------------------------------------------------------------------------
(* What the listeners share.                                               *)

Destroy(u) == IF u \in OpenUpstream THEN "closing" ELSE u

DestroyResponse(r) == IF r \in {"open", "ended"} THEN "destroyed" ELSE r

End(r) == IF r = "open" THEN "ended" ELSE r

\* writeHead under "if (!res.headersSent)"
HeadOnce(e, head) == IF e.heads = 0 THEN [e EXCEPT !.heads = 1, !.head = head] ELSE e

\* Fault (mutation only): res.headersSent is not consulted.
FailedBlindly(e) ==
    IF e.completed THEN e
    ELSE [e EXCEPT !.heads = @ + 1, !.head = "failed",
                   !.completed = TRUE, !.upstream = Destroy(@), !.res = End(@)]

\* fail: the first failure destroys the upstream request, then answers if
\* nothing was sent and cuts the connection otherwise.
Failed(e) ==
    IF e.completed THEN e
    ELSE [HeadOnce(e, "failed") EXCEPT
             !.completed = TRUE, !.upstream = Destroy(@),
             !.res = IF e.heads = 0 THEN End(@) ELSE DestroyResponse(@)]

\* Fault (mutation only): the error is counted before the guard.
FailureAlwaysCounts(e) == 1

FailureCount(e) == IF e.completed THEN 0 ELSE 1

\* Fault (mutation only): the visitor's connection is left open.
InterruptedQuietly(e) == [e EXCEPT !.message = "cut", !.interrupted = TRUE]

\* interruptResponse, the listener of 'aborted' and 'error' of the response
Interrupted(e) ==
    [e EXCEPT !.message = "cut", !.interrupted = TRUE, !.res = DestroyResponse(@)]

IsCut(e) == e.message = "flowing" /\ ~e.interrupted

\* 'close' of the upstream request; a response that is not complete is aborted.
Closed(e) ==
    [(IF IsCut(e) THEN Interrupted(e) ELSE e) EXCEPT
        !.upstream = "closed", !.completed = TRUE, !.timers = {}]

\* Fault (mutation only): only the flag is set.
AbortedFlagOnly(e) ==
    IF e.upstream # "none" /\ e.body # "sent" THEN [e EXCEPT !.completed = TRUE] ELSE e

\* 'aborted' of the visitor's request, which Node emits only while the request
\* itself is incomplete.
Aborted(e) ==
    IF e.upstream # "none" /\ e.body # "sent"
    THEN [e EXCEPT !.completed = TRUE, !.upstream = Destroy(@)]
    ELSE e

\* Fault (mutation only): both events count.
FinishCountsAgain(e) == 1

\* finishRequest, the listener of 'finish' and 'close' of the response
StillActive(e) == IF e.counted THEN 0 ELSE 1

Step(q, e, c) == ex' = [ex EXCEPT ![q] = e] /\ counters' = c

-----------------------------------------------------------------------------
(* The visitor.                                                            *)

\* Refused at once: bad Host or target, unknown hostname, method, declared
\* length, or an upstream the network policy does not allow.
Refuse(q) ==
    /\ ex[q].conn = "none"
    /\ Step(q, [HeadOnce(ex[q], "refused") EXCEPT !.conn = "open", !.res = "ended"],
            [counters EXCEPT !.activeRequests = @ + 1])

\* The route is looked up, the upstream request made and the timers armed.
Forward(q) ==
    /\ ex[q].conn = "none"
    /\ Step(q, [ex[q] EXCEPT !.conn = "open", !.upstream = "connecting",
                             !.timers = {"connect", "response"}],
            [counters EXCEPT !.activeRequests = @ + 1])

UploadEnds(q) ==
    /\ ex[q].conn = "open" /\ ex[q].body = "sending" /\ ex[q].upstream # "none"
    /\ Step(q, [ex[q] EXCEPT !.body = "sent"], counters)

\* LimitedRequestBody sees one byte too many.
UploadTooLarge(q) ==
    /\ ex[q].conn = "open" /\ ex[q].body = "sending" /\ ex[q].upstream # "none"
    /\ Step(q, [Failed(ex[q]) EXCEPT !.body = "over"],
            [counters EXCEPT !.upstreamErrors = @ + FailureCount(ex[q])])

\* The last byte of the answer is handed to the connection: 'finish'.
Finish(q) ==
    /\ ex[q].conn = "open" /\ ex[q].res = "ended"
    /\ Step(q, [ex[q] EXCEPT !.res = "finished", !.counted = TRUE],
            [counters EXCEPT !.activeRequests = @ - StillActive(ex[q])])

\* The connection goes away: the visitor leaves, or the response was destroyed.
\* After a finished answer nothing listens any more.
Disconnect(q) ==
    LET e == ex[q] IN
    /\ e.conn = "open"
    /\ Step(q, [(IF e.res = "finished" THEN e ELSE Aborted(e)) EXCEPT
                   !.conn = "gone", !.res = DestroyResponse(@), !.counted = TRUE],
            [counters EXCEPT !.activeRequests = @ - StillActive(e)])

-----------------------------------------------------------------------------
(* The upstream request.                                                   *)

Connect(q) ==
    /\ ex[q].upstream = "connecting"
    /\ Step(q, [ex[q] EXCEPT !.upstream = "waiting", !.timers = @ \ {"connect"}], counters)

\* 'error' of the upstream request: refused, reset, hung up, not verified.
UpstreamError(q) ==
    /\ ex[q].upstream \in OpenUpstream
    /\ Step(q, [Failed(ex[q]) EXCEPT !.timers = {}],
            [counters EXCEPT !.upstreamErrors = @ + FailureCount(ex[q])])

\* A connect or response timer fires, perhaps long after it stopped to matter.
Timeout(q, t) ==
    /\ t \in ex[q].timers
    /\ Step(q, [Failed(ex[q]) EXCEPT !.timers = @ \ {t}],
            [counters EXCEPT !.upstreamErrors = @ + FailureCount(ex[q])])

\* The upstream socket was silent for the idle timeout.
IdleTimeout(q) ==
    /\ ex[q].upstream \in OpenUpstream
    /\ Step(q, Failed(ex[q]),
            [counters EXCEPT !.upstreamErrors = @ + FailureCount(ex[q])])

\* 'close' after a destroy ...
Close(q) ==
    /\ ex[q].upstream = "closing"
    /\ Step(q, Closed(ex[q]),
            [counters EXCEPT !.interruptedResponses = @ + IF IsCut(ex[q]) THEN 1 ELSE 0])

\* ... or because the upstream closed its connection while responding.
HangUp(q) ==
    /\ ex[q].upstream = "responding"
    /\ Step(q, Closed(ex[q]),
            [counters EXCEPT !.interruptedResponses = @ + IF IsCut(ex[q]) THEN 1 ELSE 0])

-----------------------------------------------------------------------------
(* The upstream response.                                                  *)

\* Not eligible for injection: the head is passed on and the body piped.
RespondPiped(q) ==
    /\ ex[q].upstream = "waiting"
    /\ Step(q, [ex[q] EXCEPT !.upstream = "responding", !.message = "flowing",
                             !.timers = @ \ {"response"}, !.filter = "piped",
                             !.heads = @ + 1, !.head = "original"],
            [counters EXCEPT !.injectionSkipped = @ + 1])

\* Eligible: the head waits for the transform's decision.
RespondEligible(q) ==
    /\ ex[q].upstream = "waiting"
    /\ Step(q, [ex[q] EXCEPT !.upstream = "responding", !.message = "flowing",
                             !.timers = @ \ {"response"}, !.filter = "buffering"], counters)

\* More wire bytes than maxInjectBytes: what was buffered is passed through.
Overflow(q) ==
    /\ ex[q].filter = "buffering" /\ ex[q].upstream = "responding"
    /\ Step(q, [HeadOnce(ex[q], "original") EXCEPT !.filter = "passthrough"],
            [counters EXCEPT !.injectionSkipped = @ + 1])

\* Fault (mutation only): the decision is taken before the result is checked.
FlushedEarly(e, outcome) ==
    LET body == IF outcome = "applied" THEN "transformed" ELSE "original"
        head == IF outcome = "unmodified" THEN "original" ELSE "transformed"
    IN  [HeadOnce(e, head) EXCEPT !.sent = body]

\* _flush over the whole body: nothing to insert, items inserted, or an error
\* (decoding, rendering, size after insertion or compression) that restores
\* the original.
Flushed(e, outcome) ==
    LET body == IF outcome = "applied" THEN "transformed" ELSE "original"
    IN  [HeadOnce(e, body) EXCEPT !.sent = body]

Flush(q, outcome) ==
    /\ ex[q].filter = "buffering" /\ ex[q].upstream = "responding"
    /\ Step(q, [Flushed(ex[q], outcome) EXCEPT
                   !.filter = "flushed", !.message = "complete",
                   !.res = End(@), !.upstream = "closing"],
            [counters EXCEPT
                !.injectionApplied = @ + IF outcome = "applied" THEN 1 ELSE 0,
                !.injectionSkipped = @ + IF outcome = "applied" THEN 0 ELSE 1,
                !.injectionErrors = @ + IF outcome = "error" THEN 1 ELSE 0])

\* The parser has the whole message; a slow visitor may not have it yet.
Complete(q) ==
    /\ ex[q].filter \in {"piped", "passthrough"}
    /\ ex[q].upstream = "responding" /\ ex[q].message = "flowing"
    /\ Step(q, [ex[q] EXCEPT !.message = "complete"], counters)

\* The pipe reaches the end of the message.
PipeEnds(q) ==
    /\ ex[q].filter \in {"piped", "passthrough"}
    /\ ex[q].message = "complete" /\ ex[q].res = "open"
    /\ Step(q, [ex[q] EXCEPT !.res = "ended", !.sent = "original",
                             !.upstream = Destroy(@)], counters)

-----------------------------------------------------------------------------
Visitor(q) == Refuse(q) \/ Forward(q) \/ UploadEnds(q) \/ UploadTooLarge(q)
              \/ Finish(q) \/ Disconnect(q)

Upstream(q) == Connect(q) \/ UpstreamError(q) \/ (\E t \in {"connect", "response"} : Timeout(q, t))
               \/ IdleTimeout(q) \/ Close(q) \/ HangUp(q)

Response(q) == RespondPiped(q) \/ RespondEligible(q) \/ Overflow(q)
               \/ (\E outcome \in {"unmodified", "applied", "error"} : Flush(q, outcome))
               \/ Complete(q) \/ PipeEnds(q)

Next == \E q \in Requests : Visitor(q) \/ Upstream(q) \/ Response(q)

Spec == Init /\ [][Next]_vars

\* Timers fire, a destroyed socket closes, and a visitor reads its answer or
\* leaves.  The idle timer's fairness says that an upstream ends its answer or
\* falls silent one day; an endless event stream is outside the liveness claims.
Fairness ==
    \A q \in Requests :
        /\ WF_vars(Finish(q)) /\ WF_vars(PipeEnds(q))
        /\ WF_vars(ex[q].res = "destroyed" /\ Disconnect(q))
        /\ WF_vars(IdleTimeout(q)) /\ WF_vars(Close(q))

FairSpec == Spec /\ Fairness

-----------------------------------------------------------------------------
(* Properties.                                                             *)

\* Every field has its range, and no counter is ever negative.
TypeOK ==
    /\ ex \in [Requests -> Exchange]
    /\ counters \in [activeRequests : Nat, upstreamErrors : Nat, interruptedResponses : Nat,
                     injectionApplied : Nat, injectionSkipped : Nat, injectionErrors : Nat]

Received == {q \in Requests : ex[q].conn # "none"}
Unfinished == {q \in Received : ~ex[q].counted}

\* The active-request counter of createProxy is the number of requests that were
\* received and have neither finished nor lost their connection, although
\* 'finish' and 'close' both report the end of a response.
ActiveRequestsExact == counters.activeRequests = Cardinality(Unfinished)

\* Every response of an upstream is counted as applied or skipped once, or its
\* transform never came to a decision; errors are among the skipped ones; every
\* interrupted response is counted once and every exchange fails at most once.
OutcomesCountedOnce ==
    /\ counters.injectionApplied + counters.injectionSkipped
         = Cardinality({q \in Requests : ex[q].filter \in {"piped", "passthrough", "flushed"}})
    /\ counters.injectionErrors <= counters.injectionSkipped
    /\ counters.interruptedResponses = Cardinality({q \in Requests : ex[q].interrupted})
    /\ counters.upstreamErrors <= Cardinality({q \in Requests : ex[q].completed})

\* What a listener may rely on: a completed exchange no longer has an open
\* upstream request, no head is written before the response or the failure, a
\* transform still buffering has written none, and an ended answer is either the
\* proxy's own or the whole of the upstream's.
Sound(e) ==
    /\ e.conn = "none" => e = NewExchange
    /\ e.heads <= 1 /\ (e.heads = 0 <=> e.head = "none")
    /\ e.heads = 0 => e.res \in {"open", "destroyed"}
    /\ e.completed => e.upstream \notin OpenUpstream
    /\ e.upstream = "none" => e.timers = {}
    /\ e.upstream \in {"none", "connecting", "waiting"} => e.message = "none" /\ e.filter = "none"
    /\ e.upstream \in {"connecting", "waiting"} => e.heads = 0
    /\ e.filter = "buffering" /\ e.upstream = "responding" => e.heads = 0
    /\ e.filter \in {"piped", "passthrough"} => e.head = "original"
    /\ e.res \in {"ended", "finished"} /\ e.head \in {"original", "transformed"} =>
           e.message = "complete" /\ e.sent = e.head

RequestInv == \A q \in Requests : Sound(ex[q])

\* No interleaving of failures, timers and responses writes a second head (an
\* exception in Node, raised in an event listener).
OneHead == \A q \in Requests : ex[q].heads <= 1

\* An answer that finished under the upstream's head carries the body that head
\* announces, from an upstream response that was complete: the visitor is never
\* given a truncated page as a whole one, nor a transformed body under the
\* original's validators or length.
WholeAnswers ==
    \A q \in Requests :
        ex[q].res = "finished" /\ ex[q].head \in {"original", "transformed"} =>
            /\ ex[q].message = "complete"
            /\ ex[q].sent = ex[q].head

\* Once the visitor is gone or a failure was reported, nothing keeps the upstream
\* request open: the abort, the failure or the idle timer closes it.
UpstreamReleased ==
    \A q \in Requests : ex[q].upstream # "none" ~> ex[q].upstream = "closed"

\* Every request ends: its answer finishes or its connection closes, whatever the
\* upstream does.
RequestEnds == \A q \in Requests : ex[q].conn # "none" ~> ex[q].counted
=============================================================================
