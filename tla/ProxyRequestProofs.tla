-------------------------- MODULE ProxyRequestProofs --------------------------
(***************************************************************************)
(* Proofs about the request handler, for every finite set of exchanges:    *)
(* one head, whole answers, and an exact count of active requests.         *)
(***************************************************************************)
EXTENDS ProxyRequest, FiniteSetTheorems, TLAPS

\* An exchange that is well formed in both senses.
Good(e) == e \in Exchange /\ Sound(e)

AllGood == \A q \in Requests : Good(ex[q])

-----------------------------------------------------------------------------
(***************************************************************************)
(* What the listeners do to a good exchange.                               *)
(***************************************************************************)

LEMMA ListenerTypes ==
    ASSUME NEW e \in Exchange
    PROVE  /\ Destroy(e.upstream) \in UpstreamStates \ OpenUpstream
           /\ End(e.res) \in ResStates /\ DestroyResponse(e.res) \in ResStates
<1>1. e.upstream \in UpstreamStates /\ e.res \in ResStates
  BY DEF Exchange
<1> QED BY <1>1 DEF Destroy, End, DestroyResponse, OpenUpstream, UpstreamStates, ResStates

\* The values the listeners assign are in the fields' ranges.
LEMMA FieldValues ==
    /\ {"open", "gone"} \subseteq ConnStates
    /\ {"sent", "over"} \subseteq BodyStates
    /\ {"ended", "finished"} \subseteq ResStates
    /\ 1 \in HeadCounts
    /\ Bodies \subseteq Heads /\ {"refused", "failed"} \subseteq Heads
    /\ {"original", "transformed"} \subseteq Bodies
    /\ {"connecting", "waiting", "responding", "closing", "closed"} \subseteq UpstreamStates
    /\ {"flowing", "complete", "cut"} \subseteq MessageStates
    /\ {"piped", "buffering", "passthrough", "flushed"} \subseteq Filters
    /\ {} \in TimerSets /\ {"connect", "response"} \in TimerSets
    /\ \A ts \in TimerSets, t \in {"connect", "response"} : ts \ {t} \in TimerSets
<1>1. 1 \in HeadCounts
  BY DEF HeadCounts
<1>2. /\ {"open", "gone"} \subseteq ConnStates
      /\ {"sent", "over"} \subseteq BodyStates
      /\ {"ended", "finished"} \subseteq ResStates
  BY DEF ConnStates, BodyStates, ResStates
<1>3. /\ Bodies \subseteq Heads /\ {"refused", "failed"} \subseteq Heads
      /\ {"original", "transformed"} \subseteq Bodies
  BY DEF Bodies, Heads
<1>4. {"connecting", "waiting", "responding", "closing", "closed"} \subseteq UpstreamStates
  BY DEF UpstreamStates
<1>5. /\ {"flowing", "complete", "cut"} \subseteq MessageStates
      /\ {"piped", "buffering", "passthrough", "flushed"} \subseteq Filters
  BY DEF MessageStates, Filters
<1>6. /\ {} \in TimerSets /\ {"connect", "response"} \in TimerSets
      /\ \A ts \in TimerSets, t \in {"connect", "response"} : ts \ {t} \in TimerSets
  BY DEF TimerSets
<1> QED BY <1>1, <1>2, <1>3, <1>4, <1>5, <1>6

LEMMA FailedGood ==
    ASSUME NEW e, Good(e), e.conn # "none", e.upstream # "none"
    PROVE  /\ Good(Failed(e)) /\ Failed(e).completed
           /\ Failed(e).conn = e.conn /\ Failed(e).counted = e.counted
           /\ Failed(e).upstream \notin OpenUpstream
           /\ Failed(e).upstream # "none"
<1>1. CASE e.completed
  BY <1>1 DEF Failed, Good, Sound
<1>2. CASE ~e.completed /\ e.heads = 0
  <2>1. Failed(e) = [e EXCEPT !.heads = 1, !.head = "failed", !.completed = TRUE,
                              !.upstream = Destroy(@), !.res = End(@)]
    BY <1>2 DEF Failed, HeadOnce, Good, Exchange
  <2>2. Failed(e) \in Exchange
    BY <2>1, ListenerTypes, FieldValues, ZenonT(40) DEF Good, Exchange
  <2> QED BY <1>2, <2>1, <2>2 DEF Good, Sound, Exchange, HeadCounts, Destroy, End, OpenUpstream, NewExchange
<1>3. CASE ~e.completed /\ e.heads # 0
  <2>1. Failed(e) = [e EXCEPT !.completed = TRUE, !.upstream = Destroy(@),
                              !.res = DestroyResponse(@)]
    BY <1>3 DEF Failed, HeadOnce, Good, Exchange
  <2>2. Failed(e) \in Exchange
    BY <2>1, ListenerTypes, FieldValues, ZenonT(40) DEF Good, Exchange
  <2> QED BY <1>3, <2>1, <2>2 DEF Good, Sound, Exchange, HeadCounts, Destroy, DestroyResponse, OpenUpstream, NewExchange
<1> QED BY <1>1, <1>2, <1>3

LEMMA ClosedGood ==
    ASSUME NEW e, Good(e), e.conn # "none", e.upstream \in {"closing", "responding"}
    PROVE  /\ Good(Closed(e)) /\ Closed(e).conn = e.conn /\ Closed(e).counted = e.counted
<1>1. CASE IsCut(e)
  <2>1. Closed(e) = [e EXCEPT !.message = "cut", !.interrupted = TRUE, !.res = DestroyResponse(@),
                              !.upstream = "closed", !.completed = TRUE, !.timers = {}]
    BY <1>1 DEF Closed, Interrupted, Good, Exchange
  <2>2. Closed(e) \in Exchange
    <3>1. e \in Exchange
      BY DEF Good
    <3>2. DestroyResponse(e.res) \in ResStates
      BY <3>1, ListenerTypes
    <3>3. "cut" \in MessageStates /\ "closed" \in UpstreamStates /\ {} \in TimerSets
      BY FieldValues
    <3> QED BY <2>1, <3>1, <3>2, <3>3, ZenonT(40) DEF Exchange
  <2>3. Closed(e).conn = e.conn /\ Closed(e).counted = e.counted
    BY <2>1 DEF Good, Exchange
  <2>4. Closed(e).message = "cut" /\ Closed(e).res \notin {"ended"}
    BY <2>1 DEF Good, Exchange, DestroyResponse
  <2>5. e.head \in {"original", "transformed"} => e.res # "finished"
    BY <1>1 DEF IsCut, Good, Sound
  <2>6. Sound(Closed(e))
    BY <2>1, <2>4, <2>5 DEF Good, Sound, Exchange, HeadCounts, DestroyResponse, OpenUpstream, NewExchange
  <2> QED BY <2>2, <2>3, <2>6 DEF Good
<1>2. CASE ~IsCut(e)
  <2>1. Closed(e) = [e EXCEPT !.upstream = "closed", !.completed = TRUE, !.timers = {}]
    BY <1>2 DEF Closed
  <2>2. Closed(e) \in Exchange
    BY <2>1, FieldValues, ZenonT(40) DEF Good, Exchange
  <2>3. Closed(e).conn = e.conn /\ Closed(e).counted = e.counted
    BY <2>1 DEF Good, Exchange
  <2>4. Sound(Closed(e))
    BY <2>1, <1>2 DEF Good, Sound, Exchange, HeadCounts, OpenUpstream, NewExchange
  <2> QED BY <2>2, <2>3, <2>4 DEF Good
<1> QED BY <1>1, <1>2

LEMMA AbortedGood ==
    ASSUME NEW e, Good(e), e.conn # "none"
    PROVE  /\ Good(Aborted(e)) /\ Aborted(e).conn = e.conn /\ Aborted(e).counted = e.counted
           /\ Aborted(e).res = e.res
<1>1. CASE e.upstream # "none" /\ e.body # "sent"
  <2>1. Aborted(e) = [e EXCEPT !.completed = TRUE, !.upstream = Destroy(@)]
    BY <1>1 DEF Aborted
  <2>2. Aborted(e) \in Exchange
    BY <2>1, ListenerTypes, FieldValues DEF Good, Exchange
  <2> QED BY <1>1, <2>1, <2>2 DEF Good, Sound, Exchange, HeadCounts, Destroy, OpenUpstream, NewExchange
<1>2. CASE ~(e.upstream # "none" /\ e.body # "sent")
  BY <1>2 DEF Aborted
<1> QED BY <1>1, <1>2

\* A flush writes the head and the body of one decision.
LEMMA FlushedGood ==
    ASSUME NEW e, Good(e), e.filter = "buffering", e.upstream = "responding",
           NEW outcome \in {"unmodified", "applied", "error"}
    PROVE  LET f == [Flushed(e, outcome) EXCEPT
                        !.filter = "flushed", !.message = "complete",
                        !.res = End(@), !.upstream = "closing"]
           IN  Good(f) /\ f.conn = e.conn /\ f.counted = e.counted
<1> DEFINE body == IF outcome = "applied" THEN "transformed" ELSE "original"
           f == [Flushed(e, outcome) EXCEPT !.filter = "flushed", !.message = "complete",
                                            !.res = End(@), !.upstream = "closing"]
<1>1. e.heads = 0 /\ e.conn # "none"
  BY DEF Good, Sound, NewExchange
<1>2. f = [e EXCEPT !.heads = 1, !.head = body, !.sent = body, !.filter = "flushed",
                    !.message = "complete", !.res = End(@), !.upstream = "closing"]
  BY <1>1 DEF Flushed, HeadOnce, Good, Exchange
<1> DEFINE end == End(e.res)
<1>a. body \in Bodies /\ body \in Heads /\ end \in ResStates
  BY ListenerTypes, FieldValues DEF Good
<1>b. f = [e EXCEPT !.heads = 1, !.head = body, !.sent = body, !.filter = "flushed",
                    !.message = "complete", !.res = end, !.upstream = "closing"]
  BY <1>2 DEF Good, Exchange
<1> HIDE DEF body, f, end
<1>3. f \in Exchange
  BY <1>a, <1>b, FieldValues DEF Good, Exchange
<1>4. /\ f.conn = e.conn /\ f.counted = e.counted
      /\ f.heads = 1 /\ f.head = body /\ f.sent = body /\ f.filter = "flushed"
      /\ f.message = "complete" /\ f.upstream = "closing" /\ f.completed = e.completed
  BY <1>b DEF Good, Exchange
<1>5. body # "none"
  BY DEF body
<1>6. Sound(f)
  BY <1>1, <1>4, <1>5 DEF Sound, OpenUpstream
<1> QED BY <1>3, <1>4, <1>6 DEF Good, f

-----------------------------------------------------------------------------
(***************************************************************************)
(* One lemma per event: it replaces one exchange by a good one, and moves  *)
(* the active-request counter by what that exchange is worth.              *)
(***************************************************************************)
Worth(e) == IF e.conn # "none" /\ ~e.counted THEN 1 ELSE 0

CountersType ==
    counters \in [activeRequests : Int, upstreamErrors : Nat, interruptedResponses : Nat,
                  injectionApplied : Nat, injectionSkipped : Nat, injectionErrors : Nat]

Effect(q, f) ==
    /\ Good(f) /\ f.conn # "none"
    /\ ex' = [ex EXCEPT ![q] = f]
    /\ CountersType'
    /\ counters'.activeRequests = counters.activeRequests + Worth(f) - Worth(ex[q])

State == ex \in [Requests -> Exchange] /\ AllGood /\ CountersType

LEMMA RefuseEffect ==
    ASSUME State, NEW q \in Requests, Refuse(q)
    PROVE  \E f : Effect(q, f)
<1> DEFINE e == ex[q]
           f == [e EXCEPT !.heads = 1, !.head = "refused", !.conn = "open", !.res = "ended"]
<1>1. Good(e) /\ e.conn = "none" /\ e = NewExchange
  BY DEF State, AllGood, Good, Sound, Refuse
<1>2. Step(q, f, [counters EXCEPT !.activeRequests = @ + 1])
  BY <1>1 DEF Refuse, HeadOnce, NewExchange
<1>3. f \in Exchange
  BY <1>1, FieldValues DEF Good, Exchange
<1>4. /\ f.conn = "open" /\ f.counted = FALSE /\ f.heads = 1 /\ f.head = "refused"
      /\ f.completed = FALSE /\ f.upstream = "none" /\ f.message = "none"
      /\ f.filter = "none" /\ f.timers = e.timers /\ e.timers = {}
  BY <1>1 DEF NewExchange
<1>5. Sound(f)
  <2> HIDE DEF f
  <2> QED BY <1>4 DEF Sound
<1>6. Worth(f) = 1 /\ Worth(e) = 0
  <2> HIDE DEF f
  <2> QED BY <1>1, <1>4 DEF Worth
<1>7. /\ CountersType'
      /\ counters'.activeRequests = counters.activeRequests + 1
  BY <1>2 DEF Step, State, CountersType
<1> HIDE DEF f
<1>8. counters'.activeRequests = counters.activeRequests + Worth(f) - Worth(e)
  BY <1>6, <1>7 DEF State, CountersType
<1> QED BY <1>2, <1>3, <1>4, <1>5, <1>7, <1>8 DEF Effect, Good, Step

\* Most events neither begin nor end an exchange.
LEMMA QuietEffect ==
    ASSUME State, NEW q \in Requests, NEW f, Good(f), ex[q].conn # "none",
           f.conn = ex[q].conn, f.counted = ex[q].counted,
           NEW c, Step(q, f, c), CountersType',
           c.activeRequests = counters.activeRequests
    PROVE  Effect(q, f)
<1>1. Worth(f) = Worth(ex[q]) /\ Worth(f) \in Int
  BY DEF Worth
<1>2. counters'.activeRequests = counters.activeRequests + Worth(f) - Worth(ex[q])
  BY <1>1 DEF Step, State, CountersType
<1> QED BY <1>2 DEF Effect, Step

\* Neither the request body nor the timers matter to Sound.
LEMMA MinorGood ==
    ASSUME NEW e, Good(e), e.conn # "none", NEW b \in BodyStates, NEW ts \in TimerSets
    PROVE  /\ LET f == [e EXCEPT !.body = b]
              IN  Good(f) /\ f.conn = e.conn /\ f.counted = e.counted
           /\ LET f == [e EXCEPT !.timers = ts]
              IN  (e.upstream # "none" => Good(f)) /\ f.conn = e.conn /\ f.counted = e.counted
<1> DEFINE f == [e EXCEPT !.body = b]
           g == [e EXCEPT !.timers = ts]
<1>1. f \in Exchange /\ g \in Exchange
  BY DEF Good, Exchange
<1>2. /\ f.conn = e.conn /\ f.counted = e.counted /\ f.heads = e.heads /\ f.head = e.head
      /\ f.completed = e.completed /\ f.upstream = e.upstream /\ f.message = e.message
      /\ f.filter = e.filter /\ f.res = e.res /\ f.sent = e.sent /\ f.timers = e.timers
  BY DEF Good, Exchange
<1>3. /\ g.conn = e.conn /\ g.counted = e.counted /\ g.heads = e.heads /\ g.head = e.head
      /\ g.completed = e.completed /\ g.upstream = e.upstream /\ g.message = e.message
      /\ g.filter = e.filter /\ g.res = e.res /\ g.sent = e.sent
  BY DEF Good, Exchange
<1>4. Sound(f) /\ (e.upstream # "none" => Sound(g))
  <2> HIDE DEF f, g
  <2> QED BY <1>2, <1>3 DEF Good, Sound
<1> QED BY <1>1, <1>2, <1>3, <1>4 DEF Good

\* A failure and whatever follows it keep the counters typed.
LEMMA FailureCounted ==
    ASSUME State, NEW e, NEW c, c = [counters EXCEPT !.upstreamErrors = @ + FailureCount(e)],
           counters' = c
    PROVE  CountersType' /\ c.activeRequests = counters.activeRequests
<1>1. FailureCount(e) \in Nat
  BY DEF FailureCount
<1> QED BY <1>1 DEF State, CountersType

LEMMA InterruptionCounted ==
    ASSUME State, NEW e, NEW c,
           c = [counters EXCEPT !.interruptedResponses = @ + IF IsCut(e) THEN 1 ELSE 0],
           counters' = c
    PROVE  CountersType' /\ c.activeRequests = counters.activeRequests
<1>1. (IF IsCut(e) THEN 1 ELSE 0) \in Nat
  OBVIOUS
<1> QED BY <1>1 DEF State, CountersType

LEMMA ForwardEffect ==
    ASSUME State, NEW q \in Requests, Forward(q)
    PROVE  \E f : Effect(q, f)
<1> DEFINE e == ex[q]
           f == [e EXCEPT !.conn = "open", !.upstream = "connecting",
                          !.timers = {"connect", "response"}]
<1>1. Good(e) /\ e.conn = "none" /\ e = NewExchange
  BY DEF State, AllGood, Good, Sound, Forward
<1>2. Step(q, f, [counters EXCEPT !.activeRequests = @ + 1])
  BY DEF Forward
<1>3. f \in Exchange
  BY <1>1, FieldValues DEF Good, Exchange
<1>4. /\ f.conn = "open" /\ f.counted = FALSE /\ f.heads = 0 /\ f.head = "none"
      /\ f.completed = FALSE /\ f.upstream = "connecting" /\ f.message = "none"
      /\ f.filter = "none" /\ f.res = "open"
  BY <1>1 DEF NewExchange
<1>5. Sound(f)
  <2> HIDE DEF f
  <2> QED BY <1>4 DEF Sound
<1>6. Worth(f) = 1 /\ Worth(e) = 0
  <2> HIDE DEF f
  <2> QED BY <1>1, <1>4 DEF Worth
<1>7. /\ CountersType'
      /\ counters'.activeRequests = counters.activeRequests + 1
  BY <1>2 DEF Step, State, CountersType
<1> HIDE DEF f
<1>8. counters'.activeRequests = counters.activeRequests + Worth(f) - Worth(e)
  BY <1>6, <1>7 DEF State, CountersType
<1> QED BY <1>2, <1>3, <1>4, <1>5, <1>7, <1>8 DEF Effect, Good, Step

LEMMA UploadEffect ==
    ASSUME State, NEW q \in Requests, UploadEnds(q) \/ UploadTooLarge(q)
    PROVE  \E f : Effect(q, f)
<1> DEFINE e == ex[q]
<1>1. Good(e) /\ e.conn # "none" /\ e.upstream # "none"
  BY DEF State, AllGood, UploadEnds, UploadTooLarge
<1>2. "sent" \in BodyStates /\ "over" \in BodyStates /\ {} \in TimerSets
  BY FieldValues
<1>3. CASE UploadEnds(q)
  <2> DEFINE f == [e EXCEPT !.body = "sent"]
  <2>1. Step(q, f, counters) /\ CountersType'
    BY <1>3 DEF UploadEnds, Step, State, CountersType
  <2>2. Good(f) /\ f.conn = e.conn /\ f.counted = e.counted
    BY <1>1, <1>2, MinorGood
  <2> QED BY <1>1, <2>1, <2>2, QuietEffect
<1>4. CASE UploadTooLarge(q)
  <2> DEFINE f == [Failed(e) EXCEPT !.body = "over"]
             c == [counters EXCEPT !.upstreamErrors = @ + FailureCount(e)]
  <2>1. Step(q, f, c)
    BY <1>4 DEF UploadTooLarge
  <2>2. Good(Failed(e)) /\ Failed(e).conn = e.conn /\ Failed(e).counted = e.counted
    BY <1>1, FailedGood
  <2>3. Good(f) /\ f.conn = e.conn /\ f.counted = e.counted
    BY <1>1, <1>2, <2>2, MinorGood
  <2>4. CountersType' /\ c.activeRequests = counters.activeRequests
    BY <2>1, FailureCounted DEF Step
  <2> QED BY <1>1, <2>1, <2>3, <2>4, QuietEffect
<1> QED BY <1>3, <1>4

LEMMA FailureEffect ==
    ASSUME State, NEW q \in Requests, NEW t \in {"connect", "response"},
           UpstreamError(q) \/ Timeout(q, t) \/ IdleTimeout(q)
    PROVE  \E f : Effect(q, f)
<1> DEFINE e == ex[q]
           c == [counters EXCEPT !.upstreamErrors = @ + FailureCount(e)]
<1>1. Good(e) /\ e \in Exchange
  BY DEF State, AllGood, Good
<1>a. e.upstream # "none"
  BY <1>1 DEF UpstreamError, Timeout, IdleTimeout, OpenUpstream, Good, Sound
<1>2. e.upstream # "none" /\ e.conn # "none"
  BY <1>1, <1>a DEF Good, Sound, NewExchange
<1>3. /\ Good(Failed(e)) /\ Failed(e).conn = e.conn /\ Failed(e).counted = e.counted
      /\ Failed(e).timers \in TimerSets /\ Failed(e).upstream # "none"
  BY <1>1, <1>2, FailedGood DEF Good, Exchange
<1>4. {} \in TimerSets /\ Failed(e).timers \ {t} \in TimerSets /\ e.body \in BodyStates
  BY <1>1, <1>3, FieldValues DEF Exchange
<1>5. PICK f : Step(q, f, c) /\ Good(f) /\ f.conn = e.conn /\ f.counted = e.counted
  <2>1. CASE UpstreamError(q)
    <3> DEFINE f == [Failed(e) EXCEPT !.timers = {}]
    <3>1. Step(q, f, c)
      BY <2>1 DEF UpstreamError
    <3>2. Good(f) /\ f.conn = e.conn /\ f.counted = e.counted
      BY <1>2, <1>3, <1>4, MinorGood
    <3> QED BY <3>1, <3>2
  <2>2. CASE Timeout(q, t)
    <3> DEFINE f == [Failed(e) EXCEPT !.timers = @ \ {t}]
    <3>1. Step(q, f, c)
      BY <2>2 DEF Timeout
    <3>2. Good(f) /\ f.conn = e.conn /\ f.counted = e.counted
      BY <1>2, <1>3, <1>4, MinorGood
    <3> QED BY <3>1, <3>2
  <2>3. CASE IdleTimeout(q)
    BY <1>3, <2>3 DEF IdleTimeout
  <2> QED BY <2>1, <2>2, <2>3
<1>6. CountersType' /\ c.activeRequests = counters.activeRequests
  BY <1>5, FailureCounted DEF Step
<1> QED BY <1>2, <1>5, <1>6, QuietEffect

LEMMA CloseEffect ==
    ASSUME State, NEW q \in Requests, Close(q) \/ HangUp(q)
    PROVE  \E f : Effect(q, f)
<1> DEFINE e == ex[q]
           c == [counters EXCEPT !.interruptedResponses = @ + IF IsCut(e) THEN 1 ELSE 0]
<1>1. Good(e) /\ e.upstream \in {"closing", "responding"} /\ Step(q, Closed(e), c)
  BY DEF State, AllGood, Close, HangUp
<1>2. e.conn # "none"
  BY <1>1 DEF Good, Sound, NewExchange
<1>3. Good(Closed(e)) /\ Closed(e).conn = e.conn /\ Closed(e).counted = e.counted
  BY <1>1, <1>2, ClosedGood
<1>4. CountersType' /\ c.activeRequests = counters.activeRequests
  BY <1>1, InterruptionCounted DEF Step
<1> QED BY <1>1, <1>2, <1>3, <1>4, QuietEffect

LEMMA FlushEffect ==
    ASSUME State, NEW q \in Requests, NEW outcome \in {"unmodified", "applied", "error"},
           Flush(q, outcome)
    PROVE  \E f : Effect(q, f)
<1> DEFINE e == ex[q]
           f == [Flushed(e, outcome) EXCEPT !.filter = "flushed", !.message = "complete",
                                            !.res = End(@), !.upstream = "closing"]
           one == IF outcome = "applied" THEN 1 ELSE 0
           two == IF outcome = "applied" THEN 0 ELSE 1
           three == IF outcome = "error" THEN 1 ELSE 0
           c == [counters EXCEPT !.injectionApplied = @ + one, !.injectionSkipped = @ + two,
                                 !.injectionErrors = @ + three]
<1>1. /\ Good(e) /\ e.filter = "buffering" /\ e.upstream = "responding"
      /\ Step(q, f, c)
  BY DEF State, AllGood, Flush
<1>2. e.conn # "none"
  BY <1>1 DEF Good, Sound, NewExchange
<1>3. Good(f) /\ f.conn = e.conn /\ f.counted = e.counted
  BY <1>1, FlushedGood, Zenon
<1>4. CountersType' /\ c.activeRequests = counters.activeRequests
  <2>1. one \in Nat /\ two \in Nat /\ three \in Nat
    OBVIOUS
  <2>2. c \in [activeRequests : Int, upstreamErrors : Nat, interruptedResponses : Nat,
               injectionApplied : Nat, injectionSkipped : Nat, injectionErrors : Nat]
    <3> HIDE DEF one, two, three
    <3>1. /\ counters.injectionApplied + one \in Nat
          /\ counters.injectionSkipped + two \in Nat
          /\ counters.injectionErrors + three \in Nat
      BY <2>1 DEF State, CountersType
    <3> QED BY <3>1 DEF State, CountersType
  <2>3. c.activeRequests = counters.activeRequests
    BY DEF State, CountersType
  <2>4. counters' = c
    BY <1>1 DEF Step
  <2> HIDE DEF c
  <2> QED BY <2>2, <2>3, <2>4 DEF CountersType
<1> QED BY <1>1, <1>2, <1>3, <1>4, QuietEffect, Zenon

LEMMA FinishEffect ==
    ASSUME State, NEW q \in Requests, Finish(q)
    PROVE  \E f : Effect(q, f)
<1> DEFINE e == ex[q]
           f == [e EXCEPT !.res = "finished", !.counted = TRUE]
<1>1. /\ Good(e) /\ e.conn = "open" /\ e.res = "ended"
      /\ Step(q, f, [counters EXCEPT !.activeRequests = @ - StillActive(e)])
  BY DEF State, AllGood, Finish
<1>2. f \in Exchange
  BY <1>1, FieldValues DEF Good, Exchange
<1>3. /\ f.conn = e.conn /\ f.counted = TRUE /\ f.heads = e.heads /\ f.head = e.head
      /\ f.completed = e.completed /\ f.upstream = e.upstream /\ f.message = e.message
      /\ f.filter = e.filter /\ f.sent = e.sent /\ f.timers = e.timers
  BY <1>1 DEF Good, Exchange
<1>4. Sound(f)
  <2> HIDE DEF f
  <2> QED BY <1>1, <1>3 DEF Good, Sound
<1>5. Worth(f) = 0 /\ Worth(e) = StillActive(e) /\ StillActive(e) \in Int
  <2> HIDE DEF f
  <2> QED BY <1>1, <1>3 DEF Worth, StillActive
<1>6. CountersType' /\ counters'.activeRequests = counters.activeRequests - StillActive(e)
  BY <1>1, <1>5 DEF Step, State, CountersType
<1> HIDE DEF f
<1>7. counters'.activeRequests = counters.activeRequests + Worth(f) - Worth(e)
  BY <1>5, <1>6 DEF State, CountersType
<1> QED BY <1>1, <1>2, <1>3, <1>4, <1>6, <1>7 DEF Effect, Good, Step

LEMMA DisconnectEffect ==
    ASSUME State, NEW q \in Requests, Disconnect(q)
    PROVE  \E f : Effect(q, f)
<1> DEFINE e == ex[q]
           g == IF e.res = "finished" THEN e ELSE Aborted(e)
           f == [g EXCEPT !.conn = "gone", !.res = DestroyResponse(@), !.counted = TRUE]
<1>1. /\ Good(e) /\ e.conn = "open"
      /\ Step(q, f, [counters EXCEPT !.activeRequests = @ - StillActive(e)])
  BY DEF State, AllGood, Disconnect
<1>2. Good(g) /\ g.conn = "open" /\ g.counted = e.counted
  BY <1>1, AbortedGood
<1> HIDE DEF g
<1>3. f \in Exchange
  BY <1>2, ListenerTypes, FieldValues DEF Good, Exchange
<1>4. /\ f.conn = "gone" /\ f.counted = TRUE /\ f.heads = g.heads /\ f.head = g.head
      /\ f.completed = g.completed /\ f.upstream = g.upstream /\ f.message = g.message
      /\ f.filter = g.filter /\ f.sent = g.sent /\ f.timers = g.timers
      /\ f.res = DestroyResponse(g.res)
  BY <1>2 DEF Good, Exchange
<1>5. f.res = "ended" \/ f.res = "finished" => g.res = "finished"
  <2> HIDE DEF f
  <2> QED BY <1>4 DEF DestroyResponse
<1>a. g.heads = 0 => f.res = "destroyed"
  <2> HIDE DEF f
  <2> QED BY <1>2, <1>4 DEF Good, Sound, DestroyResponse
<1>6. Sound(f)
  <2> HIDE DEF f
  <2> QED BY <1>2, <1>4, <1>5, <1>a DEF Good, Sound
<1>7. Worth(f) = 0 /\ Worth(e) = StillActive(e) /\ StillActive(e) \in Int
  <2> HIDE DEF f
  <2> QED BY <1>1, <1>4 DEF Worth, StillActive
<1>8. CountersType' /\ counters'.activeRequests = counters.activeRequests - StillActive(e)
  BY <1>1, <1>7 DEF Step, State, CountersType
<1> HIDE DEF f
<1>9. counters'.activeRequests = counters.activeRequests + Worth(f) - Worth(e)
  BY <1>7, <1>8 DEF State, CountersType
<1> QED BY <1>1, <1>3, <1>4, <1>6, <1>8, <1>9 DEF Effect, Good, Step

LEMMA ConnectEffect ==
    ASSUME State, NEW q \in Requests, Connect(q)
    PROVE  \E f : Effect(q, f)
<1> DEFINE e == ex[q]
           f == [e EXCEPT !.upstream = "waiting", !.timers = @ \ {"connect"}]
<1>1. Good(e) /\ e.upstream = "connecting" /\ Step(q, f, counters)
  BY DEF State, AllGood, Connect
<1>2. e.conn # "none" /\ e.timers \ {"connect"} \in TimerSets
  <2>1. e.conn # "none"
    BY <1>1 DEF Good, Sound, NewExchange
  <2>2. e.timers \in TimerSets
    BY <1>1 DEF Good, Exchange
  <2> QED BY <2>1, <2>2, FieldValues
<1>3. f \in Exchange
  BY <1>1, <1>2, FieldValues DEF Good, Exchange
<1>4. /\ f.conn = e.conn /\ f.counted = e.counted /\ f.heads = e.heads /\ f.head = e.head
      /\ f.completed = e.completed /\ f.upstream = "waiting" /\ f.message = e.message
      /\ f.filter = e.filter /\ f.sent = e.sent /\ f.res = e.res
  BY <1>1 DEF Good, Exchange
<1>5. Sound(f)
  <2> HIDE DEF f
  <2> QED BY <1>1, <1>2, <1>4 DEF Good, Sound, OpenUpstream
<1>6. CountersType'
  BY <1>1 DEF Step, State, CountersType
<1> HIDE DEF f
<1> QED BY <1>1, <1>2, <1>3, <1>4, <1>5, <1>6, QuietEffect DEF Good

\* The first bytes of a response, whichever way it will travel.
LEMMA RespondEffect ==
    ASSUME State, NEW q \in Requests, RespondPiped(q) \/ RespondEligible(q)
    PROVE  \E f : Effect(q, f)
<1> DEFINE e == ex[q]
           piped == [e EXCEPT !.upstream = "responding", !.message = "flowing",
                              !.timers = @ \ {"response"}, !.filter = "piped",
                              !.heads = @ + 1, !.head = "original"]
           held == [e EXCEPT !.upstream = "responding", !.message = "flowing",
                             !.timers = @ \ {"response"}, !.filter = "buffering"]
<1>1. Good(e) /\ e.upstream = "waiting"
  BY DEF State, AllGood, RespondPiped, RespondEligible
<1>2. /\ e.conn # "none" /\ e.heads = 0 /\ ~e.completed /\ e.head = "none"
      /\ e.res \in {"open", "destroyed"} /\ e.timers \ {"response"} \in TimerSets
  <2>1. /\ e.conn # "none" /\ e.heads = 0 /\ ~e.completed /\ e.head = "none"
        /\ e.res \in {"open", "destroyed"}
    BY <1>1 DEF Good, Sound, NewExchange, OpenUpstream
  <2>2. e.timers \in TimerSets
    BY <1>1 DEF Good, Exchange
  <2> QED BY <2>1, <2>2, FieldValues
<1>3. CASE RespondPiped(q)
  <2>1. Step(q, piped, [counters EXCEPT !.injectionSkipped = @ + 1])
    BY <1>3 DEF RespondPiped
  <2>2. piped \in Exchange
    <3>1. piped = [e EXCEPT !.upstream = "responding", !.message = "flowing",
                            !.timers = @ \ {"response"}, !.filter = "piped",
                            !.heads = 1, !.head = "original"]
      BY <1>2
    <3>2. "original" \in Heads
      BY FieldValues
    <3> HIDE DEF piped
    <3> QED BY <1>1, <1>2, <3>1, <3>2, FieldValues DEF Good, Exchange
  <2>3. /\ piped.conn = e.conn /\ piped.counted = e.counted /\ piped.heads = 1
        /\ piped.head = "original" /\ piped.completed = FALSE
        /\ piped.upstream = "responding" /\ piped.message = "flowing"
        /\ piped.filter = "piped" /\ piped.res = e.res
    BY <1>1, <1>2 DEF Good, Exchange
  <2>4. Sound(piped)
    <3> HIDE DEF piped
    <3> QED BY <1>2, <2>3 DEF Sound
  <2>5. /\ CountersType'
        /\ [counters EXCEPT !.injectionSkipped = @ + 1].activeRequests = counters.activeRequests
    BY <2>1 DEF Step, State, CountersType
  <2> HIDE DEF piped
  <2> QED BY <1>2, <2>1, <2>2, <2>3, <2>4, <2>5, QuietEffect DEF Good
<1>4. CASE RespondEligible(q)
  <2>1. Step(q, held, counters)
    BY <1>4 DEF RespondEligible
  <2>2. held \in Exchange
    BY <1>1, <1>2, FieldValues DEF Good, Exchange
  <2>3. /\ held.conn = e.conn /\ held.counted = e.counted /\ held.heads = 0
        /\ held.head = "none" /\ held.completed = FALSE
        /\ held.upstream = "responding" /\ held.message = "flowing"
        /\ held.filter = "buffering" /\ held.res = e.res
    BY <1>1, <1>2 DEF Good, Exchange
  <2>4. Sound(held)
    <3> HIDE DEF held
    <3> QED BY <1>2, <2>3 DEF Sound
  <2>5. CountersType'
    BY <2>1 DEF Step, State, CountersType
  <2> HIDE DEF held
  <2> QED BY <1>2, <2>1, <2>2, <2>3, <2>4, <2>5, QuietEffect DEF Good
<1> QED BY <1>3, <1>4

\* The three events of a response that is passed on as it is.
LEMMA PassOnEffect ==
    ASSUME State, NEW q \in Requests, Overflow(q) \/ Complete(q) \/ PipeEnds(q)
    PROVE  \E f : Effect(q, f)
<1> DEFINE e == ex[q]
<1>1. Good(e) /\ e.conn # "none" /\ e.filter \in {"buffering", "piped", "passthrough"}
  BY DEF State, AllGood, Overflow, Complete, PipeEnds, Good, Sound, NewExchange
<1>2. CASE Overflow(q)
  <2> DEFINE f == [e EXCEPT !.heads = 1, !.head = "original", !.filter = "passthrough"]
             c == [counters EXCEPT !.injectionSkipped = @ + 1]
  <2>1. e.heads = 0 /\ e.upstream = "responding" /\ e.res \in {"open", "destroyed"}
    BY <1>1, <1>2 DEF Overflow, Good, Sound
  <2>2. Step(q, f, c)
    BY <1>2, <2>1 DEF Overflow, HeadOnce
  <2>3. f \in Exchange
    BY <1>1, FieldValues DEF Good, Exchange
  <2>4. /\ f.conn = e.conn /\ f.counted = e.counted /\ f.heads = 1
        /\ f.head = "original" /\ f.completed = e.completed
        /\ f.upstream = "responding" /\ f.filter = "passthrough" /\ f.res = e.res
    BY <1>1, <2>1 DEF Good, Exchange
  <2>5. Sound(f)
    <3> HIDE DEF f
    <3> QED BY <1>1, <2>1, <2>4 DEF Good, Sound
  <2>6. CountersType' /\ c.activeRequests = counters.activeRequests
    BY <2>2 DEF Step, State, CountersType
  <2> HIDE DEF f, c
  <2> QED BY <1>1, <2>2, <2>3, <2>4, <2>5, <2>6, QuietEffect DEF Good
<1>3. CASE Complete(q)
  <2> DEFINE f == [e EXCEPT !.message = "complete"]
  <2>1. /\ Step(q, f, counters) /\ CountersType' /\ e.message = "flowing"
        /\ e.upstream = "responding"
    BY <1>3 DEF Complete, Step, State, CountersType
  <2>2. f \in Exchange
    BY <1>1, FieldValues DEF Good, Exchange
  <2>3. /\ f.conn = e.conn /\ f.counted = e.counted /\ f.heads = e.heads
        /\ f.head = e.head /\ f.completed = e.completed /\ f.message = "complete"
        /\ f.upstream = e.upstream /\ f.filter = e.filter /\ f.res = e.res
        /\ f.sent = e.sent
    BY <1>1 DEF Good, Exchange
  <2>4. Sound(f)
    <3> HIDE DEF f
    <3> QED BY <1>1, <2>1, <2>3 DEF Good, Sound
  <2> HIDE DEF f
  <2> QED BY <1>1, <2>1, <2>2, <2>3, <2>4, QuietEffect DEF Good
<1>4. CASE PipeEnds(q)
  <2> DEFINE f == [e EXCEPT !.res = "ended", !.sent = "original", !.upstream = Destroy(@)]
  <2>1. /\ Step(q, f, counters) /\ CountersType' /\ e.message = "complete"
        /\ e.filter \in {"piped", "passthrough"}
    BY <1>4 DEF PipeEnds, Step, State, CountersType
  <2>2. f \in Exchange
    BY <1>1, ListenerTypes, FieldValues DEF Good, Exchange
  <2>3. /\ f.conn = e.conn /\ f.counted = e.counted /\ f.heads = e.heads
        /\ f.head = e.head /\ f.completed = e.completed /\ f.message = "complete"
        /\ f.upstream = Destroy(e.upstream) /\ f.filter = e.filter /\ f.res = "ended"
        /\ f.sent = "original" /\ f.timers = e.timers
    BY <1>1, <2>1 DEF Good, Exchange
  <2>4. e.head = "original" /\ e.heads # 0 /\ e.upstream \notin {"none", "connecting", "waiting"}
    BY <1>1, <2>1 DEF Good, Sound
  <2>5. f.upstream \notin {"none", "connecting", "waiting", "responding"}
    <3> HIDE DEF f
    <3> QED BY <2>3, <2>4 DEF Destroy, OpenUpstream
  <2>6. Sound(f)
    <3> HIDE DEF f
    <3> QED BY <1>1, <2>1, <2>3, <2>4, <2>5 DEF Good, Sound, OpenUpstream
  <2> HIDE DEF f
  <2> QED BY <1>1, <2>1, <2>2, <2>3, <2>6, QuietEffect DEF Good
<1> QED BY <1>2, <1>3, <1>4

-----------------------------------------------------------------------------
(***************************************************************************)
(* The inductive invariant: good exchanges and an exact count.             *)
(***************************************************************************)
Inv == State /\ ActiveRequestsExact

LEMMA NextEffect ==
    ASSUME State, Next
    PROVE  \E q \in Requests : \E f : Effect(q, f)
<1>1. PICK q \in Requests : Visitor(q) \/ Upstream(q) \/ Response(q)
  BY DEF Next
<1>2. CASE Visitor(q)
  BY <1>2, RefuseEffect, ForwardEffect, UploadEffect, FinishEffect, DisconnectEffect DEF Visitor
<1>3. CASE Upstream(q)
  <2>1. CASE Connect(q)
    BY <2>1, ConnectEffect
  <2>2. CASE Close(q) \/ HangUp(q)
    BY <2>2, CloseEffect
  <2>3. CASE UpstreamError(q) \/ IdleTimeout(q)
    BY <2>3, FailureEffect
  <2>4. CASE \E t \in {"connect", "response"} : Timeout(q, t)
    BY <2>4, FailureEffect
  <2> QED BY <1>3, <2>1, <2>2, <2>3, <2>4 DEF Upstream
<1>4. CASE Response(q)
  <2>1. CASE RespondPiped(q) \/ RespondEligible(q)
    BY <2>1, RespondEffect
  <2>2. CASE Overflow(q) \/ Complete(q) \/ PipeEnds(q)
    BY <2>2, PassOnEffect
  <2>3. CASE \E outcome \in {"unmodified", "applied", "error"} : Flush(q, outcome)
    BY <2>3, FlushEffect
  <2> QED BY <1>4, <2>1, <2>2, <2>3 DEF Response
<1> QED BY <1>1, <1>2, <1>3, <1>4

\* The set of unfinished requests gains or loses at most the one exchange.
LEMMA EffectCounts ==
    ASSUME Inv, NEW q \in Requests, NEW f, Effect(q, f)
    PROVE  Inv'
<1> DEFINE U == Unfinished
<1>1. /\ ex \in [Requests -> Exchange] /\ AllGood
      /\ counters.activeRequests = Cardinality(U)
      /\ Good(f) /\ f.conn # "none" /\ ex' = [ex EXCEPT ![q] = f]
      /\ counters'.activeRequests = counters.activeRequests + Worth(f) - Worth(ex[q])
  BY DEF Inv, State, Effect, ActiveRequestsExact
<1>2. State'
  BY <1>1 DEF State, AllGood, Effect, Good
<1>3. IsFiniteSet(U) /\ Cardinality(U) \in Nat
  <2>1. U \in SUBSET Requests
    BY DEF Unfinished, Received
  <2> QED BY <2>1, FS_Subset, FS_CardinalityType, RequestsAssumption
<1>4. q \in U <=> Worth(ex[q]) = 1
  BY DEF Unfinished, Received, Worth
<1>5. Worth(ex[q]) \in {0, 1} /\ Worth(f) \in {0, 1}
  BY DEF Worth
<1>6. CASE Worth(f) = 1
  <2>1. Unfinished' = U \cup {q}
    BY <1>1, <1>6 DEF Unfinished, Received, Worth
  <2>2. Cardinality(U \cup {q}) = IF q \in U THEN Cardinality(U) ELSE Cardinality(U) + 1
    BY <1>3, FS_AddElement
  <2> QED BY <1>1, <1>2, <1>3, <1>4, <1>5, <1>6, <2>1, <2>2 DEF Inv, ActiveRequestsExact
<1>7. CASE Worth(f) = 0
  <2>1. Unfinished' = U \ {q}
    BY <1>1, <1>7 DEF Unfinished, Received, Worth
  <2>2. Cardinality(U \ {q}) = IF q \in U THEN Cardinality(U) - 1 ELSE Cardinality(U)
    BY <1>3, FS_RemoveElement
  <2> QED BY <1>1, <1>2, <1>3, <1>4, <1>5, <1>7, <2>1, <2>2 DEF Inv, ActiveRequestsExact
<1> QED BY <1>5, <1>6, <1>7

LEMMA InitInv == Init => Inv
<1> SUFFICES ASSUME Init PROVE Inv
  OBVIOUS
<1>1. NewExchange \in Exchange
  BY DEF NewExchange, Exchange, ConnStates, BodyStates, ResStates, HeadCounts, Bodies, Heads,
         UpstreamStates, MessageStates, Filters, TimerSets
<1>2. Sound(NewExchange)
  BY DEF Sound, NewExchange, OpenUpstream
<1>3. Unfinished = {} /\ counters.activeRequests = 0
  BY DEF Init, Unfinished, Received, NewExchange, Zero
<1>4. State
  BY <1>1, <1>2 DEF Init, State, AllGood, Good, CountersType, Zero
<1> QED BY <1>3, <1>4, FS_EmptySet DEF Inv, ActiveRequestsExact

LEMMA StutterInv == Inv /\ UNCHANGED vars => Inv'
BY DEF Inv, State, AllGood, CountersType, ActiveRequestsExact, Unfinished, Received, vars

\* Every listener may rely on Inv, for any finite set of exchanges.
LEMMA Invariance == Spec => []Inv
<1>1. Inv /\ [Next]_vars => Inv'
  BY NextEffect, EffectCounts, StutterInv DEF Inv
<1> QED BY InitInv, <1>1, PTL DEF Spec

\* The active-request counter is exact at every moment: the listeners of
\* 'finish', 'close' and 'aborted' decrement it once per request.
THEOREM ActiveRequestsAreExact == Spec => []ActiveRequestsExact
<1>1. Inv => ActiveRequestsExact
  BY DEF Inv
<1> QED BY Invariance, <1>1, PTL

\* The exchanges are sound in every state.
THEOREM RequestInvariant == Spec => []RequestInv
<1>1. Inv => RequestInv
  BY DEF Inv, State, AllGood, Good, RequestInv
<1> QED BY Invariance, <1>1, PTL

\* No exchange ever gets a second head.
THEOREM AtMostOneHead == Spec => []OneHead
<1>1. Inv => OneHead
  BY DEF Inv, State, AllGood, Good, Sound, OneHead
<1> QED BY Invariance, <1>1, PTL

\* A finished answer under the upstream's head is whole.
THEOREM AnswersAreWhole == Spec => []WholeAnswers
<1>1. Inv => WholeAnswers
  BY DEF Inv, State, AllGood, Good, Sound, WholeAnswers
<1> QED BY Invariance, <1>1, PTL

\* Types; the count of active requests is never negative.
THEOREM RequestTypes == Spec => []TypeOK
<1>1. ASSUME Inv PROVE TypeOK
  <2>1. IsFiniteSet(Unfinished)
    <3>1. Unfinished \in SUBSET Requests
      BY DEF Unfinished, Received
    <3> QED BY <3>1, FS_Subset, RequestsAssumption
  <2>2. counters.activeRequests \in Nat
    BY <1>1, <2>1, FS_CardinalityType DEF Inv, ActiveRequestsExact
  <2> QED BY <1>1, <2>2 DEF Inv, State, CountersType, TypeOK
<1> QED BY Invariance, <1>1, PTL

-----------------------------------------------------------------------------
(***************************************************************************)
(* The outcomes: every step moves the counters by what it does to the one  *)
(* exchange it is about.                                                   *)
(***************************************************************************)
Decided(e) == IF e.filter \in {"piped", "passthrough", "flushed"} THEN 1 ELSE 0

WasInterrupted(e) == IF e.interrupted THEN 1 ELSE 0

WasCompleted(e) == IF e.completed THEN 1 ELSE 0

Outcome(e, f) ==
    /\ counters'.injectionApplied + counters'.injectionSkipped
         = counters.injectionApplied + counters.injectionSkipped + Decided(f) - Decided(e)
    /\ counters'.injectionErrors + counters.injectionSkipped
         <= counters.injectionErrors + counters'.injectionSkipped
    /\ counters'.interruptedResponses
         = counters.interruptedResponses + WasInterrupted(f) - WasInterrupted(e)
    /\ counters'.upstreamErrors + WasCompleted(e) <= counters.upstreamErrors + WasCompleted(f)

OutcomeOf(q) == \E f : ex' = [ex EXCEPT ![q] = f] /\ Outcome(ex[q], f)

\* The counters of the outcomes that a step leaves alone.
LEMMA QuietOutcome ==
    ASSUME State, NEW e, NEW f,
           Decided(f) = Decided(e), WasInterrupted(f) = WasInterrupted(e),
           WasCompleted(f) >= WasCompleted(e),
           \A k \in {"injectionApplied", "injectionSkipped", "injectionErrors",
                     "interruptedResponses", "upstreamErrors"} : counters'[k] = counters[k]
    PROVE  Outcome(e, f)
<1>1. /\ counters.injectionApplied \in Nat /\ counters.injectionSkipped \in Nat
      /\ counters.injectionErrors \in Nat /\ counters.interruptedResponses \in Nat
      /\ counters.upstreamErrors \in Nat
  BY DEF State, CountersType
<1>2. WasCompleted(e) \in Int /\ WasCompleted(f) \in Int /\ Decided(e) \in Int /\ WasInterrupted(e) \in Int
  BY DEF WasCompleted, Decided, WasInterrupted
<1> QED BY <1>1, <1>2 DEF Outcome

\* The visitor's events decide nothing.
LEMMA VisitorOutcome ==
    ASSUME State, NEW q \in Requests,
           Refuse(q) \/ Forward(q) \/ UploadEnds(q) \/ Finish(q) \/ Disconnect(q)
    PROVE  OutcomeOf(q)
<1> DEFINE e == ex[q]
<1>1. e \in Exchange
  BY DEF State
<1>2. \A k \in {"injectionApplied", "injectionSkipped", "injectionErrors",
                "interruptedResponses", "upstreamErrors"} : counters'[k] = counters[k]
  BY DEF State, CountersType, Refuse, Forward, UploadEnds, Finish, Disconnect, Step
<1>3. PICK f : /\ ex' = [ex EXCEPT ![q] = f] /\ f.filter = e.filter
               /\ f.interrupted = e.interrupted /\ (e.completed => f.completed)
  <2>1. CASE Refuse(q)
    <3> DEFINE f == [HeadOnce(e, "refused") EXCEPT !.conn = "open", !.res = "ended"]
    <3>1. f.filter = e.filter /\ f.interrupted = e.interrupted /\ f.completed = e.completed
      BY <1>1 DEF HeadOnce, Exchange
    <3>2. ex' = [ex EXCEPT ![q] = f]
      BY <2>1 DEF Refuse, Step
    <3> HIDE DEF f
    <3> QED BY <3>1, <3>2
  <2>2. CASE Forward(q)
    <3> DEFINE f == [e EXCEPT !.conn = "open", !.upstream = "connecting", !.timers = {"connect", "response"}]
    <3>1. f.filter = e.filter /\ f.interrupted = e.interrupted /\ f.completed = e.completed
      BY <1>1 DEF Exchange
    <3>2. ex' = [ex EXCEPT ![q] = f]
      BY <2>2 DEF Forward, Step
    <3> HIDE DEF f
    <3> QED BY <3>1, <3>2
  <2>3. CASE UploadEnds(q)
    <3> DEFINE f == [e EXCEPT !.body = "sent"]
    <3>1. f.filter = e.filter /\ f.interrupted = e.interrupted /\ f.completed = e.completed
      BY <1>1 DEF Exchange
    <3>2. ex' = [ex EXCEPT ![q] = f]
      BY <2>3 DEF UploadEnds, Step
    <3> HIDE DEF f
    <3> QED BY <3>1, <3>2
  <2>4. CASE Finish(q)
    <3> DEFINE f == [e EXCEPT !.res = "finished", !.counted = TRUE]
    <3>1. f.filter = e.filter /\ f.interrupted = e.interrupted /\ f.completed = e.completed
      BY <1>1 DEF Exchange
    <3>2. ex' = [ex EXCEPT ![q] = f]
      BY <2>4 DEF Finish, Step
    <3> HIDE DEF f
    <3> QED BY <3>1, <3>2
  <2>5. CASE Disconnect(q)
    <3> DEFINE g == IF e.res = "finished" THEN e ELSE Aborted(e)
               f == [g EXCEPT !.conn = "gone", !.res = DestroyResponse(@), !.counted = TRUE]
    <3>1. /\ g \in Exchange /\ g.filter = e.filter /\ g.interrupted = e.interrupted
          /\ (e.completed => g.completed)
      <4>1. CASE e.upstream # "none" /\ e.body # "sent"
        <5>1. Aborted(e) = [e EXCEPT !.completed = TRUE, !.upstream = Destroy(@)]
          BY <4>1 DEF Aborted
        <5>2. Aborted(e) \in Exchange
          BY <1>1, <5>1, ListenerTypes DEF Exchange
        <5> QED BY <1>1, <5>1, <5>2 DEF Exchange
      <4>2. CASE ~(e.upstream # "none" /\ e.body # "sent")
        BY <1>1, <4>2 DEF Aborted
      <4> QED BY <4>1, <4>2
    <3> HIDE DEF g
    <3>2. f.filter = g.filter /\ f.interrupted = g.interrupted /\ f.completed = g.completed
      BY <3>1 DEF Exchange
    <3>3. ex' = [ex EXCEPT ![q] = f]
      BY <2>5 DEF Disconnect, Step, g
    <3> HIDE DEF f
    <3> QED BY <3>1, <3>2, <3>3
  <2> QED BY <2>1, <2>2, <2>3, <2>4, <2>5
<1>4. Decided(f) = Decided(e) /\ WasInterrupted(f) = WasInterrupted(e) /\ WasCompleted(f) >= WasCompleted(e)
  BY <1>3 DEF Decided, WasInterrupted, WasCompleted
<1> QED BY <1>2, <1>3, <1>4, QuietOutcome DEF OutcomeOf

\* fail counts an exchange that is not completed, and completes it.
LEMMA FailureOutcome ==
    ASSUME State, NEW q \in Requests, NEW t \in {"connect", "response"},
           UploadTooLarge(q) \/ UpstreamError(q) \/ Timeout(q, t) \/ IdleTimeout(q)
    PROVE  OutcomeOf(q)
<1> DEFINE e == ex[q]
           g == Failed(e)
<1>1. Good(e) /\ e \in Exchange /\ e.upstream # "none" /\ e.conn # "none"
  <2>1. Good(e) /\ e \in Exchange
    BY DEF State, AllGood, Good
  <2>2. e.upstream # "none"
    BY <2>1 DEF UploadTooLarge, UpstreamError, Timeout, IdleTimeout, OpenUpstream, Good, Sound
  <2> QED BY <2>1, <2>2 DEF Good, Sound, NewExchange
<1>2. g \in Exchange /\ g.completed /\ g.filter = e.filter /\ g.interrupted = e.interrupted
  <2>1. g \in Exchange /\ g.completed
    BY <1>1, FailedGood DEF Good
  <2>2. g.filter = e.filter /\ g.interrupted = e.interrupted
    BY <1>1 DEF Failed, HeadOnce, Exchange
  <2> QED BY <2>1, <2>2
<1>3. counters' = [counters EXCEPT !.upstreamErrors = @ + FailureCount(e)]
  BY DEF UploadTooLarge, UpstreamError, Timeout, IdleTimeout, Step
<1> HIDE DEF g
<1>4. PICK f : /\ ex' = [ex EXCEPT ![q] = f] /\ f.filter = e.filter
               /\ f.interrupted = e.interrupted /\ f.completed
  <2>1. CASE UploadTooLarge(q)
    <3> DEFINE f == [g EXCEPT !.body = "over"]
    <3>1. f.filter = e.filter /\ f.interrupted = e.interrupted /\ f.completed
      BY <1>2 DEF Exchange
    <3>2. ex' = [ex EXCEPT ![q] = f]
      BY <2>1 DEF UploadTooLarge, Step, g
    <3> HIDE DEF f
    <3> QED BY <3>1, <3>2
  <2>2. CASE UpstreamError(q)
    <3> DEFINE f == [g EXCEPT !.timers = {}]
    <3>1. f.filter = e.filter /\ f.interrupted = e.interrupted /\ f.completed
      BY <1>2 DEF Exchange
    <3>2. ex' = [ex EXCEPT ![q] = f]
      BY <2>2 DEF UpstreamError, Step, g
    <3> HIDE DEF f
    <3> QED BY <3>1, <3>2
  <2>3. CASE Timeout(q, t)
    <3> DEFINE f == [g EXCEPT !.timers = @ \ {t}]
    <3>1. f.filter = e.filter /\ f.interrupted = e.interrupted /\ f.completed
      BY <1>2 DEF Exchange
    <3>2. ex' = [ex EXCEPT ![q] = f]
      BY <2>3 DEF Timeout, Step, g
    <3> HIDE DEF f
    <3> QED BY <3>1, <3>2
  <2>4. CASE IdleTimeout(q)
    BY <1>2, <2>4 DEF IdleTimeout, Step, g
  <2> QED BY <2>1, <2>2, <2>3, <2>4
<1>5. /\ Decided(f) = Decided(e) /\ WasInterrupted(f) = WasInterrupted(e)
      /\ WasCompleted(f) = 1 /\ WasCompleted(e) + FailureCount(e) = 1
      /\ Decided(e) \in Int /\ WasInterrupted(e) \in Int /\ WasCompleted(e) \in Int
      /\ FailureCount(e) \in Nat
  BY <1>4 DEF Decided, WasInterrupted, WasCompleted, FailureCount
<1>6. /\ counters'.upstreamErrors = counters.upstreamErrors + FailureCount(e)
      /\ counters'.injectionApplied = counters.injectionApplied
      /\ counters'.injectionSkipped = counters.injectionSkipped
      /\ counters'.injectionErrors = counters.injectionErrors
      /\ counters'.interruptedResponses = counters.interruptedResponses
      /\ counters.injectionApplied \in Nat /\ counters.injectionSkipped \in Nat
      /\ counters.injectionErrors \in Nat /\ counters.interruptedResponses \in Nat
      /\ counters.upstreamErrors \in Nat
  BY <1>3 DEF State, CountersType
<1>7. Outcome(e, f)
  BY <1>5, <1>6 DEF Outcome
<1> QED BY <1>4, <1>7 DEF OutcomeOf

\* A cut response is marked interrupted with the count.
LEMMA CloseOutcome ==
    ASSUME State, NEW q \in Requests, Close(q) \/ HangUp(q)
    PROVE  OutcomeOf(q)
<1> DEFINE e == ex[q]
           f == Closed(e)
           n == IF IsCut(e) THEN 1 ELSE 0
<1>1. e \in Exchange
  BY DEF State
<1>2. ex' = [ex EXCEPT ![q] = f] /\ counters' = [counters EXCEPT !.interruptedResponses = @ + n]
  BY DEF Close, HangUp, Step
<1>3. f.filter = e.filter /\ f.completed /\ WasInterrupted(f) = WasInterrupted(e) + n
  <2>1. CASE IsCut(e)
    <3>1. Closed(e) = [e EXCEPT !.message = "cut", !.interrupted = TRUE, !.res = DestroyResponse(@),
                                !.upstream = "closed", !.completed = TRUE, !.timers = {}]
      BY <1>1, <2>1 DEF Closed, Interrupted, Exchange
    <3>2. f.filter = e.filter /\ f.completed /\ f.interrupted
      BY <1>1, <3>1 DEF Exchange
    <3> QED BY <2>1, <3>2 DEF WasInterrupted, IsCut
  <2>2. CASE ~IsCut(e)
    <3>1. f.filter = e.filter /\ f.completed /\ f.interrupted = e.interrupted
      BY <1>1, <2>2 DEF Closed, Exchange
    <3>2. WasInterrupted(f) = WasInterrupted(e) /\ n = 0 /\ WasInterrupted(e) \in Int
      BY <2>2, <3>1 DEF WasInterrupted
    <3> QED BY <3>1, <3>2
  <2> QED BY <2>1, <2>2
<1>4. n \in Nat
  OBVIOUS
<1> HIDE DEF f, n
<1>5. /\ counters'.interruptedResponses = counters.interruptedResponses + n
      /\ counters'.injectionApplied = counters.injectionApplied
      /\ counters'.injectionSkipped = counters.injectionSkipped
      /\ counters'.injectionErrors = counters.injectionErrors
      /\ counters'.upstreamErrors = counters.upstreamErrors
      /\ counters.injectionApplied \in Nat /\ counters.injectionSkipped \in Nat
      /\ counters.injectionErrors \in Nat /\ counters.interruptedResponses \in Nat
      /\ counters.upstreamErrors \in Nat
  BY <1>2, <1>4 DEF State, CountersType
<1>6. /\ Decided(f) = Decided(e) /\ WasCompleted(f) = 1 /\ WasCompleted(e) \in 0..1
      /\ Decided(e) \in Int /\ WasInterrupted(e) \in Int
  BY <1>3 DEF Decided, WasCompleted, WasInterrupted
<1>7. Outcome(e, f)
  BY <1>3, <1>4, <1>5, <1>6 DEF Outcome
<1> QED BY <1>2, <1>7 DEF OutcomeOf

\* A response is decided in one of three ways, and counted with it.
LEMMA DecisionOutcome ==
    ASSUME State, NEW q \in Requests, NEW outcome \in {"unmodified", "applied", "error"},
           RespondPiped(q) \/ Overflow(q) \/ Flush(q, outcome)
    PROVE  OutcomeOf(q)
<1> DEFINE e == ex[q]
<1>1. Good(e) /\ e \in Exchange /\ Decided(e) = 0
  BY DEF State, AllGood, Good, Sound, Decided, RespondPiped, Overflow, Flush
<1>2. PICK f : /\ ex' = [ex EXCEPT ![q] = f] /\ Decided(f) = 1
               /\ f.interrupted = e.interrupted /\ f.completed = e.completed
  <2>1. CASE RespondPiped(q)
    <3> DEFINE f == [e EXCEPT !.upstream = "responding", !.message = "flowing",
                              !.timers = @ \ {"response"}, !.filter = "piped",
                              !.heads = @ + 1, !.head = "original"]
    <3>1. f.filter = "piped" /\ f.interrupted = e.interrupted /\ f.completed = e.completed
      BY <1>1 DEF Exchange
    <3>2. ex' = [ex EXCEPT ![q] = f]
      BY <2>1 DEF RespondPiped, Step
    <3> HIDE DEF f
    <3> QED BY <3>1, <3>2 DEF Decided
  <2>2. CASE Overflow(q)
    <3> DEFINE f == [HeadOnce(e, "original") EXCEPT !.filter = "passthrough"]
    <3>1. f.filter = "passthrough" /\ f.interrupted = e.interrupted /\ f.completed = e.completed
      BY <1>1 DEF Exchange, HeadOnce
    <3>2. ex' = [ex EXCEPT ![q] = f]
      BY <2>2 DEF Overflow, Step
    <3> HIDE DEF f
    <3> QED BY <3>1, <3>2 DEF Decided
  <2>3. CASE Flush(q, outcome)
    <3> DEFINE body == IF outcome = "applied" THEN "transformed" ELSE "original"
               g == Flushed(e, outcome)
               f == [g EXCEPT !.filter = "flushed", !.message = "complete",
                              !.res = End(@), !.upstream = "closing"]
    <3>1. e.heads = 0
      BY <1>1, <2>3 DEF Good, Sound, Flush
    <3>2. g = [e EXCEPT !.heads = 1, !.head = body, !.sent = body]
      BY <1>1, <3>1 DEF Flushed, HeadOnce, Exchange
    <3>3. body \in Bodies /\ body \in Heads
      BY FieldValues
    <3> HIDE DEF body, g
    <3>4. g \in Exchange /\ g.interrupted = e.interrupted /\ g.completed = e.completed
      BY <1>1, <3>2, <3>3, FieldValues DEF Exchange
    <3>5. f.filter = "flushed" /\ f.interrupted = g.interrupted /\ f.completed = g.completed
      BY <3>4 DEF Exchange
    <3>6. ex' = [ex EXCEPT ![q] = f]
      BY <2>3 DEF Flush, Step, g
    <3> HIDE DEF f
    <3> QED BY <3>4, <3>5, <3>6 DEF Decided
  <2> QED BY <2>1, <2>2, <2>3
<1>3. /\ counters.injectionApplied \in Nat /\ counters.injectionSkipped \in Nat
      /\ counters.injectionErrors \in Nat /\ counters.interruptedResponses \in Nat
      /\ counters.upstreamErrors \in Nat
  BY DEF State, CountersType
<1>4. /\ counters'.injectionApplied + counters'.injectionSkipped
           = counters.injectionApplied + counters.injectionSkipped + 1
      /\ counters'.injectionErrors + counters.injectionSkipped
           <= counters.injectionErrors + counters'.injectionSkipped
      /\ counters'.interruptedResponses = counters.interruptedResponses
      /\ counters'.upstreamErrors = counters.upstreamErrors
  <2>1. CASE RespondPiped(q) \/ Overflow(q)
    <3>1. counters' = [counters EXCEPT !.injectionSkipped = @ + 1]
      BY <2>1 DEF RespondPiped, Overflow, Step
    <3>2. /\ counters'.injectionSkipped = counters.injectionSkipped + 1
          /\ counters'.injectionApplied = counters.injectionApplied
          /\ counters'.injectionErrors = counters.injectionErrors
          /\ counters'.interruptedResponses = counters.interruptedResponses
          /\ counters'.upstreamErrors = counters.upstreamErrors
      BY <3>1 DEF State, CountersType
    <3> QED BY <1>3, <3>2
  <2>2. CASE Flush(q, outcome)
    <3> DEFINE one == IF outcome = "applied" THEN 1 ELSE 0
               two == IF outcome = "applied" THEN 0 ELSE 1
               three == IF outcome = "error" THEN 1 ELSE 0
    <3>1. counters' = [counters EXCEPT !.injectionApplied = @ + one, !.injectionSkipped = @ + two,
                                       !.injectionErrors = @ + three]
      BY <2>2 DEF Flush, Step
    <3>2. one + two = 1 /\ three <= two /\ one \in Nat /\ two \in Nat /\ three \in Nat
      OBVIOUS
    <3> HIDE DEF one, two, three
    <3>3. /\ counters'.injectionSkipped = counters.injectionSkipped + two
          /\ counters'.injectionApplied = counters.injectionApplied + one
          /\ counters'.injectionErrors = counters.injectionErrors + three
          /\ counters'.interruptedResponses = counters.interruptedResponses
          /\ counters'.upstreamErrors = counters.upstreamErrors
      BY <3>1 DEF State, CountersType
    <3> QED BY <1>3, <3>2, <3>3
  <2> QED BY <2>1, <2>2
<1>5. /\ WasInterrupted(f) = WasInterrupted(e) /\ WasCompleted(f) = WasCompleted(e)
      /\ WasInterrupted(e) \in Int /\ WasCompleted(e) \in Int
  BY <1>2 DEF WasInterrupted, WasCompleted
<1>6. Outcome(e, f)
  BY <1>1, <1>2, <1>3, <1>4, <1>5 DEF Outcome
<1> QED BY <1>2, <1>6 DEF OutcomeOf

\* What is left decides nothing either.
LEMMA ResponseOutcome ==
    ASSUME State, NEW q \in Requests,
           Connect(q) \/ RespondEligible(q) \/ Complete(q) \/ PipeEnds(q)
    PROVE  OutcomeOf(q)
<1> DEFINE e == ex[q]
<1>1. Good(e) /\ e \in Exchange /\ counters' = counters
  BY DEF State, AllGood, Good, Connect, RespondEligible, Complete, PipeEnds, Step
<1>2. PICK f : /\ ex' = [ex EXCEPT ![q] = f] /\ Decided(f) = Decided(e)
               /\ f.interrupted = e.interrupted /\ f.completed = e.completed
  <2>1. CASE Connect(q)
    <3> DEFINE f == [e EXCEPT !.upstream = "waiting", !.timers = @ \ {"connect"}]
    <3>1. f.filter = e.filter /\ f.interrupted = e.interrupted /\ f.completed = e.completed
      BY <1>1 DEF Exchange
    <3>2. ex' = [ex EXCEPT ![q] = f]
      BY <2>1 DEF Connect, Step
    <3> HIDE DEF f
    <3> QED BY <3>1, <3>2 DEF Decided
  <2>2. CASE RespondEligible(q)
    <3> DEFINE f == [e EXCEPT !.upstream = "responding", !.message = "flowing",
                              !.timers = @ \ {"response"}, !.filter = "buffering"]
    <3>1. f.filter = "buffering" /\ f.interrupted = e.interrupted /\ f.completed = e.completed
      BY <1>1 DEF Exchange
    <3>2. ex' = [ex EXCEPT ![q] = f]
      BY <2>2 DEF RespondEligible, Step
    <3>3. e.filter = "none"
      BY <1>1, <2>2 DEF RespondEligible, Good, Sound
    <3> HIDE DEF f
    <3> QED BY <3>1, <3>2, <3>3 DEF Decided
  <2>3. CASE Complete(q)
    <3> DEFINE f == [e EXCEPT !.message = "complete"]
    <3>1. f.filter = e.filter /\ f.interrupted = e.interrupted /\ f.completed = e.completed
      BY <1>1 DEF Exchange
    <3>2. ex' = [ex EXCEPT ![q] = f]
      BY <2>3 DEF Complete, Step
    <3> HIDE DEF f
    <3> QED BY <3>1, <3>2 DEF Decided
  <2>4. CASE PipeEnds(q)
    <3> DEFINE f == [e EXCEPT !.res = "ended", !.sent = "original", !.upstream = Destroy(@)]
    <3>1. f.filter = e.filter /\ f.interrupted = e.interrupted /\ f.completed = e.completed
      BY <1>1 DEF Exchange
    <3>2. ex' = [ex EXCEPT ![q] = f]
      BY <2>4 DEF PipeEnds, Step
    <3> HIDE DEF f
    <3> QED BY <3>1, <3>2 DEF Decided
  <2> QED BY <2>1, <2>2, <2>3, <2>4
<1>3. WasInterrupted(f) = WasInterrupted(e) /\ WasCompleted(f) = WasCompleted(e) /\ WasCompleted(e) \in Int
  BY <1>2 DEF WasInterrupted, WasCompleted
<1>4. \A k \in {"injectionApplied", "injectionSkipped", "injectionErrors",
                "interruptedResponses", "upstreamErrors"} : counters'[k] = counters[k]
  BY <1>1
<1>5. WasCompleted(f) >= WasCompleted(e)
  BY <1>3
<1>6. Outcome(e, f)
  BY <1>2, <1>3, <1>4, <1>5, QuietOutcome
<1> QED BY <1>2, <1>6 DEF OutcomeOf

\* One exchange changes, and a class of exchanges with it by as much.
LEMMA ClassStep ==
    ASSUME NEW A \in SUBSET Requests, NEW B \in SUBSET Requests, NEW q \in Requests,
           A \ {q} = B \ {q}
    PROVE  /\ Cardinality(A) \in Nat /\ Cardinality(B) \in Nat
           /\ Cardinality(B) = Cardinality(A) + (IF q \in B THEN 1 ELSE 0) - (IF q \in A THEN 1 ELSE 0)
<1>1. IsFiniteSet(A) /\ IsFiniteSet(B)
  BY FS_Subset, RequestsAssumption
<1>2. Cardinality(A) \in Nat /\ Cardinality(B) \in Nat
  BY <1>1, FS_CardinalityType
<1>3. /\ Cardinality(A \ {q}) = IF q \in A THEN Cardinality(A) - 1 ELSE Cardinality(A)
      /\ Cardinality(B \ {q}) = IF q \in B THEN Cardinality(B) - 1 ELSE Cardinality(B)
  BY <1>1, FS_RemoveElement
<1> QED BY <1>2, <1>3

LEMMA OutcomeStep ==
    ASSUME State, State', OutcomesCountedOnce, NEW q \in Requests, OutcomeOf(q)
    PROVE  OutcomesCountedOnce'
<1> DEFINE D == {r \in Requests : ex[r].filter \in {"piped", "passthrough", "flushed"}}
           I == {r \in Requests : ex[r].interrupted}
           C == {r \in Requests : ex[r].completed}
<1>1. PICK f : ex' = [ex EXCEPT ![q] = f] /\ Outcome(ex[q], f)
  BY DEF OutcomeOf
<1>2. ex'[q] = f /\ \A r \in Requests \ {q} : ex'[r] = ex[r]
  BY <1>1 DEF State
<1>3. D \ {q} = D' \ {q} /\ I \ {q} = I' \ {q} /\ C \ {q} = C' \ {q}
  <2>1. D \ {q} = D' \ {q}
    BY <1>2
  <2>2. I \ {q} = I' \ {q}
    BY <1>2
  <2>3. C \ {q} = C' \ {q}
    BY <1>2
  <2> QED BY <2>1, <2>2, <2>3
<1>4. /\ D \in SUBSET Requests /\ I \in SUBSET Requests /\ C \in SUBSET Requests
      /\ D' \in SUBSET Requests /\ I' \in SUBSET Requests /\ C' \in SUBSET Requests
  OBVIOUS
<1>5. /\ (IF q \in D THEN 1 ELSE 0) = Decided(ex[q]) /\ (IF q \in D' THEN 1 ELSE 0) = Decided(f)
      /\ (IF q \in I THEN 1 ELSE 0) = WasInterrupted(ex[q]) /\ (IF q \in I' THEN 1 ELSE 0) = WasInterrupted(f)
      /\ (IF q \in C THEN 1 ELSE 0) = WasCompleted(ex[q]) /\ (IF q \in C' THEN 1 ELSE 0) = WasCompleted(f)
  BY <1>2 DEF Decided, WasInterrupted, WasCompleted
<1> HIDE DEF D, I, C
<1>6. /\ Cardinality(D') = Cardinality(D) + Decided(f) - Decided(ex[q])
      /\ Cardinality(D) \in Nat /\ Cardinality(D') \in Nat
  BY <1>3, <1>4, <1>5, ClassStep
<1>7. /\ Cardinality(I') = Cardinality(I) + WasInterrupted(f) - WasInterrupted(ex[q])
      /\ Cardinality(I) \in Nat /\ Cardinality(I') \in Nat
  BY <1>3, <1>4, <1>5, ClassStep
<1>8. /\ Cardinality(C') = Cardinality(C) + WasCompleted(f) - WasCompleted(ex[q])
      /\ Cardinality(C) \in Nat /\ Cardinality(C') \in Nat
  BY <1>3, <1>4, <1>5, ClassStep
<1>9. /\ counters.injectionApplied + counters.injectionSkipped = Cardinality(D)
      /\ counters.injectionErrors <= counters.injectionSkipped
      /\ counters.interruptedResponses = Cardinality(I)
      /\ counters.upstreamErrors <= Cardinality(C)
  BY DEF OutcomesCountedOnce, D, I, C
<1>10. /\ counters.injectionApplied \in Nat /\ counters.injectionSkipped \in Nat
       /\ counters.injectionErrors \in Nat /\ counters.interruptedResponses \in Nat
       /\ counters.upstreamErrors \in Nat
       /\ counters'.injectionApplied \in Nat /\ counters'.injectionSkipped \in Nat
       /\ counters'.injectionErrors \in Nat /\ counters'.interruptedResponses \in Nat
       /\ counters'.upstreamErrors \in Nat
  BY DEF State, CountersType
<1>11. /\ WasCompleted(f) \in Int /\ WasCompleted(ex[q]) \in Int
       /\ Decided(f) \in Int /\ Decided(ex[q]) \in Int
       /\ WasInterrupted(f) \in Int /\ WasInterrupted(ex[q]) \in Int
  BY DEF WasCompleted, Decided, WasInterrupted
<1>12. /\ counters'.injectionApplied + counters'.injectionSkipped = Cardinality(D')
       /\ counters'.injectionErrors <= counters'.injectionSkipped
       /\ counters'.interruptedResponses = Cardinality(I')
       /\ counters'.upstreamErrors <= Cardinality(C')
  BY <1>1, <1>6, <1>7, <1>8, <1>9, <1>10, <1>11 DEF Outcome
<1> QED BY <1>12 DEF OutcomesCountedOnce, D, I, C

LEMMA NextOutcome ==
    ASSUME State, Next
    PROVE  \E q \in Requests : OutcomeOf(q)
<1>1. PICK q \in Requests : Visitor(q) \/ Upstream(q) \/ Response(q)
  BY DEF Next
<1>2. CASE Visitor(q)
  BY <1>2, VisitorOutcome, FailureOutcome DEF Visitor
<1>3. CASE Upstream(q)
  BY <1>3, ResponseOutcome, FailureOutcome, CloseOutcome DEF Upstream
<1>4. CASE Response(q)
  BY <1>4, ResponseOutcome, DecisionOutcome DEF Response
<1> QED BY <1>1, <1>2, <1>3, <1>4

\* Every response is counted as applied or skipped once, every interruption
\* once, and no exchange fails twice.
THEOREM OutcomesAreCountedOnce == Spec => []OutcomesCountedOnce
<1>1. Init => OutcomesCountedOnce
  <2> SUFFICES ASSUME Init PROVE OutcomesCountedOnce
    OBVIOUS
  <2> DEFINE D == {q \in Requests : ex[q].filter \in {"piped", "passthrough", "flushed"}}
             I == {q \in Requests : ex[q].interrupted}
             C == {q \in Requests : ex[q].completed}
  <2>1. D = {} /\ I = {} /\ C = {}
    BY DEF Init, NewExchange
  <2>2. /\ counters.injectionApplied = 0 /\ counters.injectionSkipped = 0
        /\ counters.injectionErrors = 0 /\ counters.interruptedResponses = 0
        /\ counters.upstreamErrors = 0
    BY DEF Init, Zero
  <2> HIDE DEF D, I, C
  <2>3. /\ counters.injectionApplied + counters.injectionSkipped = Cardinality(D)
        /\ counters.injectionErrors <= counters.injectionSkipped
        /\ counters.interruptedResponses = Cardinality(I)
        /\ counters.upstreamErrors <= Cardinality(C)
    BY <2>1, <2>2, FS_EmptySet
  <2> QED BY <2>3 DEF OutcomesCountedOnce, D, I, C
<1>2. ASSUME State, State', OutcomesCountedOnce, [Next]_vars
      PROVE  OutcomesCountedOnce'
  <2>1. CASE UNCHANGED vars
    BY <1>2, <2>1 DEF vars, OutcomesCountedOnce
  <2>2. CASE Next
    BY <1>2, <2>2, NextOutcome, OutcomeStep
  <2> QED BY <1>2, <2>1, <2>2
<1>3. Inv => State
  BY DEF Inv
<1> QED BY <1>1, <1>2, <1>3, Invariance, PTL DEF Spec

=============================================================================
