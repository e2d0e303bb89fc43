\* Two overlapping exchanges; the exchanges share only the counters; liveness, so no symmetry.
CONSTANT Requests = {q1, q2}
SPECIFICATION FairSpec
INVARIANT RequestInv
INVARIANT ActiveRequestsExact
INVARIANT OutcomesCountedOnce
INVARIANT WholeAnswers
PROPERTY UpstreamReleased
PROPERTY RequestEnds
\* Every exchange comes to its end.
CHECK_DEADLOCK FALSE
