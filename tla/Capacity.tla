------------------------------ MODULE Capacity ------------------------------
(***************************************************************************)
(* The capacity pools of scheduler/scheduler.go, as functions on a record  *)
(*   used  how much of each pool is granted: pendingQuota.requests and     *)
(*         .bytes, upstreamPool.usedGeneral and .usedReserve, and .active  *)
(*         of the three fifoLimiters                                       *)
(*   line  the waiter list of each queue; the upstream pool has one queue  *)
(*         per lane                                                        *)
(*   rq    the requests; only their fields granted (the pool that granted  *)
(*         the waiter they wait on) and want (the bytes of a quotaWaiter)  *)
(*         matter here                                                     *)
(* Every function is one critical section of the pool's mutex.             *)
(***************************************************************************)
EXTENDS Naturals, Sequences, FiniteSets, FiniteSetsExt, Functions

CONSTANTS Reqs,          \* requests
          Interactive,   \* the ones of the interactive listener
          Capacity       \* the capacity of each pool

Limiters == {"classification", "transform", "delivery"}

Pools == Limiters \cup {"request", "bytes", "general", "reserved"}

Lines == Limiters \cup {"request", "bytes", "general", "interactive"}

\* Limits.validate: every capacity is positive. A caller of the interactive
\* listener is a caller.
ASSUME CapacityAssumption == /\ IsFiniteSet(Reqs)
                             /\ Capacity \in [Pools -> Nat \ {0}]
                             /\ Interactive \subseteq Reqs

UpstreamLine(r) == IF r \in Interactive THEN "interactive" ELSE "general"

WantOf(rq, S) == MapThenSumSet(LAMBDA r : rq[r].want, S)

\* The first n waiters of line l receive a permit of pool g and leave the line.
Grant(s, l, g, n) ==
  LET first == Range(SubSeq(s.line[l], 1, n))
      cost  == IF g = "bytes" THEN WantOf(s.rq, first) ELSE n
  IN  [used |-> [s.used EXCEPT ![g] = @ + cost],
       line |-> [s.line EXCEPT ![l] = SubSeq(@, n + 1, Len(@))],
       rq   |-> [r \in Reqs |-> IF r \in first THEN [s.rq[r] EXCEPT !.granted = g]
                                ELSE s.rq[r]]]

\* How many waiters of line l the loop "while a permit of g is free" serves.
Servable(s, l, g) ==
  IF s.used[g] >= Capacity[g] THEN 0
  ELSE Min({Capacity[g] - s.used[g], Len(s.line[l])})

\* fifoLimiter.dispatchLocked.
DispatchLimiter(s, g) == Grant(s, g, g, Servable(s, g, g))

\* The longest prefix of the byte waiters that fits: the loop stops at the first
\* waiter that does not, whatever waits behind it.
FittingPrefix(s) ==
  LET Cost(n) == WantOf(s.rq, Range(SubSeq(s.line["bytes"], 1, n)))
  IN  Max({n \in 0 .. Len(s.line["bytes"]) :
             n > 0 => s.used["bytes"] + Cost(n) <= Capacity["bytes"]})

\* pendingQuota.dispatchLocked.
DispatchPending(s) ==
  LET t == Grant(s, "request", "request", Servable(s, "request", "request"))
  IN  Grant(t, "bytes", "bytes", FittingPrefix(t))

\* Mutant: the general lane may take reserved permits as well.
DispatchUpstreamShared(s) ==
  LET t == Grant(s, "interactive", "reserved", Servable(s, "interactive", "reserved"))
      u == Grant(t, "general", "reserved", Servable(t, "general", "reserved"))
      v == Grant(u, "general", "general", Servable(u, "general", "general"))
  IN  Grant(v, "interactive", "general", Servable(v, "interactive", "general"))

\* upstreamPool.dispatchLocked: interactive waiters take the reserved permits,
\* general waiters the general ones, and interactive waiters borrow what the
\* general lane leaves.
DispatchUpstream(s) ==
  LET t == Grant(s, "interactive", "reserved", Servable(s, "interactive", "reserved"))
      u == Grant(t, "general", "general", Servable(t, "general", "general"))
  IN  Grant(u, "interactive", "general", Servable(u, "interactive", "general"))

Dispatch(s, g) ==
  CASE g \in Limiters             -> DispatchLimiter(s, g)
    [] g \in {"request", "bytes"} -> DispatchPending(s)
    [] OTHER                      -> DispatchUpstream(s)

Lower(s, g, n) ==
  [used |-> [s.used EXCEPT ![g] = IF @ > n THEN @ - n ELSE 0],
   line |-> s.line, rq |-> s.rq]

\* fifoLimiter.release, pendingQuota.releaseBytes and upstreamPool.release, and
\* the same steps of a granted waiter that gives up.
Release(s, g, n) == Dispatch(Lower(s, g, n), g)

\* pendingQuota.releaseRequest.
ReleaseRequest(s, n) == DispatchPending(Lower(Lower(s, "request", 1), "bytes", n))

\* Mutant: a newcomer takes what is free past the ones who wait.
AtOncePastWaiters(s, g, n) == s.used[g] + n <= Capacity[g]

\* The permit or the bytes are there and nobody waits for them.
AtOnce(s, g, n) == s.line[g] = <<>> /\ s.used[g] + n <= Capacity[g]

\* The granting branch of fifoLimiter.acquire, acquireRequest and reserveBytes.
Take(s, g, n) ==
  [used |-> [s.used EXCEPT ![g] = @ + n], line |-> s.line, rq |-> s.rq]

\* PushBack of a waiter. The upstream pool always queues, and then dispatches.
Enqueue(s, r, l) ==
  LET t == [used |-> s.used, line |-> [s.line EXCEPT ![l] = Append(@, r)],
            rq |-> s.rq]
  IN  IF l \in {"general", "interactive"} THEN DispatchUpstream(t) ELSE t

\* The removal of a waiter that gives up before it is granted: only the upstream
\* pool dispatches then.
Remove(s, r, l) ==
  LET w == s.line[l]
      i == CHOOSE j \in DOMAIN w : w[j] = r
      t == [used |-> s.used, rq |-> s.rq,
            line |-> [s.line EXCEPT ![l] =
                        IF \E j \in DOMAIN w : w[j] = r
                        THEN SubSeq(w, 1, i - 1) \o SubSeq(w, i + 1, Len(w)) ELSE w]]
  IN  IF l \in {"general", "interactive"} THEN DispatchUpstream(t) ELSE t

=============================================================================
