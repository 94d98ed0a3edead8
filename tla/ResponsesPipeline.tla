-------------------------- MODULE ResponsesPipeline --------------------------
(***************************************************************************)
(* The life of POST /responses requests in the relay: proxy/server.go      *)
(* (prepareResponsesRequest and modifyResponse) on the pools of            *)
(* scheduler.go. Each request is a goroutine; every PendingRequest has a   *)
(* second one that closes it when its queue context ends, and a captured   *)
(* response leaves its upstream permit to a third that waits for the       *)
(* transport's cleanup. A request is a record:                             *)
(*   pc        the next critical section of its goroutine                  *)
(*   line      the line it waits on, or is about to join                   *)
(*   granted   the pool that granted its waiter                            *)
(*   sized     Content-Length is known                                     *)
(*   left      bytes of its body not yet reserved                          *)
(*   want      bytes of the reservation under way                          *)
(*   expired   its queue context is done (deadline, or the client left)    *)
(*   pending   its PendingRequest: none, open, closed, or job once the     *)
(*             quotas were handed to a JobLease                            *)
(*   reserved  bytes its PendingRequest or its JobLease holds              *)
(*   holds     the pools it has a Lease of                                 *)
(*   detached  its upstream Lease waits for the transport's cleanup        *)
(***************************************************************************)
EXTENDS Capacity

CONSTANTS Bodies,        \* the bodies clients send, a length known or not
          Routes         \* what PrepareRequest makes of them: handoff for a
                         \* request passed through, acquire for a normalized one

ASSUME BodyAssumption == /\ Bodies \subseteq [sized : BOOLEAN, size : Nat]
                         /\ Routes \subseteq {"handoff", "acquire"}

VARIABLES used, line, rq

vars == <<used, line, rq>>

Steps == {"idle", "waiting", "reserve", "add", "classify", "read", "handoff",
          "acquire", "admit", "forwarding", "dispatched", "captured",
          "spooled", "transforming", "delivering", "unwind"}

\* The lines a request waits on while its queue context bounds it.
QueueLines == Lines \ {"transform", "delivery"}

Idle == [pc |-> "idle", line |-> "request", granted |-> "none", sized |-> FALSE,
         left |-> 0, want |-> 0, expired |-> FALSE, pending |-> "none",
         reserved |-> 0, holds |-> {}, detached |-> FALSE]

Pipeline == [used |-> used, line |-> line, rq |-> rq]

Become(s) == used' = s.used /\ line' = s.line /\ rq' = s.rq

Put(s, r, q) == [used |-> s.used, line |-> s.line, rq |-> [s.rq EXCEPT ![r] = q]]

Go(s, r, pc) == Put(s, r, [s.rq[r] EXCEPT !.pc = pc])

Cost(q, g) == IF g = "bytes" THEN q.want ELSE 1

\* Where a request goes once it has its permit.
After(q, g) == CASE g = "request"        -> IF q.sized THEN "reserve" ELSE "classify"
                 [] g = "bytes"          -> "add"
                 [] g = "classification" -> "read"
                 [] g = "transform"      -> "transforming"
                 [] g = "delivery"       -> "delivering"
                 [] OTHER                -> "admit"

\* A request goes on with its permit.
Obtain(s, r, g) ==
  LET q == s.rq[r]
      p == [q EXCEPT !.pc      = After(q, g),
                     !.granted = "none",
                     !.holds   = @ \cup ({g} \ {"request", "bytes"}),
                     !.pending = IF g = "request" THEN "open" ELSE @]
  IN  Put(s, r, p)

\* fifoLimiter.acquire, pendingQuota.acquireRequest and reserveBytes.
Join(s, r, g) ==
  IF AtOnce(s, g, Cost(s.rq[r], g))
  THEN Obtain(Take(s, g, Cost(s.rq[r], g)), r, g)
  ELSE Enqueue(Put(s, r, [s.rq[r] EXCEPT !.pc = "waiting", !.line = g]), r, g)

\* PendingRequest.finish. Only its own goroutines see the flag it sets, so
\* setting it and giving the quotas back is one step.
Finish(s, r) ==
  IF s.rq[r].pending = "open"
  THEN ReleaseRequest(Put(s, r, [s.rq[r] EXCEPT !.pending = "closed", !.reserved = 0]),
                      s.rq[r].reserved)
  ELSE s

\* JobLease.Release.
ReleaseJob(s, r) ==
  ReleaseRequest(Put(s, r, [s.rq[r] EXCEPT !.pending = "none", !.reserved = 0]),
                 s.rq[r].reserved)

\* Lease.Release.
ReleaseLease(s, r, g) ==
  Release(Put(s, r, [s.rq[r] EXCEPT !.holds = @ \ {g}]), g, 1)

-----------------------------------------------------------------------------
\* The context of the queue and the waits.

\* A request arrives and asks for its request slot. Its label is free once its
\* last transport cleanup is over.
Arrive(r) ==
  /\ rq[r] = Idle
  /\ \E body \in Bodies :
       LET q == [Idle EXCEPT !.sized = body.sized, !.left = body.size,
                             !.want  = IF body.sized THEN body.size ELSE 0]
       IN  Become(Join(Put(Pipeline, r, q), r, "request"))

InQueue(r) ==
  \/ rq[r].pc \in {"reserve", "add", "classify", "read", "handoff", "acquire", "admit"}
  \/ rq[r].pc = "waiting" /\ rq[r].line \in QueueLines

\* The queue timeout fires, or the client disconnects.
Expire(r) ==
  /\ InQueue(r) /\ ~rq[r].expired
  /\ Become(Put(Pipeline, r, [rq[r] EXCEPT !.expired = TRUE]))

\* The goroutine AcquirePendingRequest starts: it closes the request when the
\* context ends, whatever the request is doing.
CloseOnCancel(r) ==
  /\ rq[r].expired /\ rq[r].pending = "open"
  /\ Become(Finish(Pipeline, r))

\* Mutant: the wait for bytes watches no deadline.
WaitFailsExceptBytes(r) ==
  rq[r].line # "bytes" /\ (rq[r].expired \/ rq[r].line \notin QueueLines)

\* waitUntil has an error to return: the queue context is done. A wait for a
\* transform or a delivery has a deadline of its own, which may pass any time.
WaitFails(r) == rq[r].expired \/ rq[r].line \notin QueueLines

\* waitUntil returns because the waiter is ready.
Ready(r) ==
  /\ rq[r].pc = "waiting" /\ rq[r].granted # "none"
  /\ Become(Obtain(Pipeline, r, rq[r].granted))

\* Mutant: a waiter that was granted while it gave up forgets the permit.
LeaveForgetting(r) ==
  /\ rq[r].pc = "waiting" /\ WaitFails(r)
  /\ LET s == Put(Pipeline, r, [rq[r] EXCEPT !.pc = "unwind", !.granted = "none"])
     IN  IF rq[r].granted # "none" THEN Become(s)
         ELSE Become(Remove(s, r, rq[r].line))

\* Mutant: the permit of a granted waiter goes back without a dispatch.
LeaveSilently(r) ==
  /\ rq[r].pc = "waiting" /\ WaitFails(r)
  /\ LET s == Put(Pipeline, r, [rq[r] EXCEPT !.pc = "unwind", !.granted = "none"])
         g == rq[r].granted
     IN  IF g # "none" THEN Become(Lower(s, g, Cost(rq[r], g)))
         ELSE Become(Remove(s, r, rq[r].line))

\* waitUntil returns an error, also when the waiter was granted meanwhile: the
\* permit goes back, or the waiter leaves its line.
Leave(r) ==
  /\ rq[r].pc = "waiting" /\ WaitFails(r)
  /\ LET s == Put(Pipeline, r, [rq[r] EXCEPT !.pc = "unwind", !.granted = "none"])
         g == rq[r].granted
     IN  IF g # "none" THEN Become(Release(s, g, Cost(rq[r], g)))
         ELSE Become(Remove(s, r, rq[r].line))

-----------------------------------------------------------------------------
\* prepareResponsesRequest.

\* PendingRequest.ReserveBytes up to the quota: for the whole body when its
\* length is known, else for the chunk just read.
ReserveBytes(r) ==
  LET q == rq[r] IN
  /\ q.pc = "reserve"
  /\ Become(CASE \/ q.pending = "closed"
                 \/ q.want > Capacity["bytes"] - q.reserved
                 \/ q.want > 0 /\ q.expired          -> Go(Pipeline, r, "unwind")
              [] q.pending = "open" /\ q.want = 0    -> Go(Pipeline, r, "classify")
              [] OTHER                               -> Join(Pipeline, r, "bytes"))

\* Mutant: the bytes are added to a request that was closed during the wait.
AddBytesUnchecked(r) ==
  LET q == rq[r] IN
  /\ q.pc = "add"
  /\ Become(Put(Pipeline, r,
                [q EXCEPT !.reserved = @ + q.want, !.left = @ - q.want, !.want = 0,
                          !.pc = IF q.sized THEN "classify" ELSE "read"]))

\* ReserveBytes after the quota: the request may have been closed meanwhile, and
\* then the bytes go back at once.
AddBytes(r) ==
  LET q == rq[r] IN
  /\ q.pc = "add"
  /\ Become(IF q.pending = "closed"
            THEN Release(Put(Pipeline, r, [q EXCEPT !.pc = "unwind", !.want = 0]),
                         "bytes", q.want)
            ELSE Put(Pipeline, r,
                     [q EXCEPT !.reserved = @ + q.want, !.left = @ - q.want, !.want = 0,
                               !.pc = IF q.sized THEN "classify" ELSE "read"]))

\* AcquireClassification.
Classify(r) ==
  /\ rq[r].pc = "classify"
  /\ Become(IF rq[r].expired THEN Go(Pipeline, r, "unwind")
            ELSE Join(Pipeline, r, "classification"))

\* pendingQuotaReadCloser.Read: a chunk of a body of unknown length has arrived
\* and must be reserved. The classification permit is held all the while.
ReadChunk(r) ==
  /\ rq[r].pc = "read" /\ ~rq[r].sized /\ ~rq[r].expired
  /\ \E n \in 1 .. rq[r].left :
       Become(Put(Pipeline, r, [rq[r] EXCEPT !.pc = "reserve", !.want = n]))

\* PrepareRequest returns and the classification permit goes back. The request
\* is passed through, normalized, or refused: a body the parser rejects, one
\* that ends early, or a context that is done.
EndRead(r) ==
  /\ rq[r].pc = "read"
  /\ \E next \in Routes \cup {"unwind"} :
       /\ next # "unwind" => rq[r].sized \/ rq[r].left = 0
       /\ Become(ReleaseLease(Go(Pipeline, r, next), r, "classification"))

\* HandoffPassthrough: the JobLease keeps the slot and the bytes.
HandoffPassthrough(r) ==
  /\ rq[r].pc = "handoff"
  /\ Become(IF rq[r].pending = "closed" THEN Go(Pipeline, r, "unwind")
            ELSE Put(Pipeline, r, [rq[r] EXCEPT !.pc = "forwarding", !.pending = "job",
                                                !.expired = FALSE]))

\* AcquireUpstreamJob up to the permit.
AcquireUpstream(r) ==
  /\ rq[r].pc = "acquire"
  /\ Become(IF rq[r].pending = "closed" \/ rq[r].expired THEN Go(Pipeline, r, "unwind")
            ELSE Enqueue(Put(Pipeline, r, [rq[r] EXCEPT !.pc   = "waiting",
                                                        !.line = UpstreamLine(r)]),
                         r, UpstreamLine(r)))

\* AcquireUpstreamJob after the permit: handoff(false) returns the bytes and
\* leaves the slot to a JobLease, unless the request was closed meanwhile.
AdmitUpstream(r) ==
  /\ rq[r].pc = "admit"
  /\ Become(IF rq[r].pending = "closed" THEN Go(Pipeline, r, "unwind")
            ELSE Release(Put(Pipeline, r,
                             [rq[r] EXCEPT !.pc = "dispatched", !.pending = "job",
                                           !.reserved = 0, !.expired = FALSE]),
                         "bytes", rq[r].reserved))

-----------------------------------------------------------------------------
\* The round trip, modifyResponse and the cleanup of the handler.

\* The outbound body of a passed-through request reaches EOF or is closed: its
\* JobLease is released, and nothing else is left of the request.
EndForward(r) ==
  /\ rq[r].pc = "forwarding"
  /\ Become(ReleaseRequest(Put(Pipeline, r, Idle), rq[r].reserved))

\* The round trip fails: the handler's cleanup still has the upstream permit.
FailRoundTrip(r) ==
  /\ rq[r].pc = "dispatched"
  /\ Become(Go(Pipeline, r, "unwind"))

\* A response is captured, to be transformed or (not 2xx) delivered as it is, or
\* is refused. Either way releaseUpstreamAfter leaves the permit to the cleanup.
CaptureResponse(r) ==
  /\ rq[r].pc = "dispatched"
  /\ \E pc \in {"captured", "spooled", "unwind"} :
       Become(Put(Pipeline, r, [rq[r] EXCEPT !.pc = pc, !.detached = TRUE]))

\* CleanupDone: the source's Close and Reads have returned.
FinishCleanup(r) ==
  /\ rq[r].detached
  /\ \E g \in rq[r].holds \cap {"general", "reserved"} :
       Become(ReleaseLease(Put(Pipeline, r, [rq[r] EXCEPT !.detached = FALSE]), r, g))

\* AcquireTransform, unless the response's context is done.
AcquireTransform(r) ==
  /\ rq[r].pc = "captured"
  /\ \/ Become(Join(Pipeline, r, "transform"))
     \/ Become(Go(Pipeline, r, "unwind"))

\* The terminal SSE is in its spool, and the transform permit goes back.
EndTransform(r) ==
  /\ rq[r].pc = "transforming"
  /\ Become(ReleaseLease(Go(Pipeline, r, "spooled"), r, "transform"))

\* The synthesis fails; the deferred Release of unwind returns the permit.
FailTransform(r) ==
  /\ rq[r].pc = "transforming"
  /\ Become(Go(Pipeline, r, "unwind"))

\* AcquireDelivery, unless the response's context is done.
AcquireDelivery(r) ==
  /\ rq[r].pc = "spooled"
  /\ \/ Become(Join(Pipeline, r, "delivery"))
     \/ Become(Go(Pipeline, r, "unwind"))

\* The client has read the spool to its end, or is gone: the body is closed.
EndDelivery(r) ==
  /\ rq[r].pc = "delivering"
  /\ Become(ReleaseLease(Go(Pipeline, r, "unwind"), r, "delivery"))

\* The deferred calls: the transform's Release, closePending, and the cleanup
\* (normalizationDecision.close) with the upstream permit it still owns and the
\* job.
Owned(r) == rq[r].holds \ (IF rq[r].detached THEN {"general", "reserved"} ELSE {})

\* Mutant: the cleanup returns the job and forgets the lease.
UnwindWithoutLease(r) ==
  /\ rq[r].pc = "unwind"
  /\ LET s == IF rq[r].pending = "job" THEN ReleaseJob(Pipeline, r)
              ELSE Finish(Pipeline, r)
     IN  Become(Put(s, r, [Idle EXCEPT !.holds    = rq[r].holds,
                                       !.detached = rq[r].detached]))

Unwind(r) ==
  /\ rq[r].pc = "unwind"
  /\ \/ \E g \in Owned(r) : Become(ReleaseLease(Pipeline, r, g))
     \/ /\ Owned(r) = {}
        /\ LET s == IF rq[r].pending = "job" THEN ReleaseJob(Pipeline, r)
                    ELSE Finish(Pipeline, r)
           IN  Become(Put(s, r, [Idle EXCEPT !.holds    = rq[r].holds,
                                             !.detached = rq[r].detached]))

-----------------------------------------------------------------------------
Init == /\ used = [g \in Pools |-> 0]
        /\ line = [l \in Lines |-> <<>>]
        /\ rq = [r \in Reqs |-> Idle]

\* What a request's own goroutine does whenever it can.
Progress(r) ==
  \/ Ready(r) \/ Leave(r) \/ ReserveBytes(r) \/ AddBytes(r) \/ Classify(r)
  \/ HandoffPassthrough(r) \/ AcquireUpstream(r) \/ AdmitUpstream(r)
  \/ AcquireTransform(r) \/ AcquireDelivery(r) \/ Unwind(r)

Read(r) == ReadChunk(r) \/ EndRead(r)

Network(r) ==
  \/ EndForward(r) \/ FailRoundTrip(r) \/ CaptureResponse(r) \/ FinishCleanup(r)
  \/ EndTransform(r) \/ FailTransform(r) \/ EndDelivery(r)

Next == \E r \in Reqs : \/ Arrive(r) \/ Expire(r) \/ CloseOnCancel(r)
                        \/ Progress(r) \/ Read(r) \/ Network(r)

Spec == Init /\ [][Next]_vars

\* The guard of Progress(r).
CanProgress(r) ==
  \/ rq[r].pc \in {"reserve", "add", "classify", "handoff", "acquire", "admit",
                   "captured", "spooled", "unwind"}
  \/ rq[r].pc = "waiting" /\ (rq[r].granted # "none" \/ WaitFails(r))

\* Timers fire and goroutines run: weak fairness of Progress, of Expire and of
\* EndRead once the context is done, each written out with the guard of its
\* action. Nothing is assumed of the client, of the upstream or of the transport's
\* cleanup: a read need only end because the queue deadline closes the body.
Fairness ==
  \A r \in Reqs :
    /\ []<>~CanProgress(r) \/ []<><<Progress(r)>>_vars
    /\ WF_vars(Expire(r))
    /\ []<>~(rq[r].pc = "read" /\ rq[r].expired)
         \/ []<><<rq[r].expired /\ EndRead(r)>>_vars

FairSpec == Spec /\ Fairness

-----------------------------------------------------------------------------
\* Type invariant.
TypeOK ==
  /\ used \in [Pools -> Nat]
  /\ line \in [Lines -> Seq(Reqs)]
  /\ rq \in [Reqs -> [pc : Steps, line : Lines, granted : Pools \cup {"none"},
                      sized : BOOLEAN, left : Nat, want : Nat, expired : BOOLEAN,
                      pending : {"none", "open", "closed", "job"},
                      reserved : 0 .. Capacity["bytes"], holds : SUBSET Pools,
                      detached : BOOLEAN]]

SlotHolders == {r \in Reqs : rq[r].pending \in {"open", "job"} \/ rq[r].granted = "request"}

BytesOf(r) ==
  rq[r].reserved
    + (IF rq[r].pc = "add" \/ rq[r].granted = "bytes" THEN rq[r].want ELSE 0)

\* The quota of scheduler.go counts exactly the requests and the bytes somebody
\* is answerable for, whichever goroutine closes a request and whenever: nothing
\* leaks, and the clamping of releaseBytes and releaseRequest never hides a second
\* release.
QuotaAccounted ==
  /\ used["request"] = Cardinality(SlotHolders)
  /\ used["bytes"] = MapThenSumSet(BytesOf, Reqs)

PermitHolders(g) == {r \in Reqs : g \in rq[r].holds \/ rq[r].granted = g}

\* The classification, upstream, transform and delivery pools count exactly the
\* leases that are out, the ones a transport cleanup still owns included.
PermitsAccounted ==
  \A g \in Pools \ {"request", "bytes"} : used[g] = Cardinality(PermitHolders(g))

\* No lost wakeup: a request waits for a slot or a permit only while every permit
\* it could be given is in use. The byte quota is not among them: a waiter that
\* gives up at the head of its line leaves without a dispatch, and smaller
\* reservations behind it wait for the next release.
NoIdlePermit ==
  /\ \A g \in Limiters \cup {"request"} : line[g] # <<>> => used[g] = Capacity[g]
  /\ line["general"] # <<>> => used["general"] = Capacity["general"]
  /\ line["interactive"] # <<>> => \A g \in {"general", "reserved"} : used[g] = Capacity[g]

\* An interactive request that waits for the upstream does so behind interactive
\* requests only: the general lane never holds a reserved permit.
ReservedForInteractive == PermitHolders("reserved") \subseteq Interactive

\* Once every request is over and every transport cleanup done, the scheduler is
\* as New made it: no error path, timeout or late close keeps a slot, a byte or a
\* permit.
CapacityRestored ==
  (\A r \in Reqs : rq[r].pc = "idle" /\ ~rq[r].detached)
    => \A g \in Pools : used[g] = 0

Position(r, l) == CHOOSE i \in DOMAIN line[l] : line[l][i] = r

Waits(r) == rq[r].pc = "waiting" /\ rq[r].granted = "none"

\* First come, first served: no dispatch grants a waiter and passes over one that
\* joined the same line before it, and no small body takes bytes past the ones
\* that wait for them.
FirstComeFirstServed ==
  [][/\ \A q \in Reqs : Waits(q) /\ rq'[q].granted # "none" =>
          LET l == rq[q].line IN
          \A r \in Reqs : /\ Waits(r) /\ rq[r].line = l
                         /\ Position(r, l) < Position(q, l)
                         => rq'[r].granted # "none" \/ rq'[r].pc # "waiting"
     /\ \A q \in Reqs :
          rq[q].pc = "reserve" /\ rq'[q].pc = "add" => line["bytes"] = <<>>]_vars

\* Every request leaves the queue, also where requests that hold the byte quota
\* wait for a classification permit whose holder waits for bytes: the queue
\* deadline breaks the circle.
AdmissionEnds == \A r \in Reqs : InQueue(r) ~> ~InQueue(r)

\* No response waits for a transform or a delivery permit for ever, however long
\* other clients take to read theirs.
StageWaitEnds == \A r \in Reqs : rq[r].pc = "waiting" ~> rq[r].pc # "waiting"

\* Every wait of a request ends, by a grant or by its deadline, before admission
\* and behind it (waitUntil of scheduler.go).
WaitsEnd == AdmissionEnds /\ StageWaitEnds

=============================================================================
