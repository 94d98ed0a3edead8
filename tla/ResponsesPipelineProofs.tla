---------------------- MODULE ResponsesPipelineProofs ----------------------
(***************************************************************************)
(* The first inductive invariant is Good(Pipeline): the scheduler is well  *)
(* formed (Shaped), with only interactive requests in the interactive line *)
(* and on the reserved permits, and nobody waits beside a free permit      *)
(* (NoIdleBut with no line excepted). The second, Sound, comes below. The  *)
(* lemmas follow the layers of the code: the critical sections of the      *)
(* pools, the operations of the leases, the steps of the handler.          *)
(* NoIdleBut(s, G) is what holds inside a critical section, between the    *)
(* change of the pools G and their dispatch. The byte quota is a sum over  *)
(* requests and stays with TLC.                                            *)
(***************************************************************************)
EXTENDS ResponsesPipeline, TLAPS

\* The pools that count one per permit.
Counted == Pools \ {"bytes"}

\* The type of a request. Its byte counts are only known to be integers here.
Requests == [pc : Steps, line : Lines, granted : Pools \cup {"none"},
             sized : BOOLEAN, left : Int, want : Int, expired : BOOLEAN,
             pending : {"none", "open", "closed", "job"}, reserved : Int,
             holds : SUBSET Pools, detached : BOOLEAN]

\* What is used of the sets of requests and of the numbers: a bounded set of
\* numbers has a maximum, and sets of requests are counted. Proved at the end
\* (CountingHolds), and carried by the invariant until then.
Counting ==
  /\ \A k \in Nat : \A T \in SUBSET (0 .. k) : T # {} => Max(T) \in T
  /\ Cardinality({}) = 0
  /\ \A S \in SUBSET Reqs : IsFiniteSet(S) /\ Cardinality(S) \in Nat
  /\ \A S \in SUBSET Reqs : \A r \in Reqs :
       /\ Cardinality(S \cup {r}) = IF r \in S THEN Cardinality(S) ELSE Cardinality(S) + 1
       /\ Cardinality(S \ {r}) = IF r \in S THEN Cardinality(S) - 1 ELSE Cardinality(S)
  /\ \A S, T \in SUBSET Reqs :
       S \cap T = {} => Cardinality(S \cup T) = Cardinality(S) + Cardinality(T)
  /\ \A w \in Seq(Reqs) : \A n \in 0 .. Len(w) :
       (\A i, j \in 1 .. Len(w) : w[i] = w[j] => i = j)
         => Cardinality({w[i] : i \in 1 .. n}) = n

\* The shape of a pipeline record.
Shaped(s) ==
  /\ Counting
  /\ s \in [used : {s.used}, line : {s.line}, rq : {s.rq}]
  /\ s.used = [g \in Pools |-> s.used[g]]
  /\ \A g \in Counted : s.used[g] \in 0 .. Capacity[g]
  /\ s.line \in [Lines -> Seq(Reqs)]
  /\ s.line["interactive"] \in Seq(Interactive)
  /\ s.rq \in [Reqs -> Requests]
  /\ \A r \in Reqs : s.rq[r].granted = "reserved" \/ "reserved" \in s.rq[r].holds
                       => r \in Interactive

\* Whoever waits in line l has no free permit of g to wait for.
Served(s, l, g) == s.line[l] # <<>> => s.used[g] = Capacity[g]

\* NoIdlePermit on a pipeline record, for the lines outside G.
NoIdleBut(s, G) ==
  /\ \A g \in (Limiters \cup {"request"}) \ G : Served(s, g, g)
  /\ "general" \notin G => /\ Served(s, "general", "general")
                           /\ Served(s, "interactive", "general")
                           /\ Served(s, "interactive", "reserved")

\* The inductive invariant, on a pipeline record.
Good(s) == Shaped(s) /\ NoIdleBut(s, {})

\* The pools one mutex guards.
Group(g) == CASE g \in Limiters             -> {g}
              [] g \in {"request", "bytes"} -> {"request", "bytes"}
              [] OTHER                      -> {"general", "reserved"}

\* A fresh request.
LEMMA IdleRecord ==
  /\ Idle \in Requests
  /\ Idle.granted = "none" /\ Idle.holds = {} /\ Idle.pc = "idle" /\ Idle.pending = "none"
<1>1. "idle" \in Steps /\ "request" \in Lines
  BY DEF Steps, Lines
<1>2. Idle \in Requests
  BY <1>1 DEF Idle, Requests
<1>3. Idle.granted = "none" /\ Idle.holds = {}
  BY DEF Idle
<1>4. Idle.pc = "idle" /\ Idle.pending = "none"
  BY DEF Idle
<1> QED
  BY <1>2, <1>3, <1>4

\* A counted pool is used up to its capacity at most, and both are naturals.
LEMMA CountedType ==
  ASSUME NEW s, Shaped(s), NEW g \in Counted
  PROVE  /\ s.used[g] \in Nat /\ Capacity[g] \in Nat \ {0}
         /\ s.used[g] <= Capacity[g]
<1>1. s.used[g] \in 0 .. Capacity[g]
  BY Zenon DEF Shaped
<1>2. Capacity[g] \in Nat \ {0}
  BY CapacityAssumption DEF Counted
<1> QED
  BY <1>1, <1>2

\* The smaller of two integers.
LEMMA PairMin ==
  ASSUME NEW a \in Int, NEW b \in Int
  PROVE  Min({a, b}) = IF a < b THEN a ELSE b
  BY DEF Min

\* The dispatch loops serve waiters until the pool is full or the line is empty.
LEMMA ServableType ==
  ASSUME NEW s, Shaped(s), NEW l \in Lines, NEW g \in Counted
  PROVE  /\ Servable(s, l, g) \in 0 .. Len(s.line[l])
         /\ s.used[g] + Servable(s, l, g) \in 0 .. Capacity[g]
         /\ \/ s.used[g] + Servable(s, l, g) = Capacity[g]
            \/ Servable(s, l, g) = Len(s.line[l])
<1> DEFINE a == Capacity[g] - s.used[g]
           b == Len(s.line[l])
<1>1. /\ Capacity[g] \in Nat \ {0} /\ s.used[g] \in 0 .. Capacity[g] /\ b \in Nat
  BY CapacityAssumption DEF Shaped, Counted
<1>2. a \in Int /\ b \in Int
  BY <1>1
<1> HIDE DEF a, b
<1>3. Min({a, b}) = IF a < b THEN a ELSE b
  BY <1>2, PairMin
<1> QED
  BY <1>1, <1>3 DEF Servable, a, b

\* Granting a waiter changes one field of its request (waiter.granted = true).
LEMMA GrantedUpdate ==
  ASSUME NEW q \in Requests, NEW g \in Pools \cup {"none"}
  PROVE  LET p == [q EXCEPT !.granted = g] IN
         p \in Requests /\ p.granted = g /\ p.holds = q.holds
  BY DEF Requests

\* Serving the first n waiters of a line keeps the shape of the scheduler, adds n
\* to the pool and shortens that line only.
LEMMA GrantShaped ==
  ASSUME NEW s, Shaped(s), NEW l \in Lines, NEW g \in Pools,
         g = "reserved" => l = "interactive",
         NEW n \in 0 .. Len(s.line[l]),
         g \in Counted => s.used[g] + n \in 0 .. Capacity[g]
  PROVE  LET t == Grant(s, l, g, n) IN
         /\ Shaped(t)
         /\ g \in Counted => t.used[g] = s.used[g] + n
         /\ \A h \in Pools \ {g} : t.used[h] = s.used[h]
         /\ \A m \in Lines \ {l} : t.line[m] = s.line[m]
         /\ n = Len(s.line[l]) => t.line[l] = <<>>
         /\ s.line[l] = <<>> => t.line[l] = <<>>
<1> DEFINE t == Grant(s, l, g, n)
           first == Range(SubSeq(s.line[l], 1, n))
           c == IF g = "bytes" THEN WantOf(s.rq, first) ELSE n
<1>1. /\ t \in [used : {t.used}, line : {t.line}, rq : {t.rq}]
      /\ t.used = [s.used EXCEPT ![g] = @ + c]
      /\ t.line = [s.line EXCEPT ![l] = SubSeq(@, n + 1, Len(@))]
      /\ t.rq = [r \in Reqs |-> IF r \in first THEN [s.rq[r] EXCEPT !.granted = g]
                                ELSE s.rq[r]]
  BY DEF Grant
<1>2. s.line[l] \in Seq(Reqs) /\ n \in Nat /\ Len(s.line[l]) \in Nat
  BY DEF Shaped
<1>3. /\ SubSeq(s.line[l], n + 1, Len(s.line[l])) \in Seq(Reqs)
      /\ n = Len(s.line[l]) => SubSeq(s.line[l], n + 1, Len(s.line[l])) = <<>>
      /\ s.line[l] = <<>> => SubSeq(s.line[l], n + 1, Len(s.line[l])) = <<>>
  BY <1>2
<1>4. ASSUME l = "interactive"
      PROVE  /\ SubSeq(s.line[l], n + 1, Len(s.line[l])) \in Seq(Interactive)
             /\ first \subseteq Interactive
  <2>1. s.line[l] \in Seq(Interactive)
    BY <1>4 DEF Shaped
  <2>2. SubSeq(s.line[l], 1, n) \in Seq(Interactive)
    BY <2>1, <1>2
  <2>3. first \subseteq Interactive
    BY <2>2 DEF Range
  <2> QED
    BY <2>1, <2>3, <1>2
<1>5. g \in Counted => c = n
  BY DEF Counted
<1> HIDE DEF c, first
<1>6. /\ t.used = [h \in Pools |-> t.used[h]]
      /\ g \in Counted => t.used[g] = s.used[g] + n
      /\ \A h \in Pools \ {g} : t.used[h] = s.used[h]
  BY <1>1, <1>5, Zenon DEF Shaped
<1>7. /\ t.line \in [Lines -> Seq(Reqs)]
      /\ \A m \in Lines \ {l} : t.line[m] = s.line[m]
      /\ t.line[l] = SubSeq(s.line[l], n + 1, Len(s.line[l]))
  BY <1>1, <1>3 DEF Shaped
<1>8. t.line["interactive"] \in Seq(Interactive)
  BY <1>4, <1>7, Zenon DEF Shaped, Lines
<1>9. t.rq \in [Reqs -> Requests]
  BY <1>1, GrantedUpdate DEF Shaped
<1>10. \A r \in Reqs : t.rq[r].granted = "reserved" \/ "reserved" \in t.rq[r].holds
                        => r \in Interactive
  BY <1>1, <1>4, GrantedUpdate DEF Shaped
<1>11. \A h \in Counted : t.used[h] \in 0 .. Capacity[h]
  BY <1>6 DEF Shaped, Counted
<1> HIDE DEF t
<1>12. Shaped(t)
  BY <1>1, <1>6, <1>7, <1>8, <1>9, <1>10, <1>11, Zenon DEF Shaped
<1> QED
  BY <1>3, <1>6, <1>7, <1>12 DEF t

\* The byte waiters pendingQuota.dispatchLocked serves are a prefix of their line.
LEMMA FittingPrefixType ==
  ASSUME NEW s, Shaped(s)
  PROVE  FittingPrefix(s) \in 0 .. Len(s.line["bytes"])
<1> DEFINE C(n) == WantOf(s.rq, Range(SubSeq(s.line["bytes"], 1, n)))
           T == {n \in 0 .. Len(s.line["bytes"]) :
                   n > 0 => s.used["bytes"] + C(n) <= Capacity["bytes"]}
<1>1. Len(s.line["bytes"]) \in Nat
  BY DEF Shaped, Lines
<1>2. 0 \in T /\ T \in SUBSET (0 .. Len(s.line["bytes"]))
  BY <1>1
<1>3. Max(T) \in T
  <2>1. T # {}
    BY <1>2, Zenon
  <2>2. \A k \in Nat : \A S \in SUBSET (0 .. k) : S # {} => Max(S) \in S
    BY Zenon DEF Shaped, Counting
  <2> HIDE DEF T
  <2> QED
    BY <1>1, <1>2, <2>1, <2>2, Zenon
<1> QED
  BY <1>2, <1>3 DEF FittingPrefix

\* Giving a permit back lowers one pool, never below zero.
LEMMA LowerShaped ==
  ASSUME NEW s, Shaped(s), NEW g \in Pools, NEW n, g # "bytes" => n = 1
  PROVE  LET t == Lower(s, g, n) IN
         /\ Shaped(t)
         /\ \A h \in Counted \ {g} : t.used[h] = s.used[h]
         /\ t.line = s.line
<1> DEFINE t == Lower(s, g, n)
           u == IF s.used[g] > n THEN s.used[g] - n ELSE 0
<1>1. /\ t \in [used : {t.used}, line : {t.line}, rq : {t.rq}]
      /\ t.used = [s.used EXCEPT ![g] = u]
      /\ t.line = s.line /\ t.rq = s.rq
  BY DEF Lower
<1>2. g \in Counted => u \in 0 .. Capacity[g]
  BY CapacityAssumption DEF Shaped, Counted
<1> HIDE DEF u
<1>3. /\ t.used = [h \in Pools |-> t.used[h]]
      /\ \A h \in Counted \ {g} : t.used[h] = s.used[h]
      /\ \A h \in Counted : t.used[h] \in 0 .. Capacity[h]
  BY <1>1, <1>2 DEF Shaped, Counted
<1> QED
  BY <1>1, <1>3, Zenon DEF Shaped

\* fifoLimiter.dispatchLocked leaves nobody waiting for a permit that is free.
LEMMA DispatchLimiterGood ==
  ASSUME NEW s, Shaped(s), NEW g \in Limiters, NoIdleBut(s, {g})
  PROVE  Good(DispatchLimiter(s, g))
<1> DEFINE n == Servable(s, g, g)
           t == Grant(s, g, g, n)
<1>1. g \in Lines /\ g \in Pools /\ g \in Counted /\ g # "reserved" /\ g # "general"
      /\ g # "interactive" /\ g # "request"
  BY DEF Limiters, Lines, Pools, Counted
<1>2. /\ n \in 0 .. Len(s.line[g])
      /\ s.used[g] + n \in 0 .. Capacity[g]
      /\ s.used[g] + n = Capacity[g] \/ n = Len(s.line[g])
  BY <1>1, ServableType
<1> HIDE DEF n
<1>3. /\ Shaped(t)
      /\ t.used[g] = s.used[g] + n
      /\ \A h \in Pools \ {g} : t.used[h] = s.used[h]
      /\ \A m \in Lines \ {g} : t.line[m] = s.line[m]
      /\ n = Len(s.line[g]) => t.line[g] = <<>>
  BY <1>1, <1>2, GrantShaped
<1> HIDE DEF t
<1>4. NoIdleBut(t, {})
  BY <1>1, <1>2, <1>3 DEF NoIdleBut, Served, Limiters, Lines, Pools
<1> QED
  BY <1>3, <1>4 DEF Good, DispatchLimiter, t, n

\* pendingQuota.dispatchLocked leaves nobody waiting for a slot that is free.
LEMMA DispatchPendingGood ==
  ASSUME NEW s, Shaped(s), NoIdleBut(s, {"request", "bytes"})
  PROVE  Good(DispatchPending(s))
<1> DEFINE n == Servable(s, "request", "request")
           t == Grant(s, "request", "request", n)
           m == FittingPrefix(t)
           u == Grant(t, "bytes", "bytes", m)
<1>1. /\ "request" \in Lines /\ "request" \in Counted /\ "request" \in Pools
      /\ "bytes" \in Lines /\ "bytes" \in Pools /\ "bytes" \notin Counted
  BY DEF Lines, Pools, Counted
<1>2. /\ n \in 0 .. Len(s.line["request"])
      /\ s.used["request"] + n \in 0 .. Capacity["request"]
      /\ s.used["request"] + n = Capacity["request"] \/ n = Len(s.line["request"])
  BY <1>1, ServableType
<1> HIDE DEF n
<1>3. /\ Shaped(t)
      /\ t.used["request"] = s.used["request"] + n
      /\ \A h \in Pools \ {"request"} : t.used[h] = s.used[h]
      /\ \A k \in Lines \ {"request"} : t.line[k] = s.line[k]
      /\ n = Len(s.line["request"]) => t.line["request"] = <<>>
  BY <1>1, <1>2, GrantShaped
<1> HIDE DEF t
<1>4. m \in 0 .. Len(t.line["bytes"])
  BY <1>3, FittingPrefixType
<1> HIDE DEF m
<1>5. /\ Shaped(u)
      /\ \A h \in Pools \ {"bytes"} : u.used[h] = t.used[h]
      /\ \A k \in Lines \ {"bytes"} : u.line[k] = t.line[k]
  BY <1>1, <1>3, <1>4, GrantShaped
<1> HIDE DEF u
<1>6. NoIdleBut(u, {})
  BY <1>2, <1>3, <1>5 DEF NoIdleBut, Served, Limiters, Lines, Pools
<1> QED
  BY <1>5, <1>6 DEF Good, DispatchPending, t, n, m, u

\* upstreamPool.dispatchLocked leaves no waiter of either lane beside a permit it
\* could take, and gives the reserved ones to interactive waiters only.
LEMMA DispatchUpstreamGood ==
  ASSUME NEW s, Shaped(s), NoIdleBut(s, {"general", "reserved"})
  PROVE  Good(DispatchUpstream(s))
<1> DEFINE n == Servable(s, "interactive", "reserved")
           t == Grant(s, "interactive", "reserved", n)
           m == Servable(t, "general", "general")
           u == Grant(t, "general", "general", m)
           k == Servable(u, "interactive", "general")
           v == Grant(u, "interactive", "general", k)
<1>1. /\ "interactive" \in Lines /\ "general" \in Lines
      /\ "reserved" \in Counted /\ "general" \in Counted
      /\ "reserved" \in Pools /\ "general" \in Pools
  BY DEF Lines, Pools, Counted
<1>2. /\ n \in 0 .. Len(s.line["interactive"])
      /\ s.used["reserved"] + n \in 0 .. Capacity["reserved"]
      /\ s.used["reserved"] + n = Capacity["reserved"] \/ n = Len(s.line["interactive"])
  BY <1>1, ServableType
<1> HIDE DEF n
<1>3. /\ Shaped(t)
      /\ t.used["reserved"] = s.used["reserved"] + n
      /\ \A h \in Pools \ {"reserved"} : t.used[h] = s.used[h]
      /\ \A l \in Lines \ {"interactive"} : t.line[l] = s.line[l]
      /\ n = Len(s.line["interactive"]) => t.line["interactive"] = <<>>
  BY <1>1, <1>2, GrantShaped
<1> HIDE DEF t
<1>4. /\ m \in 0 .. Len(t.line["general"])
      /\ t.used["general"] + m \in 0 .. Capacity["general"]
      /\ t.used["general"] + m = Capacity["general"] \/ m = Len(t.line["general"])
  BY <1>1, <1>3, ServableType
<1> HIDE DEF m
<1>5. /\ Shaped(u)
      /\ u.used["general"] = t.used["general"] + m
      /\ \A h \in Pools \ {"general"} : u.used[h] = t.used[h]
      /\ \A l \in Lines \ {"general"} : u.line[l] = t.line[l]
      /\ m = Len(t.line["general"]) => u.line["general"] = <<>>
  BY <1>1, <1>3, <1>4, GrantShaped
<1> HIDE DEF u
<1>6. /\ k \in 0 .. Len(u.line["interactive"])
      /\ u.used["general"] + k \in 0 .. Capacity["general"]
      /\ u.used["general"] + k = Capacity["general"] \/ k = Len(u.line["interactive"])
  BY <1>1, <1>5, ServableType
<1> HIDE DEF k
<1>7. /\ Shaped(v)
      /\ v.used["general"] = u.used["general"] + k
      /\ \A h \in Pools \ {"general"} : v.used[h] = u.used[h]
      /\ \A l \in Lines \ {"interactive"} : v.line[l] = u.line[l]
      /\ k = Len(u.line["interactive"]) => v.line["interactive"] = <<>>
      /\ u.line["interactive"] = <<>> => v.line["interactive"] = <<>>
  BY <1>1, <1>5, <1>6, GrantShaped
<1> HIDE DEF v
<1>8. Served(v, "interactive", "reserved")
  <2>1. v.used["reserved"] = s.used["reserved"] + n
    BY <1>3, <1>5, <1>7 DEF Pools
  <2>2. n = Len(s.line["interactive"]) => v.line["interactive"] = <<>>
    BY <1>3, <1>5, <1>7 DEF Lines
  <2> QED
    BY <1>2, <2>1, <2>2 DEF Served
<1>9. Served(v, "interactive", "general")
  BY <1>6, <1>7 DEF Served
<1>10. Served(v, "general", "general")
  <2>1. v.line["general"] = u.line["general"]
    BY <1>7 DEF Lines
  <2>2. u.used["general"] = Capacity["general"] => k = 0
    BY <1>1, <1>5, <1>6, CapacityAssumption DEF Shaped
  <2>3. u.used["general"] \in Nat
    BY <1>1, <1>5, CountedType
  <2> QED
    BY <1>4, <1>5, <1>7, <2>1, <2>2, <2>3 DEF Served
<1>11. \A g \in Limiters \cup {"request"} : Served(v, g, g)
  BY <1>3, <1>5, <1>7 DEF NoIdleBut, Served, Limiters, Lines, Pools
<1> QED
  BY <1>7, <1>8, <1>9, <1>10, <1>11, Zenon DEF Good, NoIdleBut, DispatchUpstream, n, t, m, u, k, v

\* A release or the return of a granted permit, whatever the pool.
LEMMA ReleaseGood ==
  ASSUME NEW s, Good(s), NEW g \in Pools, NEW n, g # "bytes" => n = 1
  PROVE  Good(Release(s, g, n))
<1> DEFINE t == Lower(s, g, n)
<1>1. /\ Shaped(t) /\ t.line = s.line
      /\ \A h \in Counted \ {g} : t.used[h] = s.used[h]
  BY LowerShaped DEF Good
<1> HIDE DEF t
<1>2. NoIdleBut(t, Group(g))
  BY <1>1 DEF Good, NoIdleBut, Served, Group, Counted, Pools, Limiters
<1>3. CASE g \in Limiters
  <2>1. Group(g) = {g} /\ Dispatch(t, g) = DispatchLimiter(t, g)
    BY <1>3 DEF Group, Dispatch, Limiters
  <2>2. Good(DispatchLimiter(t, g))
    BY <1>1, <1>2, <1>3, <2>1, DispatchLimiterGood
  <2> QED
    BY <2>1, <2>2 DEF Release, t
<1>4. CASE g \in {"request", "bytes"}
  BY <1>1, <1>2, <1>4, DispatchPendingGood DEF Release, Dispatch, Group, Limiters, t
<1>5. CASE g \in {"general", "reserved"}
  BY <1>1, <1>2, <1>5, DispatchUpstreamGood DEF Release, Dispatch, Group, Limiters, t
<1> QED
  BY <1>3, <1>4, <1>5 DEF Pools

\* pendingQuota.releaseRequest.
LEMMA ReleaseRequestGood ==
  ASSUME NEW s, Good(s), NEW n
  PROVE  Good(ReleaseRequest(s, n))
<1> DEFINE t == Lower(s, "request", 1)
           u == Lower(t, "bytes", n)
<1>1. /\ Shaped(t) /\ t.line = s.line
      /\ \A h \in Counted \ {"request"} : t.used[h] = s.used[h]
  BY LowerShaped DEF Good, Pools
<1> HIDE DEF t
<1>2. /\ Shaped(u) /\ u.line = t.line
      /\ \A h \in Counted \ {"bytes"} : u.used[h] = t.used[h]
  BY <1>1, LowerShaped DEF Pools
<1> HIDE DEF u
<1>3. NoIdleBut(u, {"request", "bytes"})
  BY <1>1, <1>2 DEF Good, NoIdleBut, Served, Counted, Pools, Limiters
<1> QED
  BY <1>2, <1>3, DispatchPendingGood DEF ReleaseRequest, t, u

\* An acquire that does not wait.
LEMMA TakeGood ==
  ASSUME NEW s, Good(s), NEW g \in Limiters \cup {"request", "bytes"}, NEW n,
         g # "bytes" => n = 1, AtOnce(s, g, n)
  PROVE  Good(Take(s, g, n)) /\ Take(s, g, n).rq = s.rq
<1> DEFINE t == Take(s, g, n)
           c == s.used[g] + n
<1>1. /\ t \in [used : {t.used}, line : {t.line}, rq : {t.rq}]
      /\ t.used = [s.used EXCEPT ![g] = c]
      /\ t.line = s.line /\ t.rq = s.rq
  BY DEF Take
<1>2. g \in Pools /\ (g \in Counted => c \in 0 .. Capacity[g]) /\ s.line[g] = <<>>
  <2>1. g \in Pools /\ (g \in Counted => n = 1)
    BY DEF Counted, Pools, Limiters
  <2>2. g \in Counted => /\ s.used[g] \in Nat /\ Capacity[g] \in Nat \ {0}
                         /\ s.used[g] <= Capacity[g]
    BY CountedType DEF Good
  <2> QED
    BY <2>1, <2>2 DEF AtOnce
<1> HIDE DEF c
<1>3. /\ t.used = [h \in Pools |-> t.used[h]]
      /\ \A h \in Pools \ {g} : t.used[h] = s.used[h]
      /\ \A h \in Counted : t.used[h] \in 0 .. Capacity[h]
  BY <1>1, <1>2 DEF Good, Shaped, Counted
<1> HIDE DEF t
<1>4. Shaped(t)
  BY <1>1, <1>3, Zenon DEF Good, Shaped
<1>5. NoIdleBut(t, {})
  BY <1>1, <1>2, <1>3 DEF Good, NoIdleBut, Served, Pools, Limiters
<1> QED
  BY <1>1, <1>4, <1>5 DEF Good, t

\* An acquire that waits: the limiters and the quota queue only when full, and the
\* upstream pool dispatches behind the new waiter.
LEMMA EnqueueGood ==
  ASSUME NEW s, Good(s), NEW r \in Reqs, NEW l \in Lines,
         l \in Limiters \cup {"request"} => ~AtOnce(s, l, 1),
         l = "interactive" => r \in Interactive
  PROVE  Good(Enqueue(s, r, l))
<1> DEFINE t == [used |-> s.used, line |-> [s.line EXCEPT ![l] = Append(@, r)],
                 rq |-> s.rq]
<1>1. /\ t \in [used : {t.used}, line : {t.line}, rq : {t.rq}]
      /\ t.used = s.used /\ t.rq = s.rq
      /\ t.line = [s.line EXCEPT ![l] = Append(@, r)]
  OBVIOUS
<1> HIDE DEF t
<1>2. /\ t.line \in [Lines -> Seq(Reqs)]
      /\ \A k \in Lines \ {l} : t.line[k] = s.line[k]
  BY <1>1 DEF Good, Shaped
<1>3. t.line["interactive"] \in Seq(Interactive)
  BY <1>1 DEF Good, Shaped, Lines
<1>4. Shaped(t)
  BY <1>1, <1>2, <1>3, Zenon DEF Good, Shaped
<1>5. CASE l \in {"general", "interactive"}
  <2>1. NoIdleBut(t, {"general", "reserved"})
    BY <1>1, <1>2, <1>5 DEF Good, NoIdleBut, Served, Limiters, Lines
  <2> QED
    BY <1>4, <1>5, <2>1, DispatchUpstreamGood DEF Enqueue, t
<1>6. CASE l = "bytes"
  <2>1. NoIdleBut(t, {})
    BY <1>1, <1>2, <1>6 DEF Good, NoIdleBut, Served, Limiters, Lines
  <2> QED
    BY <1>4, <1>6, <2>1 DEF Enqueue, Good, t
<1>7. CASE l \in Limiters \cup {"request"}
  <2>1. s.used[l] = Capacity[l]
    <3>1. l \in Counted
      BY <1>7 DEF Counted, Pools, Limiters
    <3>2. /\ s.used[l] \in Nat /\ Capacity[l] \in Nat \ {0}
          /\ s.used[l] <= Capacity[l]
      BY <3>1, CountedType DEF Good
    <3>3. s.line[l] # <<>> => s.used[l] = Capacity[l]
      BY <1>7 DEF Good, NoIdleBut, Served
    <3> QED
      BY <1>7, <3>2, <3>3 DEF AtOnce
  <2>2. NoIdleBut(t, {})
    BY <1>1, <1>2, <1>7, <2>1 DEF Good, NoIdleBut, Served, Limiters, Lines
  <2> QED
    BY <1>4, <1>7, <2>2 DEF Enqueue, Good, t, Limiters
<1> QED
  BY <1>5, <1>6, <1>7 DEF Lines

\* A waiter that gives up ungranted.
LEMMA RemoveGood ==
  ASSUME NEW s, Good(s), NEW r \in Reqs, NEW l \in Lines
  PROVE  Good(Remove(s, r, l))
<1> DEFINE w == s.line[l]
           i == CHOOSE j \in DOMAIN w : w[j] = r
           x == IF \E j \in DOMAIN w : w[j] = r
                THEN SubSeq(w, 1, i - 1) \o SubSeq(w, i + 1, Len(w)) ELSE w
           t == [used |-> s.used, rq |-> s.rq, line |-> [s.line EXCEPT ![l] = x]]
<1>1. /\ t \in [used : {t.used}, line : {t.line}, rq : {t.rq}]
      /\ t.used = s.used /\ t.rq = s.rq
      /\ t.line = [s.line EXCEPT ![l] = x]
  OBVIOUS
<1>2. w \in Seq(Reqs) /\ (l = "interactive" => w \in Seq(Interactive))
  BY DEF Good, Shaped
<1>3. x \in Seq(Reqs) /\ (l = "interactive" => x \in Seq(Interactive))
      /\ (w = <<>> => x = <<>>)
  <2>1. CASE \E j \in DOMAIN w : w[j] = r
    <3>1. i \in DOMAIN w
      BY <2>1
    <3>2. i \in 1 .. Len(w) /\ w # <<>>
      BY <1>2, <3>1
    <3> HIDE DEF w, i
    <3> QED
      BY <1>2, <2>1, <3>2
  <2>2. CASE ~ \E j \in DOMAIN w : w[j] = r
    BY <1>2, <2>2
  <2> QED
    BY <2>1, <2>2
<1> HIDE DEF x, t
<1>4. /\ t.line \in [Lines -> Seq(Reqs)]
      /\ \A k \in Lines \ {l} : t.line[k] = s.line[k]
      /\ t.line[l] = x
  BY <1>1, <1>3 DEF Good, Shaped
<1>5. t.line["interactive"] \in Seq(Interactive)
  BY <1>3, <1>4 DEF Good, Shaped, Lines
<1>6. Shaped(t)
  BY <1>1, <1>4, <1>5, Zenon DEF Good, Shaped
<1>7. NoIdleBut(t, {})
  BY <1>1, <1>3, <1>4 DEF Good, NoIdleBut, Served, Limiters, Lines
<1>8. CASE l \in {"general", "interactive"}
  <2>1. NoIdleBut(t, {"general", "reserved"})
    BY <1>7 DEF NoIdleBut
  <2> QED
    BY <1>6, <1>8, <2>1, DispatchUpstreamGood DEF Remove, t, x
<1>9. CASE l \notin {"general", "interactive"}
  BY <1>6, <1>7, <1>9, Zenon DEF Remove, Good, t, x
<1> QED
  BY <1>8, <1>9

\* A request may change as it likes as long as it holds no reserved permit it is
\* not entitled to.
LEMMA PutGood ==
  ASSUME NEW s, Good(s), NEW r \in Reqs, NEW p \in Requests,
         p.granted = "reserved" \/ "reserved" \in p.holds => r \in Interactive
  PROVE  LET t == Put(s, r, p) IN
         Good(t) /\ t.used = s.used /\ t.line = s.line /\ t.rq[r] = p
<1> DEFINE t == Put(s, r, p)
<1>1. /\ t \in [used : {t.used}, line : {t.line}, rq : {t.rq}]
      /\ t.used = s.used /\ t.line = s.line
      /\ t.rq = [s.rq EXCEPT ![r] = p]
  BY DEF Put
<1> HIDE DEF t
<1>2. t.rq \in [Reqs -> Requests] /\ t.rq[r] = p /\ \A x \in Reqs \ {r} : t.rq[x] = s.rq[x]
  BY <1>1 DEF Good, Shaped
<1>3. \A x \in Reqs : t.rq[x].granted = "reserved" \/ "reserved" \in t.rq[x].holds
                        => x \in Interactive
  BY <1>2, Zenon DEF Good, Shaped
<1>4. Shaped(t)
  BY <1>1, <1>2, <1>3, Zenon DEF Good, Shaped
<1>5. NoIdleBut(t, {})
  BY <1>1 DEF Good, NoIdleBut, Served
<1> QED
  BY <1>1, <1>2, <1>4, <1>5 DEF Good, t

\* A request that gains no permit may change as it likes.
LEMMA UpdateGood ==
  ASSUME NEW s, Good(s), NEW r \in Reqs, NEW p \in Requests,
         p.granted \in {s.rq[r].granted, "none"}, p.holds \subseteq s.rq[r].holds
  PROVE  LET t == Put(s, r, p) IN
         Good(t) /\ t.used = s.used /\ t.line = s.line /\ t.rq[r] = p
<1>1. p.granted = "reserved" \/ "reserved" \in p.holds => r \in Interactive
  BY DEF Good, Shaped
<1> QED
  BY <1>1, PutGood

\* What a well-formed scheduler knows of a request.
LEMMA RequestType ==
  ASSUME NEW s, Good(s), NEW r \in Reqs
  PROVE  /\ s.rq[r] \in Requests
         /\ s.rq[r].granted = "reserved" \/ "reserved" \in s.rq[r].holds => r \in Interactive
  BY DEF Good, Shaped

\* Moving a request to another step.
LEMMA GoGood ==
  ASSUME NEW s, Good(s), NEW r \in Reqs, NEW pc \in Steps
  PROVE  LET t == Go(s, r, pc) IN
         Good(t) /\ t.rq[r] = [s.rq[r] EXCEPT !.pc = pc]
<1> DEFINE q == s.rq[r]
           p == [q EXCEPT !.pc = pc]
<1>1. q \in Requests
  BY RequestType
<1>2. p \in Requests /\ p.granted = q.granted /\ p.holds = q.holds
  <2> HIDE DEF q
  <2> QED
    BY <1>1 DEF Requests
<1> HIDE DEF p
<1>3. Good(Put(s, r, p)) /\ Put(s, r, p).rq[r] = p
  BY <1>2, UpdateGood
<1> QED
  BY <1>3 DEF Go, p

\* An acquire leads to a step of the handler.
LEMMA AfterType ==
  ASSUME NEW q, NEW g
  PROVE  After(q, g) \in Steps
  BY DEF After, Steps

\* A request goes on with a permit that was counted for it.
LEMMA ObtainGood ==
  ASSUME NEW s, Good(s), NEW r \in Reqs, NEW g \in Pools,
         g = "reserved" => r \in Interactive
  PROVE  Good(Obtain(s, r, g))
<1> DEFINE q == s.rq[r]
           a == After(q, g)
           h == {g} \ {"request", "bytes"}
           e == IF g = "request" THEN "open" ELSE q.pending
           p == [q EXCEPT !.pc = a, !.granted = "none", !.holds = @ \cup h,
                          !.pending = e]
<1>1. q \in Requests /\ ("reserved" \in q.holds => r \in Interactive)
  BY RequestType
<1>2. a \in Steps
  BY AfterType
<1>3. h \subseteq Pools /\ ("reserved" \in h => r \in Interactive)
  OBVIOUS
<1>4. e \in {"none", "open", "closed", "job"}
  BY <1>1 DEF Requests
<1> HIDE DEF q, a, h, e
<1>5. p \in Requests /\ p.granted = "none" /\ p.holds = q.holds \cup h
  BY <1>1, <1>2, <1>3, <1>4, Zenon DEF Requests
<1> HIDE DEF p
<1>6. Good(Put(s, r, p))
  BY <1>1, <1>3, <1>5, PutGood
<1> QED
  BY <1>6 DEF Obtain, p, q, a, h, e

\* The acquire of a limiter or of the pending quota, waiting or not.
LEMMA JoinGood ==
  ASSUME NEW s, Good(s), NEW r \in Reqs, NEW g \in Limiters \cup {"request", "bytes"}
  PROVE  Good(Join(s, r, g))
<1> DEFINE q == s.rq[r]
           n == Cost(q, g)
           p == [q EXCEPT !.pc = "waiting", !.line = g]
           t == Put(s, r, p)
<1>1. g \in Pools /\ g # "reserved" /\ g \in Lines /\ g # "interactive"
  BY DEF Pools, Lines, Limiters
<1>2. g # "bytes" => n = 1
  BY DEF Cost
<1> HIDE DEF n
<1>3. CASE AtOnce(s, g, n)
  <2>1. Good(Take(s, g, n))
    BY <1>2, <1>3, TakeGood
  <2>2. Good(Obtain(Take(s, g, n), r, g))
    BY <1>1, <2>1, ObtainGood
  <2> QED
    BY <1>3, <2>2 DEF Join, n
<1>4. CASE ~AtOnce(s, g, n)
  <2>1. q \in Requests
    BY RequestType
  <2>2. p \in Requests /\ p.granted = q.granted /\ p.holds = q.holds
    <3> HIDE DEF q
    <3> QED
      BY <1>1, <2>1, Zenon DEF Requests, Steps
  <2> HIDE DEF p
  <2>3. Good(t) /\ t.used = s.used /\ t.line = s.line
    BY <2>2, UpdateGood
  <2> HIDE DEF t
  <2>4. g \in Limiters \cup {"request"} => ~AtOnce(t, g, 1)
    BY <1>2, <1>4, <2>3 DEF AtOnce, Limiters
  <2>5. Good(Enqueue(t, r, g))
    BY <1>1, <2>3, <2>4, EnqueueGood
  <2> QED
    BY <1>4, <2>5 DEF Join, n, t, p
<1> QED
  BY <1>3, <1>4

\* The quotas of a PendingRequest or JobLease go back.
LEMMA GiveBackGood ==
  ASSUME NEW s, Good(s), NEW r \in Reqs,
         NEW e \in {"none", "open", "closed", "job"}, NEW n \in Int
  PROVE  Good(ReleaseRequest(Put(s, r, [s.rq[r] EXCEPT !.pending = e, !.reserved = n]),
                             s.rq[r].reserved))
<1> DEFINE q == s.rq[r]
           p == [q EXCEPT !.pending = e, !.reserved = n]
<1>1. q \in Requests
  BY RequestType
<1>2. p \in Requests /\ p.granted = q.granted /\ p.holds = q.holds
  <2> HIDE DEF q
  <2> QED
    BY <1>1, Zenon DEF Requests
<1> HIDE DEF p
<1>3. Good(Put(s, r, p))
  BY <1>2, UpdateGood
<1>4. Good(ReleaseRequest(Put(s, r, p), q.reserved))
  BY <1>3, ReleaseRequestGood
<1> QED
  BY <1>4 DEF p

\* PendingRequest.finish and JobLease.Release.
LEMMA EndPendingGood ==
  ASSUME NEW s, Good(s), NEW r \in Reqs
  PROVE  Good(Finish(s, r)) /\ Good(ReleaseJob(s, r))
<1>1. /\ "closed" \in {"none", "open", "closed", "job"}
      /\ "none" \in {"none", "open", "closed", "job"}
      /\ 0 \in Int
  OBVIOUS
<1>2. Good(ReleaseRequest(Put(s, r, [s.rq[r] EXCEPT !.pending = "closed", !.reserved = 0]),
                          s.rq[r].reserved))
  BY <1>1, GiveBackGood, Zenon
<1>3. Good(ReleaseRequest(Put(s, r, [s.rq[r] EXCEPT !.pending = "none", !.reserved = 0]),
                          s.rq[r].reserved))
  BY <1>1, GiveBackGood, Zenon
<1> QED
  BY <1>2, <1>3, Zenon DEF Finish, ReleaseJob

\* Lease.Release.
LEMMA ReleaseLeaseGood ==
  ASSUME NEW s, Good(s), NEW r \in Reqs, NEW g \in Pools
  PROVE  Good(ReleaseLease(s, r, g))
<1> DEFINE q == s.rq[r]
           h == q.holds \ {g}
           p == [q EXCEPT !.holds = h]
<1>1. q \in Requests
  BY RequestType
<1>2. h \subseteq q.holds /\ h \subseteq Pools
  BY <1>1 DEF Requests
<1>3. p \in Requests /\ p.granted = q.granted /\ p.holds \subseteq q.holds
  <2> HIDE DEF q, h
  <2> QED
    BY <1>1, <1>2 DEF Requests
<1> HIDE DEF p
<1>4. Good(Put(s, r, p))
  BY <1>3, UpdateGood
<1>5. Good(Release(Put(s, r, p), g, 1))
  BY <1>4, ReleaseGood
<1> QED
  BY <1>5 DEF ReleaseLease, p

\* A step to a well-formed record is a step to a well-formed state.
LEMMA BecomeGood ==
  ASSUME NEW s, Good(s), Become(s)
  PROVE  Good(Pipeline)'
<1>1. /\ Pipeline' \in [used : {used'}, line : {line'}, rq : {rq'}]
      /\ Pipeline'.used = s.used /\ Pipeline'.line = s.line /\ Pipeline'.rq = s.rq
      /\ used' = s.used /\ line' = s.line /\ rq' = s.rq
  BY DEF Pipeline, Become
<1> QED
  BY <1>1, Zenon DEF Good, Shaped, NoIdleBut, Served

\* RequestType for the variables.
LEMMA CurrentRequest ==
  ASSUME Good(Pipeline), NEW r \in Reqs
  PROVE  /\ rq[r] \in Requests /\ Pipeline.rq = rq
         /\ rq[r].granted = "reserved" \/ "reserved" \in rq[r].holds => r \in Interactive
<1>1. Pipeline.rq = rq
  BY DEF Pipeline
<1> QED
  BY <1>1, RequestType

\* UpdateGood for the variables.
LEMMA ChangeGood ==
  ASSUME Good(Pipeline), NEW r \in Reqs, NEW p \in Requests,
         p.granted \in {rq[r].granted, "none"}, p.holds \subseteq rq[r].holds
  PROVE  Good(Put(Pipeline, r, p)) /\ Put(Pipeline, r, p).rq[r] = p
  BY CurrentRequest, UpdateGood

\* A new request.
LEMMA ArriveGood ==
  ASSUME Good(Pipeline), NEW r \in Reqs, Arrive(r)
  PROVE  Good(Pipeline)'
<1>1. PICK body \in Bodies :
        Become(Join(Put(Pipeline, r,
          [Idle EXCEPT !.sized = body.sized, !.left = body.size,
                       !.want  = IF body.sized THEN body.size ELSE 0]), r, "request"))
  BY Zenon DEF Arrive
<1> DEFINE w == IF body.sized THEN body.size ELSE 0
           p == [Idle EXCEPT !.sized = body.sized, !.left = body.size, !.want  = w]
<1>2. body.sized \in BOOLEAN /\ body.size \in Int /\ w \in Int
  BY BodyAssumption
<1>3. Idle \in Requests /\ Idle.granted = "none" /\ Idle.holds = {}
  BY IdleRecord
<1> HIDE DEF w
<1>4. p \in Requests /\ p.granted = Idle.granted /\ p.holds = Idle.holds
  BY <1>2, <1>3, Zenon DEF Requests
<1> HIDE DEF p
<1>5. Good(Put(Pipeline, r, p))
  BY <1>3, <1>4, ChangeGood
<1>6. Good(Join(Put(Pipeline, r, p), r, "request"))
  BY <1>5, JoinGood
<1> QED
  BY <1>1, <1>6, BecomeGood DEF p, w

\* The queue context, the closer goroutine and the two ways a wait ends.
LEMMA QueueGood ==
  ASSUME Good(Pipeline), NEW r \in Reqs,
         Expire(r) \/ CloseOnCancel(r) \/ Ready(r) \/ Leave(r)
  PROVE  Good(Pipeline)'
<1> DEFINE q == rq[r]
<1>1. /\ q \in Requests /\ Pipeline.rq = rq
      /\ q.granted = "reserved" \/ "reserved" \in q.holds => r \in Interactive
  BY CurrentRequest
<1>2. CASE Expire(r)
  <2> DEFINE yes == TRUE
             p == [q EXCEPT !.expired = yes]
  <2>1. yes \in BOOLEAN
    OBVIOUS
  <2>2. p \in Requests /\ p.granted = q.granted /\ p.holds = q.holds
    <3> HIDE DEF q, yes
    <3> QED
      BY <1>1, <2>1 DEF Requests
  <2> HIDE DEF p
  <2>3. Good(Put(Pipeline, r, p))
    BY <2>2, ChangeGood
  <2> QED
    BY <1>2, <2>3, BecomeGood DEF Expire, p
<1>3. CASE CloseOnCancel(r)
  BY <1>3, EndPendingGood, BecomeGood DEF CloseOnCancel
<1>4. CASE Ready(r)
  <2>1. q.granted \in Pools
    BY <1>1, <1>4 DEF Ready, Requests
  <2>2. Good(Obtain(Pipeline, r, q.granted))
    BY <1>1, <2>1, ObtainGood
  <2> QED
    BY <1>4, <2>2, BecomeGood DEF Ready
<1>5. CASE Leave(r)
  <2> DEFINE p == [q EXCEPT !.pc = "unwind", !.granted = "none"]
             s == Put(Pipeline, r, p)
             g == q.granted
  <2>1. p \in Requests /\ p.granted = "none" /\ p.holds = q.holds
    <3> HIDE DEF q
    <3> QED
      BY <1>1, Zenon DEF Requests, Steps
  <2> HIDE DEF p
  <2>2. Good(s)
    BY <2>1, ChangeGood
  <2> HIDE DEF s
  <2>3. q.line \in Lines /\ (g # "none" => g \in Pools)
    BY <1>1 DEF Requests
  <2>4. g # "none" => Good(Release(s, g, Cost(q, g)))
    BY <2>2, <2>3, ReleaseGood DEF Cost
  <2>5. Good(Remove(s, r, q.line))
    BY <2>2, <2>3, RemoveGood
  <2>6. IF g # "none" THEN Become(Release(s, g, Cost(q, g)))
        ELSE Become(Remove(s, r, q.line))
    BY <1>5, Zenon DEF Leave, s, p
  <2> QED
    BY <2>4, <2>5, <2>6, BecomeGood
<1> QED
  BY <1>2, <1>3, <1>4, <1>5

\* The reservation of bytes and the chunks that ask for them.
LEMMA BytesGood ==
  ASSUME Good(Pipeline), NEW r \in Reqs,
         ReserveBytes(r) \/ AddBytes(r) \/ ReadChunk(r)
  PROVE  Good(Pipeline)'
<1> DEFINE q == rq[r]
<1>1. q \in Requests /\ Pipeline.rq = rq
  BY CurrentRequest
<1>2. CASE ReserveBytes(r)
  <2>1. Good(Go(Pipeline, r, "unwind")) /\ Good(Go(Pipeline, r, "classify"))
    BY GoGood, Zenon DEF Steps
  <2>2. Good(Join(Pipeline, r, "bytes"))
    BY JoinGood
  <2>3. \/ Become(Go(Pipeline, r, "unwind")) \/ Become(Go(Pipeline, r, "classify"))
        \/ Become(Join(Pipeline, r, "bytes"))
    BY <1>2 DEF ReserveBytes
  <2> QED
    BY <2>1, <2>2, <2>3, BecomeGood
<1>3. CASE AddBytes(r)
  <2> DEFINE zero == 0
             u == [q EXCEPT !.pc = "unwind", !.want = zero]
             a == q.reserved + q.want
             b == q.left - q.want
             c == IF q.sized THEN "classify" ELSE "read"
             p == [q EXCEPT !.reserved = a, !.left = b, !.want = zero, !.pc = c]
  <2>1. zero \in Int /\ a \in Int /\ b \in Int /\ c \in Steps
    BY <1>1 DEF Requests, Steps
  <2>2. /\ u \in Requests /\ u.granted = q.granted /\ u.holds = q.holds
        /\ p \in Requests /\ p.granted = q.granted /\ p.holds = q.holds
    <3> HIDE DEF q, zero, a, b, c
    <3>1. u \in Requests /\ u.granted = q.granted /\ u.holds = q.holds
      BY <1>1, <2>1, Zenon DEF Requests, Steps
    <3>2. p \in Requests
      BY <1>1, <2>1, Zenon DEF Requests
    <3>3. p.granted = q.granted /\ p.holds = q.holds
      BY <1>1 DEF Requests
    <3> QED
      BY <3>1, <3>2, <3>3
  <2>3. IF q.pending = "closed"
        THEN Become(Release(Put(Pipeline, r, u), "bytes", q.want))
        ELSE Become(Put(Pipeline, r, p))
    BY <1>3 DEF AddBytes
  <2> HIDE DEF u, p
  <2>4. Good(Put(Pipeline, r, u)) /\ Good(Put(Pipeline, r, p))
    BY <2>2, ChangeGood
  <2>5. Good(Release(Put(Pipeline, r, u), "bytes", q.want))
    BY <2>4, ReleaseGood DEF Pools
  <2> QED
    BY <2>3, <2>4, <2>5, BecomeGood
<1>4. CASE ReadChunk(r)
  <2>1. PICK n \in 1 .. q.left :
          Become(Put(Pipeline, r, [q EXCEPT !.pc = "reserve", !.want = n]))
    BY <1>4, Zenon DEF ReadChunk
  <2> DEFINE p == [q EXCEPT !.pc = "reserve", !.want = n]
  <2>2. n \in Int
    BY <1>1 DEF Requests
  <2>3. p \in Requests /\ p.granted = q.granted /\ p.holds = q.holds
    <3> HIDE DEF q
    <3> QED
      BY <1>1, <2>2, Zenon DEF Requests, Steps
  <2> HIDE DEF p
  <2>4. Good(Put(Pipeline, r, p))
    BY <2>3, ChangeGood
  <2> QED
    BY <2>1, <2>4, BecomeGood DEF p
<1> QED
  BY <1>2, <1>3, <1>4

\* The rest of prepareResponsesRequest.
LEMMA AdmissionGood ==
  ASSUME Good(Pipeline), NEW r \in Reqs,
         \/ Classify(r) \/ EndRead(r) \/ HandoffPassthrough(r)
         \/ AcquireUpstream(r) \/ AdmitUpstream(r)
  PROVE  Good(Pipeline)'
<1> DEFINE q == rq[r]
           no == FALSE
           zero == 0
<1>1. q \in Requests /\ Pipeline.rq = rq
  BY CurrentRequest
<1>2. Good(Go(Pipeline, r, "unwind"))
  BY GoGood, Zenon DEF Steps
<1>3. no \in BOOLEAN /\ zero \in Int
  OBVIOUS
<1>4. CASE Classify(r)
  <2>1. Good(Join(Pipeline, r, "classification"))
    BY JoinGood DEF Limiters
  <2> QED
    BY <1>2, <1>4, <2>1, BecomeGood DEF Classify
<1>5. CASE EndRead(r)
  <2>1. PICK next \in Routes \cup {"unwind"} :
          Become(ReleaseLease(Go(Pipeline, r, next), r, "classification"))
    BY <1>5 DEF EndRead
  <2>2. Good(Go(Pipeline, r, next))
    BY GoGood, BodyAssumption, Zenon DEF Steps
  <2>3. Good(ReleaseLease(Go(Pipeline, r, next), r, "classification"))
    BY <2>2, ReleaseLeaseGood DEF Pools, Limiters
  <2> QED
    BY <2>1, <2>3, BecomeGood
<1>6. CASE HandoffPassthrough(r)
  <2> DEFINE p == [q EXCEPT !.pc = "forwarding", !.pending = "job", !.expired = no]
  <2>1. p \in Requests /\ p.granted = q.granted /\ p.holds = q.holds
    <3> HIDE DEF q, no
    <3> QED
      BY <1>1, <1>3, Zenon DEF Requests, Steps
  <2>2. Become(Go(Pipeline, r, "unwind")) \/ Become(Put(Pipeline, r, p))
    BY <1>6 DEF HandoffPassthrough
  <2> HIDE DEF p
  <2>3. Good(Put(Pipeline, r, p))
    BY <2>1, ChangeGood
  <2> QED
    BY <1>2, <2>2, <2>3, BecomeGood
<1>7. CASE AcquireUpstream(r)
  <2> DEFINE l == UpstreamLine(r)
             p == [q EXCEPT !.pc = "waiting", !.line = l]
  <2>1. /\ l \in Lines /\ l \notin Limiters \cup {"request"}
        /\ l = "interactive" => r \in Interactive
    BY DEF UpstreamLine, Lines, Limiters
  <2>2. p \in Requests /\ p.granted = q.granted /\ p.holds = q.holds
    <3> HIDE DEF q, l
    <3> QED
      BY <1>1, <2>1, Zenon DEF Requests, Steps
  <2>3. \/ Become(Go(Pipeline, r, "unwind"))
        \/ Become(Enqueue(Put(Pipeline, r, p), r, l))
    BY <1>7 DEF AcquireUpstream
  <2> HIDE DEF l, p
  <2>4. Good(Put(Pipeline, r, p))
    BY <2>2, ChangeGood
  <2>5. Good(Enqueue(Put(Pipeline, r, p), r, l))
    BY <2>1, <2>4, EnqueueGood
  <2> QED
    BY <1>2, <2>3, <2>5, BecomeGood
<1>8. CASE AdmitUpstream(r)
  <2> DEFINE p == [q EXCEPT !.pc = "dispatched", !.pending = "job",
                            !.reserved = zero, !.expired = no]
  <2>1. p \in Requests /\ p.granted = q.granted /\ p.holds = q.holds
    <3> HIDE DEF q, no, zero
    <3> QED
      BY <1>1, <1>3, Zenon DEF Requests, Steps
  <2>2. \/ Become(Go(Pipeline, r, "unwind"))
        \/ Become(Release(Put(Pipeline, r, p), "bytes", q.reserved))
    BY <1>8 DEF AdmitUpstream
  <2> HIDE DEF p
  <2>3. Good(Put(Pipeline, r, p))
    BY <2>1, ChangeGood
  <2>4. Good(Release(Put(Pipeline, r, p), "bytes", q.reserved))
    BY <2>3, ReleaseGood DEF Pools
  <2> QED
    BY <1>2, <2>2, <2>4, BecomeGood
<1> QED
  BY <1>4, <1>5, <1>6, <1>7, <1>8

\* The round trip and modifyResponse.
LEMMA ResponseGood ==
  ASSUME Good(Pipeline), NEW r \in Reqs,
         \/ FailRoundTrip(r) \/ CaptureResponse(r) \/ FinishCleanup(r)
         \/ AcquireTransform(r) \/ EndTransform(r) \/ FailTransform(r)
         \/ AcquireDelivery(r) \/ EndDelivery(r)
  PROVE  Good(Pipeline)'
<1> DEFINE q == rq[r]
           yes == TRUE
           no == FALSE
<1>1. q \in Requests /\ Pipeline.rq = rq
  BY CurrentRequest
<1>2. Good(Go(Pipeline, r, "unwind")) /\ Good(Go(Pipeline, r, "spooled"))
  BY GoGood, Zenon DEF Steps
<1>3. yes \in BOOLEAN /\ no \in BOOLEAN
  OBVIOUS
<1>4. CASE FailRoundTrip(r) \/ FailTransform(r)
  BY <1>2, <1>4, BecomeGood DEF FailRoundTrip, FailTransform
<1>5. CASE CaptureResponse(r)
  <2>1. PICK pc \in {"captured", "spooled", "unwind"} :
          Become(Put(Pipeline, r, [q EXCEPT !.pc = pc, !.detached = yes]))
    BY <1>5, Zenon DEF CaptureResponse
  <2> DEFINE p == [q EXCEPT !.pc = pc, !.detached = yes]
  <2>2. pc \in Steps
    BY DEF Steps
  <2>3. p \in Requests /\ p.granted = q.granted /\ p.holds = q.holds
    <3> HIDE DEF q, yes
    <3> QED
      BY <1>1, <1>3, <2>2, Zenon DEF Requests
  <2> HIDE DEF p
  <2>4. Good(Put(Pipeline, r, p))
    BY <2>3, ChangeGood
  <2> QED
    BY <2>1, <2>4, BecomeGood DEF p
<1>6. CASE FinishCleanup(r)
  <2> DEFINE p == [q EXCEPT !.detached = no]
  <2>1. PICK g \in q.holds \cap {"general", "reserved"} :
          Become(ReleaseLease(Put(Pipeline, r, p), r, g))
    BY <1>6 DEF FinishCleanup
  <2>2. p \in Requests /\ p.granted = q.granted /\ p.holds = q.holds
    <3> HIDE DEF q, no
    <3> QED
      BY <1>1, <1>3 DEF Requests
  <2> HIDE DEF p
  <2>3. Good(Put(Pipeline, r, p))
    BY <2>2, ChangeGood
  <2>4. Good(ReleaseLease(Put(Pipeline, r, p), r, g))
    BY <2>3, ReleaseLeaseGood DEF Pools
  <2> QED
    BY <2>1, <2>4, BecomeGood
<1>7. CASE AcquireTransform(r) \/ AcquireDelivery(r)
  <2>1. Good(Join(Pipeline, r, "transform")) /\ Good(Join(Pipeline, r, "delivery"))
    BY JoinGood DEF Limiters
  <2> QED
    BY <1>2, <1>7, <2>1, BecomeGood DEF AcquireTransform, AcquireDelivery
<1>8. CASE EndTransform(r) \/ EndDelivery(r)
  <2>1. /\ Good(ReleaseLease(Go(Pipeline, r, "spooled"), r, "transform"))
        /\ Good(ReleaseLease(Go(Pipeline, r, "unwind"), r, "delivery"))
    BY <1>2, ReleaseLeaseGood DEF Pools, Limiters
  <2> QED
    BY <1>8, <2>1, BecomeGood DEF EndTransform, EndDelivery
<1> QED
  BY <1>4, <1>5, <1>6, <1>7, <1>8

\* The two ways a request ends.
LEMMA EndGood ==
  ASSUME Good(Pipeline), NEW r \in Reqs, EndForward(r) \/ Unwind(r)
  PROVE  Good(Pipeline)'
<1> DEFINE q == rq[r]
<1>1. /\ q \in Requests /\ Pipeline.rq = rq
      /\ "reserved" \in q.holds => r \in Interactive
  BY CurrentRequest
<1>2. Good(ReleaseJob(Pipeline, r)) /\ Good(Finish(Pipeline, r))
  BY EndPendingGood
<1>3. Idle \in Requests /\ Idle.granted = "none" /\ Idle.holds = {}
  BY IdleRecord
<1>4. CASE EndForward(r)
  <2>1. Good(Put(Pipeline, r, Idle))
    BY <1>3, PutGood
  <2>2. Good(ReleaseRequest(Put(Pipeline, r, Idle), q.reserved))
    BY <2>1, ReleaseRequestGood
  <2> QED
    BY <1>4, <2>2, BecomeGood DEF EndForward
<1>5. ASSUME NEW g \in Owned(r), Become(ReleaseLease(Pipeline, r, g))
      PROVE  Good(Pipeline)'
  <2>1. g \in Pools
    BY <1>1 DEF Owned, Requests
  <2>2. Good(ReleaseLease(Pipeline, r, g))
    BY <2>1, ReleaseLeaseGood
  <2> QED
    BY <1>5, <2>2, BecomeGood
<1>6. ASSUME NEW s, Good(s),
             Become(Put(s, r, [Idle EXCEPT !.holds = q.holds, !.detached = q.detached]))
      PROVE  Good(Pipeline)'
  <2> DEFINE h == q.holds
             d == q.detached
             p == [Idle EXCEPT !.holds = h, !.detached = d]
  <2>1. h \in SUBSET Pools /\ d \in BOOLEAN
    BY <1>1 DEF Requests
  <2>2. p \in Requests /\ p.granted = "none" /\ p.holds = q.holds
    <3>1. p \in Requests /\ p.granted = Idle.granted /\ p.holds = h
      <4> HIDE DEF h, d
      <4> QED
        BY <1>3, <2>1, Zenon DEF Requests
    <3> QED
      BY <3>1, <1>3
  <2> HIDE DEF p
  <2>3. Good(Put(s, r, p))
    BY <1>1, <1>6, <2>2, PutGood
  <2> QED
    BY <1>6, <2>3, BecomeGood DEF p
<1>7. CASE Unwind(r)
  BY <1>2, <1>5, <1>6, <1>7 DEF Unwind
<1> QED
  BY <1>4, <1>7

\* Every step of the pipeline keeps the invariant.
LEMMA StepGood ==
  ASSUME Good(Pipeline), [Next]_vars
  PROVE  Good(Pipeline)'
<1>1. CASE UNCHANGED vars
  <2>1. Become(Pipeline)
    BY <1>1 DEF vars, Become, Pipeline
  <2> QED
    BY <2>1, BecomeGood
<1>2. ASSUME NEW r \in Reqs, Progress(r)
      PROVE  Good(Pipeline)'
  BY <1>2, QueueGood, BytesGood, AdmissionGood, ResponseGood, EndGood DEF Progress
<1>3. ASSUME NEW r \in Reqs, Read(r) \/ Network(r)
      PROVE  Good(Pipeline)'
  BY <1>3, BytesGood, AdmissionGood, ResponseGood, EndGood DEF Read, Network
<1>4. ASSUME NEW r \in Reqs, Arrive(r) \/ Expire(r) \/ CloseOnCancel(r)
      PROVE  Good(Pipeline)'
  BY <1>4, ArriveGood, QueueGood
<1> QED
  BY <1>1, <1>2, <1>3, <1>4 DEF Next

-----------------------------------------------------------------------------
(***************************************************************************)
(* The pools of scheduler.go count exactly the slots and permits that are  *)
(* out. The invariant Sound says of each request which leases its step     *)
(* holds (Proper), of each line that it lists distinct waiters (Queued),   *)
(* and of each pool what it counts (Owes). Owes(s, D) is what holds inside *)
(* a step, between the update of a request and that of the pools D, which  *)
(* count one permit that nobody holds.                                     *)
(***************************************************************************)
Upstream == {"general", "reserved"}

\* The pools whose permits the waiters of line l receive.
Needs(l) == IF l = "interactive" THEN Upstream ELSE {l}

\* The limiter leases a request holds at its step.
Leases(q) ==
  CASE q.pc = "read"         -> {"classification"}
    [] q.pc = "transforming" -> {"transform"}
    [] q.pc = "delivering"   -> {"delivery"}
    [] \/ q.pc \in {"reserve", "add"}
       \/ q.pc = "waiting" /\ q.line = "bytes" -> IF q.sized THEN {} ELSE {"classification"}
    [] OTHER                 -> {}

\* It has asked for its slot and has neither a slot nor a lease yet.
Asking(q) == q.pc = "waiting" /\ q.line = "request"

\* It has its slot and is on its way to the upstream.
Early(q) == \/ q.pc \in {"reserve", "add", "classify", "read", "handoff", "acquire"}
            \/ q.pc = "waiting" /\ q.line \in QueueLines \ {"request"}

Proper(q) ==
  /\ q.holds \subseteq Limiters \cup Upstream
  /\ q.pc # "unwind" => q.holds \cap Limiters = Leases(q)
  /\ ~(Upstream \subseteq q.holds)
  /\ Early(q) \/ Asking(q) \/ q.pc = "forwarding" => q.holds \cap Upstream = {}
  /\ q.pc = "idle" => q.holds = {} \/ q.detached
  /\ q.granted # "none" => q.pc = "waiting" /\ q.granted \in Needs(q.line)
  /\ Early(q) \/ q.pc = "admit" => q.pending \in {"open", "closed"}
  /\ q.pc = "forwarding" => q.pending = "job"
  /\ q.pc = "idle" \/ Asking(q) => q.pending = "none"
  /\ q.pc = "reserve" /\ ~q.sized => q.want # 0

Waiter(q, l) == q.pc = "waiting" /\ q.line = l /\ q.granted = "none"

Queued(s) ==
  \A l \in Lines :
    /\ \A i, j \in 1 .. Len(s.line[l]) : s.line[l][i] = s.line[l][j] => i = j
    /\ \A i \in 1 .. Len(s.line[l]) : Waiter(s.rq[s.line[l][i]], l)

\* Somebody is answerable for a slot or a permit of g.
Has(q, g) == IF g = "request" THEN q.pending \in {"open", "job"} \/ q.granted = "request"
             ELSE g \in q.holds \/ q.granted = g

Holders(s, g) == {r \in Reqs : Has(s.rq[r], g)}

Owes(s, D) ==
  \A g \in Counted : s.used[g] = Cardinality(Holders(s, g)) + (IF g \in D THEN 1 ELSE 0)

Sound(s, D) == (\A r \in Reqs : Proper(s.rq[r])) /\ Queued(s) /\ Owes(s, D)

\* Request r is in no line.
Outside(s, r) == \A l \in Lines : \A i \in 1 .. Len(s.line[l]) : s.line[l][i] # r

\* A critical section touches the requests in its lines only.
Keeps(s, t) == \A r \in Reqs : Outside(s, r) => Outside(t, r) /\ t.rq[r] = s.rq[r]

\* The holders of a pool are finitely many.
LEMMA HoldersFinite ==
  ASSUME Counting, NEW s, NEW g
  PROVE  IsFiniteSet(Holders(s, g)) /\ Cardinality(Holders(s, g)) \in Nat
<1>1. Holders(s, g) \in SUBSET Reqs
  BY DEF Holders
<1> QED
  BY <1>1, Zenon DEF Counting

\* The first n waiters of a line of distinct ones are n.
LEMMA PrefixCardinality ==
  ASSUME Counting, NEW w \in Seq(Reqs), NEW n \in 0 .. Len(w),
         \A i, j \in 1 .. Len(w) : w[i] = w[j] => i = j
  PROVE  LET F == Range(SubSeq(w, 1, n)) IN
         /\ F = {w[i] : i \in 1 .. n}
         /\ F \subseteq Reqs /\ Cardinality(F) = n
<1> DEFINE v == SubSeq(w, 1, n)
           F == {w[i] : i \in 1 .. n}
<1>1. n \in Nat /\ Len(w) \in Nat /\ n <= Len(w)
  OBVIOUS
<1>2. v \in Seq(Reqs) /\ Len(v) = n /\ DOMAIN v = 1 .. n /\ \A i \in 1 .. n : v[i] = w[i]
  BY <1>1
<1> HIDE DEF v
<1>3. Range(v) = F
  BY <1>2 DEF Range
<1>4. Cardinality(F) = n
  BY Zenon DEF Counting
<1>5. F \subseteq Reqs
  BY <1>1
<1> QED
  BY <1>3, <1>4, <1>5, Zenon DEF v

\* A waiter does not hold what it waits for.
LEMMA WaiterLacks ==
  ASSUME NEW q \in Requests, Proper(q), NEW l \in Lines, Waiter(q, l), NEW g \in Needs(l)
  PROVE  ~Has(q, g)
<1>1. q.granted # g
  BY DEF Waiter, Needs, Upstream, Lines, Limiters
<1>2. CASE l = "request"
  BY <1>1, <1>2 DEF Waiter, Proper, Asking, Needs, Has
<1>3. CASE l \in {"general", "interactive"}
  <2>1. q.holds \cap Upstream = {} /\ g \in Upstream /\ g # "request"
    BY <1>3 DEF Waiter, Proper, Early, QueueLines, Lines, Needs, Upstream
  <2> QED
    BY <1>1, <2>1 DEF Has
<1>4. CASE l = "bytes"
  BY <1>1, <1>4 DEF Proper, Needs, Has, Limiters, Upstream
<1>5. CASE l \in Limiters
  <2>1. g = l /\ g # "request" /\ g \in Limiters
    BY <1>5 DEF Needs, Limiters
  <2>2. q.pc = "waiting" /\ q.line # "bytes"
    BY <1>5 DEF Waiter, Limiters
  <2>3. q.holds \cap Limiters = {}
    BY <2>2 DEF Proper, Leases
  <2> QED
    BY <1>1, <2>1, <2>3 DEF Has
<1> QED
  BY <1>2, <1>3, <1>4, <1>5 DEF Lines

\* The grant of a waiter makes it the holder of one permit more.
LEMMA GrantProper ==
  ASSUME NEW q \in Requests, Proper(q), NEW l \in Lines, Waiter(q, l),
         NEW g \in Needs(l) \cap Pools
  PROVE  LET p == [q EXCEPT !.granted = g] IN
         /\ Proper(p)
         /\ Has(p, g)
         /\ \A h \in Pools \ {g} : Has(p, h) <=> Has(q, h)
<1> DEFINE p == [q EXCEPT !.granted = g]
<1>1. /\ p.pc = q.pc /\ p.line = q.line /\ p.granted = g /\ p.sized = q.sized
      /\ p.want = q.want /\ p.pending = q.pending /\ p.holds = q.holds
      /\ p.detached = q.detached
  BY DEF Requests
<1> HIDE DEF p
<1>2. Proper(p)
  BY <1>1 DEF Proper, Early, Asking, Leases, Waiter
<1>3. Has(p, g)
  BY <1>1 DEF Has
<1>4. q.granted = "none" /\ "none" \notin Pools
  BY DEF Waiter, Pools, Limiters
<1>5. \A h \in Pools \ {g} : Has(p, h) <=> Has(q, h)
  BY <1>1, <1>4 DEF Has
<1> QED
  BY <1>2, <1>3, <1>5 DEF p

\* Serving the first waiters of a line counts each of them once.
LEMMA GrantSound ==
  ASSUME NEW s, Shaped(s), NEW D, Sound(s, D), NEW l \in Lines, NEW g \in Needs(l) \cap Pools,
         NEW n \in 0 .. Len(s.line[l])
  PROVE  LET t == Grant(s, l, g, n) IN Sound(t, D) /\ Keeps(s, t)
<1> DEFINE t == Grant(s, l, g, n)
           w == s.line[l]
           first == Range(SubSeq(w, 1, n))
           c == IF g = "bytes" THEN WantOf(s.rq, first) ELSE n
           x == SubSeq(w, n + 1, Len(w))
<1>0. Counting
  BY DEF Shaped
<1>1. /\ t.used = [s.used EXCEPT ![g] = @ + c]
      /\ t.line = [s.line EXCEPT ![l] = x]
      /\ t.rq = [r \in Reqs |-> IF r \in first THEN [s.rq[r] EXCEPT !.granted = g]
                                ELSE s.rq[r]]
  BY DEF Grant
<1>2. /\ w \in Seq(Reqs) /\ n \in Nat /\ Len(w) \in Nat /\ n <= Len(w)
      /\ \A i, j \in 1 .. Len(w) : w[i] = w[j] => i = j
      /\ \A i \in 1 .. Len(w) : Waiter(s.rq[w[i]], l)
  BY DEF Shaped, Sound, Queued
<1>3. /\ first = {w[i] : i \in 1 .. n}
      /\ first \subseteq Reqs /\ Cardinality(first) = n
  BY <1>0, <1>2, PrefixCardinality
<1>4. /\ Len(x) = Len(w) - n
      /\ \A i \in 1 .. Len(x) : x[i] = w[n + i]
  BY <1>2
<1>5. g # "bytes" => c = n
  OBVIOUS
<1> HIDE DEF t, w, first, c, x
<1>6. /\ \A m \in Lines \ {l} : t.line[m] = s.line[m]
      /\ t.line[l] = x
  BY <1>1 DEF Shaped
<1>7. /\ \A r \in first : t.rq[r] = [s.rq[r] EXCEPT !.granted = g]
      /\ \A r \in Reqs \ first : t.rq[r] = s.rq[r]
  BY <1>1, <1>3
<1>8. \A r \in first : s.rq[r] \in Requests /\ Proper(s.rq[r]) /\ Waiter(s.rq[r], l)
  BY <1>2, <1>3 DEF Shaped, Sound
<1>9. \A r \in first : /\ Proper(t.rq[r])
                       /\ Has(t.rq[r], g) /\ ~Has(s.rq[r], g)
                       /\ \A h \in Pools \ {g} : Has(t.rq[r], h) <=> Has(s.rq[r], h)
  <2> TAKE r \in first
  <2> DEFINE q == s.rq[r]
             p == [q EXCEPT !.granted = g]
  <2>1. q \in Requests /\ Proper(q) /\ Waiter(q, l) /\ t.rq[r] = p
    BY <1>7, <1>8
  <2> HIDE DEF q
  <2>2. Proper(p) /\ Has(p, g) /\ \A h \in Pools \ {g} : Has(p, h) <=> Has(q, h)
    BY <2>1, GrantProper
  <2>3. ~Has(q, g)
    BY <2>1, WaiterLacks
  <2> HIDE DEF p
  <2> QED
    BY <2>1, <2>2, <2>3 DEF q
<1>10. \A r \in Reqs : Proper(t.rq[r])
  BY <1>7, <1>9 DEF Sound
<1>11. Queued(t)
  <2> SUFFICES ASSUME NEW m \in Lines
               PROVE  /\ \A i, j \in 1 .. Len(t.line[m]) : t.line[m][i] = t.line[m][j] => i = j
                      /\ \A i \in 1 .. Len(t.line[m]) : Waiter(t.rq[t.line[m][i]], m)
    BY DEF Queued
  <2>1. CASE m = l
    <3>1. \A i, j \in 1 .. Len(x) : x[i] = x[j] => i = j
      BY <1>2, <1>4
    <3>2. \A i \in 1 .. Len(x) : x[i] \in Reqs \ first /\ Waiter(s.rq[x[i]], l)
      <4> TAKE i \in 1 .. Len(x)
      <4>1. x[i] = w[n + i] /\ n + i \in 1 .. Len(w) /\ n + i \notin 1 .. n
        BY <1>2, <1>4
      <4>2. w[n + i] \notin first
        BY <1>2, <1>3, <4>1
      <4> QED
        BY <1>2, <4>1, <4>2
    <3> QED
      BY <1>6, <1>7, <2>1, <3>1, <3>2
  <2>2. CASE m # l
    <3>1. t.line[m] = s.line[m] /\ s.line[m] \in Seq(Reqs)
      BY <1>6, <2>2 DEF Shaped
    <3>2. \A i \in 1 .. Len(s.line[m]) : s.line[m][i] \in Reqs /\ Waiter(s.rq[s.line[m][i]], m)
      BY <3>1 DEF Sound, Queued
    <3>3. \A i \in 1 .. Len(s.line[m]) : s.line[m][i] \notin first
      BY <1>8, <2>2, <3>2 DEF Waiter
    <3>4. \A i, j \in 1 .. Len(s.line[m]) : s.line[m][i] = s.line[m][j] => i = j
      BY DEF Sound, Queued
    <3> QED
      BY <1>7, <3>1, <3>2, <3>3, <3>4
  <2> QED
    BY <2>1, <2>2
<1>12. Owes(t, D)
  <2> SUFFICES ASSUME NEW h \in Counted
               PROVE  t.used[h] = Cardinality(Holders(t, h)) + (IF h \in D THEN 1 ELSE 0)
    BY DEF Owes
  <2>0. s.used[h] = Cardinality(Holders(s, h)) + (IF h \in D THEN 1 ELSE 0)
    BY DEF Sound, Owes
  <2>1. CASE h # g
    <3>1. Holders(t, h) = Holders(s, h)
      BY <1>3, <1>7, <1>9, <2>1 DEF Holders, Counted
    <3>2. t.used[h] = s.used[h]
      BY <1>1, <2>1 DEF Shaped, Counted
    <3> QED
      BY <2>0, <3>1, <3>2
  <2>2. CASE h = g
    <3>1. Holders(t, g) = Holders(s, g) \cup first /\ Holders(s, g) \cap first = {}
      BY <1>3, <1>7, <1>9 DEF Holders
    <3>2. Cardinality(Holders(t, g)) = Cardinality(Holders(s, g)) + n
      <4>1. Holders(s, g) \in SUBSET Reqs /\ first \in SUBSET Reqs
        BY <1>3 DEF Holders
      <4>2. Cardinality(Holders(s, g) \cup first) = Cardinality(Holders(s, g)) + Cardinality(first)
        BY <1>0, <3>1, <4>1, Zenon DEF Counting
      <4> QED
        BY <1>3, <3>1, <4>2, Zenon
    <3>3. t.used[g] = s.used[g] + n
      BY <1>1, <1>5, <2>2 DEF Shaped, Counted
    <3> QED
      BY <1>0, <1>2, <2>0, <2>2, <3>2, <3>3, HoldersFinite
  <2> QED
    BY <2>1, <2>2
<1>13. Keeps(s, t)
  <2> SUFFICES ASSUME NEW r \in Reqs, Outside(s, r) PROVE Outside(t, r) /\ t.rq[r] = s.rq[r]
    BY DEF Keeps
  <2>1. r \notin first
    BY <1>2, <1>3 DEF Outside, w
  <2>2. \A i \in 1 .. Len(x) : x[i] # r
    BY <1>2, <1>4 DEF Outside, w
  <2> QED
    BY <1>6, <1>7, <2>1, <2>2 DEF Outside
<1> QED
  BY <1>10, <1>11, <1>12, <1>13 DEF Sound, t

\* One critical section after the other.
LEMMA KeepsTransitive ==
  ASSUME NEW s, NEW t, NEW u, Keeps(s, t), Keeps(t, u)
  PROVE  Keeps(s, u)
BY DEF Keeps

\* fifoLimiter.dispatchLocked.
LEMMA DispatchLimiterSound ==
  ASSUME NEW s, Shaped(s), Sound(s, {}), NEW g \in Limiters
  PROVE  Sound(DispatchLimiter(s, g), {}) /\ Keeps(s, DispatchLimiter(s, g))
<1>1. g \in Lines /\ g \in Counted /\ g \in Needs(g) \cap Pools
  BY DEF Limiters, Lines, Pools, Counted, Needs
<1>2. Servable(s, g, g) \in 0 .. Len(s.line[g])
  BY <1>1, ServableType
<1> QED
  BY <1>1, <1>2, GrantSound DEF DispatchLimiter

\* pendingQuota.dispatchLocked.
LEMMA DispatchPendingSound ==
  ASSUME NEW s, Shaped(s), Sound(s, {})
  PROVE  Sound(DispatchPending(s), {}) /\ Keeps(s, DispatchPending(s))
<1> DEFINE n == Servable(s, "request", "request")
           t == Grant(s, "request", "request", n)
           m == FittingPrefix(t)
           u == Grant(t, "bytes", "bytes", m)
<1>1. /\ "request" \in Lines /\ "request" \in Counted /\ "request" \in Needs("request") \cap Pools
      /\ "bytes" \in Lines /\ "bytes" \notin Counted /\ "bytes" \in Needs("bytes") \cap Pools
  BY DEF Lines, Pools, Counted, Needs
<1>2. /\ n \in 0 .. Len(s.line["request"])
      /\ s.used["request"] + n \in 0 .. Capacity["request"]
  BY <1>1, ServableType
<1> HIDE DEF n
<1>3. Shaped(t) /\ Sound(t, {}) /\ Keeps(s, t)
  BY <1>1, <1>2, GrantShaped, GrantSound
<1> HIDE DEF t
<1>4. m \in 0 .. Len(t.line["bytes"])
  BY <1>3, FittingPrefixType
<1> HIDE DEF m
<1>5. Sound(u, {}) /\ Keeps(t, u)
  BY <1>1, <1>3, <1>4, GrantSound
<1> HIDE DEF u
<1> QED
  BY <1>3, <1>5, KeepsTransitive DEF DispatchPending, t, n, m, u

\* upstreamPool.dispatchLocked.
LEMMA DispatchUpstreamSound ==
  ASSUME NEW s, Shaped(s), Sound(s, {})
  PROVE  Sound(DispatchUpstream(s), {}) /\ Keeps(s, DispatchUpstream(s))
<1> DEFINE n == Servable(s, "interactive", "reserved")
           t == Grant(s, "interactive", "reserved", n)
           m == Servable(t, "general", "general")
           u == Grant(t, "general", "general", m)
           k == Servable(u, "interactive", "general")
           v == Grant(u, "interactive", "general", k)
<1>1. /\ "interactive" \in Lines /\ "general" \in Lines
      /\ "reserved" \in Counted /\ "general" \in Counted
      /\ "reserved" \in Needs("interactive") \cap Pools
      /\ "general" \in Needs("interactive") \cap Pools
      /\ "general" \in Needs("general") \cap Pools
  BY DEF Lines, Pools, Counted, Needs, Upstream
<1>2. /\ n \in 0 .. Len(s.line["interactive"])
      /\ s.used["reserved"] + n \in 0 .. Capacity["reserved"]
  BY <1>1, ServableType
<1> HIDE DEF n
<1>3. Shaped(t) /\ Sound(t, {}) /\ Keeps(s, t)
  BY <1>1, <1>2, GrantShaped, GrantSound
<1> HIDE DEF t
<1>4. /\ m \in 0 .. Len(t.line["general"])
      /\ t.used["general"] + m \in 0 .. Capacity["general"]
  BY <1>1, <1>3, ServableType
<1> HIDE DEF m
<1>5. Shaped(u) /\ Sound(u, {}) /\ Keeps(t, u)
  BY <1>1, <1>3, <1>4, GrantShaped, GrantSound
<1> HIDE DEF u
<1>6. k \in 0 .. Len(u.line["interactive"])
  BY <1>1, <1>5, ServableType
<1> HIDE DEF k
<1>7. Sound(v, {}) /\ Keeps(u, v)
  BY <1>1, <1>5, <1>6, GrantSound
<1> HIDE DEF v
<1> QED
  BY <1>3, <1>5, <1>7, KeepsTransitive DEF DispatchUpstream, n, t, m, u, k, v

\* Giving back what nobody holds any more. The clamping of the counters has no
\* effect: a permit that goes back was counted.
LEMMA LowerSound ==
  ASSUME NEW s, Shaped(s), NEW D, NEW g \in Pools, Sound(s, D \cup {g}), g \notin D,
         NEW n, g # "bytes" => n = 1
  PROVE  Sound(Lower(s, g, n), D) /\ Keeps(s, Lower(s, g, n))
<1> DEFINE t == Lower(s, g, n)
           u == IF s.used[g] > n THEN s.used[g] - n ELSE 0
<1>0. Counting
  BY DEF Shaped
<1>1. t.used = [s.used EXCEPT ![g] = u] /\ t.line = s.line /\ t.rq = s.rq
  BY DEF Lower
<1>2. g # "bytes" => s.used[g] = Cardinality(Holders(s, g)) + 1
  BY DEF Sound, Owes, Counted
<1>3. g # "bytes" => u = Cardinality(Holders(s, g))
  BY <1>0, <1>2, HoldersFinite
<1> HIDE DEF t, u
<1>4. \A h \in Counted : /\ Holders(t, h) = Holders(s, h)
                         /\ t.used[h] = IF h = g THEN u ELSE s.used[h]
  BY <1>1 DEF Holders, Shaped, Counted
<1>5. Owes(t, D)
  <2> SUFFICES ASSUME NEW h \in Counted
               PROVE  t.used[h] = Cardinality(Holders(t, h)) + (IF h \in D THEN 1 ELSE 0)
    BY DEF Owes
  <2>1. CASE h = g
    BY <1>0, <1>3, <1>4, <2>1, HoldersFinite DEF Counted
  <2>2. CASE h # g
    BY <1>4, <2>2 DEF Sound, Owes
  <2> QED
    BY <2>1, <2>2
<1>6. (\A r \in Reqs : Proper(t.rq[r])) /\ Queued(t) /\ Keeps(s, t)
  BY <1>1 DEF Sound, Queued, Keeps, Outside
<1> QED
  BY <1>5, <1>6 DEF Sound, t

\* A release or the return of a granted permit, whatever the pool.
LEMMA ReleaseSound ==
  ASSUME NEW s, Good(s), NEW g \in Pools, Sound(s, {g}), NEW n, g # "bytes" => n = 1
  PROVE  Sound(Release(s, g, n), {}) /\ Keeps(s, Release(s, g, n))
<1> DEFINE t == Lower(s, g, n)
<1>1. {} \cup {g} = {g} /\ g \notin {}
  OBVIOUS
<1>2. Shaped(t) /\ Sound(t, {}) /\ Keeps(s, t)
  BY <1>1, LowerShaped, LowerSound DEF Good
<1> HIDE DEF t
<1>3. Sound(Dispatch(t, g), {}) /\ Keeps(t, Dispatch(t, g))
  <2>1. CASE g \in Limiters
    <3>1. Dispatch(t, g) = DispatchLimiter(t, g)
      BY <2>1 DEF Dispatch, Limiters
    <3> QED
      BY <1>2, <2>1, <3>1, DispatchLimiterSound
  <2>2. CASE g \in {"request", "bytes"}
    BY <1>2, <2>2, DispatchPendingSound DEF Dispatch, Limiters
  <2>3. CASE g \in {"general", "reserved"}
    BY <1>2, <2>3, DispatchUpstreamSound DEF Dispatch, Limiters
  <2> QED
    BY <2>1, <2>2, <2>3 DEF Pools
<1> QED
  BY <1>2, <1>3, KeepsTransitive DEF Release, t

\* pendingQuota.releaseRequest.
LEMMA ReleaseRequestSound ==
  ASSUME NEW s, Good(s), Sound(s, {"request"}), NEW n
  PROVE  Sound(ReleaseRequest(s, n), {}) /\ Keeps(s, ReleaseRequest(s, n))
<1> DEFINE t == Lower(s, "request", 1)
           u == Lower(t, "bytes", n)
<1>1. {} \cup {"request"} = {"request"} /\ "request" \in Pools /\ "bytes" \in Pools
  BY DEF Pools
<1>2. Shaped(t) /\ Sound(t, {}) /\ Keeps(s, t)
  BY <1>1, LowerShaped, LowerSound DEF Good
<1> HIDE DEF t
<1>3. Sound(t, {} \cup {"bytes"})
  BY <1>2 DEF Sound, Owes, Counted
<1>4. Shaped(u) /\ Sound(u, {}) /\ Keeps(t, u)
  BY <1>1, <1>2, <1>3, LowerShaped, LowerSound
<1> HIDE DEF u
<1> QED
  BY <1>2, <1>4, DispatchPendingSound, KeepsTransitive DEF ReleaseRequest, t, u

\* How a request that becomes p changes what is owed to pool g.
Balances(q, p, g, D, E) ==
  \/ (Has(p, g) <=> Has(q, g)) /\ (g \in E <=> g \in D)
  \/ Has(q, g) /\ ~Has(p, g) /\ g \in E /\ g \notin D
  \/ ~Has(q, g) /\ Has(p, g) /\ g \notin E /\ g \in D

\* It goes on waiting.
InPlace(q, p) == p.pc = q.pc /\ p.line = q.line /\ p.granted = q.granted

\* A request outside the lines, or one that goes on waiting, changes: the pools
\* whose permit it drops are owed one, the ones whose permit it takes no longer.
LEMMA PutSound ==
  ASSUME NEW s, Good(s), NEW D, NEW E, Sound(s, D), NEW r \in Reqs,
         NEW p \in Requests, Proper(p), Outside(s, r) \/ InPlace(s.rq[r], p),
         \A g \in Counted : Balances(s.rq[r], p, g, D, E)
  PROVE  LET t == Put(s, r, p) IN
         Sound(t, E) /\ t.rq[r] = p /\ \A x \in Reqs : Outside(s, x) => Outside(t, x)
<1> DEFINE t == Put(s, r, p)
<1>0. Counting
  BY DEF Good, Shaped
<1>1. t.used = s.used /\ t.line = s.line /\ t.rq = [s.rq EXCEPT ![r] = p]
  BY DEF Put
<1> HIDE DEF t
<1>2. t.rq[r] = p /\ \A x \in Reqs \ {r} : t.rq[x] = s.rq[x]
  BY <1>1 DEF Good, Shaped
<1>3. (\A x \in Reqs : Outside(s, x) => Outside(t, x)) /\ \A x \in Reqs : Proper(t.rq[x])
  BY <1>1, <1>2, Zenon DEF Outside, Sound
<1>4. Queued(t)
  <2> SUFFICES ASSUME NEW l \in Lines, NEW i \in 1 .. Len(s.line[l])
               PROVE  Waiter(t.rq[s.line[l][i]], l)
    BY <1>1 DEF Queued, Sound
  <2>1. s.line[l][i] \in Reqs /\ Waiter(s.rq[s.line[l][i]], l)
    BY DEF Good, Shaped, Sound, Queued
  <2>2. CASE s.line[l][i] # r
    BY <1>2, <2>1, <2>2, Zenon
  <2>3. CASE s.line[l][i] = r
    <3>1. InPlace(s.rq[r], p)
      BY <2>3 DEF Outside
    <3> QED
      BY <1>2, <2>1, <2>3, <3>1 DEF Waiter, InPlace
  <2> QED
    BY <2>2, <2>3, Zenon
<1>5. Owes(t, E)
  <2> SUFFICES ASSUME NEW g \in Counted
               PROVE  t.used[g] = Cardinality(Holders(t, g)) + (IF g \in E THEN 1 ELSE 0)
    BY DEF Owes
  <2> DEFINE H == Holders(s, g)
             K == Holders(t, g)
  <2>0. /\ t.used[g] = Cardinality(H) + (IF g \in D THEN 1 ELSE 0)
        /\ IsFiniteSet(H) /\ Cardinality(H) \in Nat
    BY <1>0, <1>1, HoldersFinite DEF Sound, Owes
  <2>1. K = IF Has(p, g) THEN H \cup {r} ELSE H \ {r}
    BY <1>2 DEF Holders
  <2>2. H \in SUBSET Reqs /\ (r \in H <=> Has(s.rq[r], g))
    BY DEF Holders
  <2> HIDE DEF H, K
  <2>3. /\ Cardinality(H \cup {r}) = IF r \in H THEN Cardinality(H) ELSE Cardinality(H) + 1
        /\ Cardinality(H \ {r}) = IF r \in H THEN Cardinality(H) - 1 ELSE Cardinality(H)
    BY <1>0, <2>2, Zenon DEF Counting
  <2>4. Balances(s.rq[r], p, g, D, E)
    OBVIOUS
  <2>5. CASE (Has(p, g) <=> Has(s.rq[r], g)) /\ (g \in E <=> g \in D)
    BY <2>0, <2>1, <2>2, <2>3, <2>5, Zenon DEF K
  <2>6. CASE Has(s.rq[r], g) /\ ~Has(p, g) /\ g \in E /\ g \notin D
    BY <2>0, <2>1, <2>2, <2>3, <2>6 DEF K
  <2>7. CASE ~Has(s.rq[r], g) /\ Has(p, g) /\ g \notin E /\ g \in D
    BY <2>0, <2>1, <2>2, <2>3, <2>7 DEF K
  <2> QED
    BY <2>4, <2>5, <2>6, <2>7, Zenon DEF Balances
<1> QED
  BY <1>2, <1>3, <1>4, <1>5 DEF Sound, t

\* An acquire that waits behind the others of its line.
LEMMA EnqueueSound ==
  ASSUME NEW s, Good(s), Sound(s, {}), NEW r \in Reqs, NEW l \in Lines, Outside(s, r),
         Waiter(s.rq[r], l), l = "interactive" => r \in Interactive
  PROVE  Sound(Enqueue(s, r, l), {})
<1> DEFINE w == s.line[l]
           x == Append(w, r)
           t == [used |-> s.used, line |-> [s.line EXCEPT ![l] = x], rq |-> s.rq]
<1>1. /\ t \in [used : {t.used}, line : {t.line}, rq : {t.rq}]
      /\ t.used = s.used /\ t.rq = s.rq /\ t.line = [s.line EXCEPT ![l] = x]
  OBVIOUS
<1>2. w \in Seq(Reqs) /\ (l = "interactive" => w \in Seq(Interactive))
  BY DEF Good, Shaped
<1>3. /\ x \in Seq(Reqs) /\ (l = "interactive" => x \in Seq(Interactive))
      /\ Len(w) \in Nat /\ Len(x) = Len(w) + 1 /\ x[Len(w) + 1] = r
      /\ \A i \in 1 .. Len(w) : x[i] = w[i]
  BY <1>2
<1>4. \A i \in 1 .. Len(w) : w[i] # r
  BY DEF Outside
<1>5. /\ \A i, j \in 1 .. Len(w) : w[i] = w[j] => i = j
      /\ \A i \in 1 .. Len(w) : Waiter(s.rq[w[i]], l)
  BY DEF Sound, Queued
<1> HIDE DEF t, x, w
<1>6. /\ t.line \in [Lines -> Seq(Reqs)] /\ t.line[l] = x
      /\ \A k \in Lines \ {l} : t.line[k] = s.line[k]
  BY <1>1, <1>3 DEF Good, Shaped
<1>7. t.line["interactive"] \in Seq(Interactive)
  BY <1>3, <1>6 DEF Good, Shaped, Lines
<1>8. Shaped(t)
  BY <1>1, <1>6, <1>7, Zenon DEF Good, Shaped
<1>9. \A i \in 1 .. Len(x) : i = Len(w) + 1 \/ i \in 1 .. Len(w)
  BY <1>3
<1>10. /\ \A i, j \in 1 .. Len(x) : x[i] = x[j] => i = j
       /\ \A i \in 1 .. Len(x) : Waiter(s.rq[x[i]], l)
  BY <1>3, <1>4, <1>5, <1>9
<1>11. Queued(t)
  BY <1>1, <1>6, <1>10 DEF Sound, Queued
<1>12. Sound(t, {})
  BY <1>1, <1>11 DEF Sound, Owes, Holders
<1>13. Enqueue(s, r, l) = IF l \in {"general", "interactive"} THEN DispatchUpstream(t) ELSE t
  BY DEF Enqueue, t, x, w
<1> QED
  BY <1>8, <1>12, <1>13, DispatchUpstreamSound

\* A sequence without its element i.
LEMMA WithoutIndex ==
  ASSUME NEW S, NEW w \in Seq(S), NEW i \in 1 .. Len(w)
  PROVE  LET x == SubSeq(w, 1, i - 1) \o SubSeq(w, i + 1, Len(w)) IN
         /\ x \in Seq(S) /\ Len(x) = Len(w) - 1
         /\ \A k \in 1 .. Len(x) : x[k] = IF k < i THEN w[k] ELSE w[k + 1]
<1> DEFINE y == SubSeq(w, 1, i - 1)
           z == SubSeq(w, i + 1, Len(w))
<1>1. /\ y \in Seq(S) /\ Len(y) = i - 1 /\ \A k \in 1 .. i - 1 : y[k] = w[k]
      /\ z \in Seq(S) /\ Len(z) = Len(w) - i /\ \A k \in 1 .. Len(w) - i : z[k] = w[i + k]
  OBVIOUS
<1> HIDE DEF y, z
<1>2. /\ y \o z \in Seq(S) /\ Len(y \o z) = Len(w) - 1
  BY <1>1
<1>3. ASSUME NEW k \in 1 .. Len(y \o z)
      PROVE  (y \o z)[k] = IF k < i THEN w[k] ELSE w[k + 1]
  <2>1. CASE k < i
    BY <1>1, <1>2, <2>1
  <2>2. CASE ~(k < i)
    <3>1. (y \o z)[k] = z[k - (i - 1)]
      BY <1>1, <1>2, <2>2
    <3>2. k - (i - 1) \in 1 .. Len(w) - i /\ i + (k - (i - 1)) = k + 1
      BY <1>2, <2>2
    <3> QED
      BY <1>1, <2>2, <3>1, <3>2, Zenon
  <2> QED
    BY <2>1, <2>2
<1> QED
  BY <1>2, <1>3, Zenon DEF y, z

\* A waiter that gives up ungranted leaves its line.
LEMMA RemoveSound ==
  ASSUME NEW s, Good(s), Sound(s, {}), NEW r \in Reqs, NEW l \in Lines,
         Waiter(s.rq[r], l), NEW p \in Requests, Proper(p),
         p.granted = "reserved" \/ "reserved" \in p.holds => r \in Interactive,
         \A g \in Counted : Has(p, g) <=> Has(s.rq[r], g)
  PROVE  Sound(Remove(Put(s, r, p), r, l), {})
<1> DEFINE u == Put(s, r, p)
           w == u.line[l]
           i == CHOOSE j \in DOMAIN w : w[j] = r
           x == IF \E j \in DOMAIN w : w[j] = r
                THEN SubSeq(w, 1, i - 1) \o SubSeq(w, i + 1, Len(w)) ELSE w
           t == [used |-> u.used, rq |-> u.rq, line |-> [u.line EXCEPT ![l] = x]]
<1>1. /\ t \in [used : {t.used}, line : {t.line}, rq : {t.rq}]
      /\ t.used = u.used /\ t.rq = u.rq /\ t.line = [u.line EXCEPT ![l] = x]
      /\ u.used = s.used /\ u.line = s.line /\ u.rq = [s.rq EXCEPT ![r] = p]
  BY Zenon DEF Put
<1>2. /\ w \in Seq(Reqs) /\ (l = "interactive" => w \in Seq(Interactive))
      /\ \A j, k \in 1 .. Len(w) : w[j] = w[k] => j = k
      /\ \A j \in 1 .. Len(w) : Waiter(s.rq[w[j]], l)
  <2> DEFINE v == s.line[l]
  <2>1. /\ v \in Seq(Reqs) /\ (l = "interactive" => v \in Seq(Interactive))
        /\ \A j, k \in 1 .. Len(v) : v[j] = v[k] => j = k
        /\ \A j \in 1 .. Len(v) : Waiter(s.rq[v[j]], l)
    BY DEF Good, Shaped, Sound, Queued
  <2>2. w = v
    BY <1>1, Zenon
  <2> HIDE DEF v, w
  <2> QED
    BY <2>1, <2>2, Zenon
<1>3. /\ x \in Seq(Reqs) /\ (l = "interactive" => x \in Seq(Interactive))
      /\ \A j, k \in 1 .. Len(x) : x[j] = x[k] => j = k
      /\ \A j \in 1 .. Len(x) : Waiter(s.rq[x[j]], l) /\ x[j] # r
  <2>1. CASE \E j \in DOMAIN w : w[j] = r
    <3>1. i \in DOMAIN w /\ w[i] = r
      BY <2>1
    <3>2. i \in 1 .. Len(w) /\ Len(w) \in Nat
      BY <1>2, <3>1
    <3>3. x = SubSeq(w, 1, i - 1) \o SubSeq(w, i + 1, Len(w))
      BY <2>1, Zenon
    <3> HIDE DEF w, i, x
    <3>4. /\ x \in Seq(Reqs) /\ Len(x) = Len(w) - 1
          /\ \A k \in 1 .. Len(x) : x[k] = IF k < i THEN w[k] ELSE w[k + 1]
      BY <1>2, <3>2, <3>3, WithoutIndex, Zenon
    <3>5. l = "interactive" => x \in Seq(Interactive)
      BY <1>2, <3>2, <3>3, WithoutIndex
    <3> DEFINE m(k) == IF k < i THEN k ELSE k + 1
    <3>6. \A k \in 1 .. Len(x) : m(k) \in 1 .. Len(w) /\ m(k) # i /\ x[k] = w[m(k)]
      BY <3>2, <3>4
    <3>7. \A j, k \in 1 .. Len(x) : x[j] = x[k] => j = k
      <4>1. \A j, k \in 1 .. Len(x) : x[j] = x[k] => m(j) = m(k)
        <5> HIDE DEF m
        <5> QED
          BY <1>2, <3>6, Zenon
      <4>2. \A j, k \in 1 .. Len(x) : m(j) = m(k) => j = k
        BY <3>2, <3>4
      <4> QED
        BY <4>1, <4>2, Zenon
    <3>8. \A j \in 1 .. Len(x) : Waiter(s.rq[x[j]], l) /\ x[j] # r
      <4> HIDE DEF m
      <4> QED
        BY <1>2, <3>1, <3>2, <3>6, Zenon
    <3> QED
      BY <3>4, <3>5, <3>7, <3>8
  <2>2. CASE ~ \E j \in DOMAIN w : w[j] = r
    <3>1. x = w /\ DOMAIN w = 1 .. Len(w)
      BY <1>2, <2>2
    <3> HIDE DEF w, i, x
    <3> QED
      BY <1>2, <2>2, <3>1, Zenon
  <2> QED
    BY <2>1, <2>2, Zenon
<1> HIDE DEF t, u, w, i, x
<1>4. /\ t.line \in [Lines -> Seq(Reqs)] /\ t.line[l] = x
      /\ \A k \in Lines \ {l} : t.line[k] = s.line[k]
  BY <1>1, <1>3 DEF Good, Shaped
<1>5. t.line["interactive"] \in Seq(Interactive)
  BY <1>3, <1>4 DEF Good, Shaped, Lines
<1>6. Good(u)
  BY PutGood DEF u
<1>7. Shaped(t)
  BY <1>1, <1>4, <1>5, <1>6, Zenon DEF Good, Shaped
<1>8. t.rq[r] = p /\ \A k \in Reqs \ {r} : t.rq[k] = s.rq[k]
  BY <1>1 DEF Good, Shaped
<1>9. Queued(t)
  <2> SUFFICES ASSUME NEW m \in Lines
               PROVE  /\ \A j, k \in 1 .. Len(t.line[m]) : t.line[m][j] = t.line[m][k] => j = k
                      /\ \A j \in 1 .. Len(t.line[m]) : Waiter(t.rq[t.line[m][j]], m)
    BY DEF Queued
  <2>1. CASE m = l
    <3>1. \A j \in 1 .. Len(x) : x[j] \in Reqs \ {r}
      BY <1>3
    <3> QED
      BY <1>3, <1>4, <1>8, <2>1, <3>1
  <2>2. CASE m # l
    <3>1. \A j \in 1 .. Len(s.line[m]) : /\ s.line[m][j] \in Reqs
                                         /\ Waiter(s.rq[s.line[m][j]], m)
      BY DEF Good, Shaped, Sound, Queued
    <3>2. \A j \in 1 .. Len(s.line[m]) : s.line[m][j] # r
      BY <2>2, <3>1, Zenon DEF Waiter
    <3>3. t.line[m] = s.line[m]
      BY <1>4, <2>2
    <3>4. \A j \in 1 .. Len(s.line[m]) : t.rq[s.line[m][j]] = s.rq[s.line[m][j]]
      BY <1>8, <3>1, <3>2
    <3>5. \A j, k \in 1 .. Len(s.line[m]) : s.line[m][j] = s.line[m][k] => j = k
      BY DEF Sound, Queued
    <3> QED
      BY <3>1, <3>3, <3>4, <3>5
  <2> QED
    BY <2>1, <2>2
<1>10. \A g \in Counted : Holders(t, g) = Holders(s, g)
  BY <1>8 DEF Holders
<1>11. Sound(t, {})
  BY <1>1, <1>8, <1>9, <1>10 DEF Sound, Owes
<1>12. Remove(u, r, l) = IF l \in {"general", "interactive"} THEN DispatchUpstream(t) ELSE t
  BY Zenon DEF Remove, t, x, i, w
<1> QED
  BY <1>7, <1>11, <1>12, DispatchUpstreamSound DEF u

\* Only who waits ungranted is in a line.
LEMMA NotWaiting ==
  ASSUME NEW s, NEW D, Sound(s, D), NEW r \in Reqs,
         s.rq[r].pc # "waiting" \/ s.rq[r].granted # "none"
  PROVE  Outside(s, r)
  BY DEF Outside, Sound, Queued, Waiter

\* A request changes and no pool is concerned.
LEMMA SameSound ==
  ASSUME NEW s, Good(s), Sound(s, {}), NEW r \in Reqs, NEW p \in Requests, Proper(p),
         Outside(s, r) \/ InPlace(s.rq[r], p),
         \A g \in Counted : Has(p, g) <=> Has(s.rq[r], g)
  PROVE  Sound(Put(s, r, p), {})
<1>1. \A g \in Counted : Balances(s.rq[r], p, g, {}, {})
  BY DEF Balances
<1> QED
  BY <1>1, PutSound, Zenon

\* A request returns a permit.
LEMMA DropSound ==
  ASSUME NEW s, Good(s), Sound(s, {}), NEW r \in Reqs, NEW p \in Requests, Proper(p),
         Outside(s, r) \/ InPlace(s.rq[r], p),
         NEW g \in Counted, Has(s.rq[r], g), ~Has(p, g),
         \A h \in Counted \ {g} : Has(p, h) <=> Has(s.rq[r], h),
         p.granted \in {s.rq[r].granted, "none"}, p.holds \subseteq s.rq[r].holds
  PROVE  Sound(Release(Put(s, r, p), g, 1), {})
<1>1. \A h \in Counted : Balances(s.rq[r], p, h, {}, {g})
  BY DEF Balances
<1>2. Good(Put(s, r, p)) /\ Sound(Put(s, r, p), {g})
  BY <1>1, PutSound, UpdateGood, Zenon
<1> QED
  BY <1>2, ReleaseSound, Zenon DEF Counted

\* The granting branch of an acquire, before the request takes note.
LEMMA TakeSound ==
  ASSUME NEW s, Good(s), Sound(s, {}), NEW g \in Pools, NEW n, g # "bytes" => n = 1
  PROVE  /\ Sound(Take(s, g, n), {g}) /\ Take(s, g, n).rq = s.rq
         /\ \A r \in Reqs : Outside(s, r) => Outside(Take(s, g, n), r)
<1> DEFINE t == Take(s, g, n)
           c == s.used[g] + n
<1>0. Counting
  BY DEF Good, Shaped
<1>1. t.used = [s.used EXCEPT ![g] = c] /\ t.line = s.line /\ t.rq = s.rq
  BY DEF Take
<1>2. g # "bytes" => c = Cardinality(Holders(s, g)) + 1
  BY <1>0, HoldersFinite DEF Sound, Owes, Counted
<1> HIDE DEF t, c
<1>3. \A h \in Counted : /\ Holders(t, h) = Holders(s, h)
                         /\ t.used[h] = IF h = g THEN c ELSE s.used[h]
  BY <1>1 DEF Holders, Good, Shaped, Counted
<1>4. Owes(t, {g})
  <2> SUFFICES ASSUME NEW h \in Counted
               PROVE  t.used[h] = Cardinality(Holders(t, h)) + (IF h \in {g} THEN 1 ELSE 0)
    BY DEF Owes
  <2>1. CASE h = g
    BY <1>2, <1>3, <2>1 DEF Counted
  <2>2. CASE h # g
    BY <1>3, <2>2 DEF Sound, Owes
  <2> QED
    BY <2>1, <2>2
<1>5. (\A r \in Reqs : Proper(t.rq[r])) /\ Queued(t)
  BY <1>1 DEF Sound, Queued
<1> QED
  BY <1>1, <1>4, <1>5 DEF Sound, Outside, t

\* The places of the handler where a request is given a permit of g.
Asks(q, g) ==
  \/ q.pc = "waiting" /\ g \in Needs(q.line)
  \/ g = "request" /\ q.pc = "idle" /\ q.holds = {}
  \/ g = "bytes" /\ q.pc = "reserve"
  \/ g = "classification" /\ q.pc = "classify"
  \/ g = "transform" /\ q.pc = "captured"
  \/ g = "delivery" /\ q.pc = "spooled"

\* What a request has there.
LEMMA AsksFacts ==
  ASSUME NEW q \in Requests, Proper(q), NEW g \in Pools, Asks(q, g)
  PROVE  /\ g \notin q.holds
         /\ g = "request" => q.holds = {} /\ q.pending = "none"
         /\ g = "bytes" => q.holds \cap Limiters = IF q.sized THEN {} ELSE {"classification"}
         /\ g \notin {"request", "bytes"} => q.holds \cap Limiters = {}
         /\ g \in {"bytes", "classification"} \cup Upstream => Early(q)
<1>0. \/ q.pc = "waiting" /\ (g = q.line \/ (q.line = "interactive" /\ g \in Upstream))
      \/ g = "request" /\ q.pc = "idle" /\ q.holds = {}
      \/ g = "bytes" /\ q.pc = "reserve"
      \/ g = "classification" /\ q.pc = "classify"
      \/ g = "transform" /\ q.pc = "captured"
      \/ g = "delivery" /\ q.pc = "spooled"
  <2>1. g \in Needs(q.line) => g = q.line \/ (q.line = "interactive" /\ g \in Upstream)
    BY DEF Needs
  <2> QED
    BY <2>1, Zenon DEF Asks
<1>1. CASE g = "request"
  <2>1. \/ q.pc = "idle" /\ q.holds = {}
        \/ q.pc = "waiting" /\ q.line = "request"
    BY <1>1 DEF Asks, Needs, Upstream, Requests
  <2>2. q.pc = "waiting" /\ q.line = "request" => Leases(q) = {}
    BY DEF Leases
  <2> QED
    BY <1>1, <2>1, <2>2 DEF Proper, Asking, Upstream
<1>2. CASE g = "bytes"
  <2>1. q.pc = "reserve" \/ (q.pc = "waiting" /\ q.line = "bytes")
    BY <1>0, <1>2 DEF Upstream
  <2>2. Leases(q) = IF q.sized THEN {} ELSE {"classification"}
    BY <2>1 DEF Leases
  <2>3. Early(q)
    BY <2>1 DEF Early, QueueLines, Lines
  <2> QED
    BY <1>2, <2>1, <2>2, <2>3 DEF Proper, Limiters, Upstream
<1>3. CASE g \in Limiters
  <2>1. q.pc \in {"classify", "captured", "spooled"} \/ (q.pc = "waiting" /\ q.line = g)
    BY <1>0, <1>3 DEF Upstream, Limiters
  <2>2. Leases(q) = {}
    BY <1>3, <2>1 DEF Leases, Limiters
  <2>3. g = "classification" => q.pc = "classify" \/ (q.pc = "waiting" /\ q.line = g)
    BY <1>3, <2>1 DEF Asks, Needs, Upstream
  <2>4. g = "classification" => Early(q)
    BY <2>3 DEF Early, QueueLines, Lines, Limiters
  <2> QED
    BY <1>3, <2>1, <2>2, <2>4 DEF Proper, Limiters, Upstream
<1>4. CASE g \in Upstream
  <2>1. q.pc = "waiting" /\ q.line \in {"general", "interactive"}
    BY <1>4 DEF Asks, Needs, Upstream, Requests, Lines, Limiters
  <2>2. Leases(q) = {}
    BY <2>1 DEF Leases
  <2>3. Early(q)
    BY <2>1 DEF Early, QueueLines, Lines
  <2> QED
    BY <1>4, <2>1, <2>2, <2>3 DEF Proper, Upstream
<1> QED
  BY <1>1, <1>2, <1>3, <1>4 DEF Pools, Upstream

\* It goes on from there with the permit as its new step wants it.
LEMMA ObtainProper ==
  ASSUME NEW q \in Requests, Proper(q), NEW g \in Pools, Asks(q, g),
         q.granted \in {"none", g},
         NEW p \in Requests, p.pc = After(q, g), p.granted = "none",
         p.holds = q.holds \cup ({g} \ {"request", "bytes"}),
         p.pending = IF g = "request" THEN "open" ELSE q.pending, p.sized = q.sized
  PROVE  /\ Proper(p)
         /\ \A h \in Counted \ {g} : Has(p, h) <=> Has(q, h)
         /\ g \in Counted => Has(p, g) /\ (Has(q, g) <=> q.granted = g)
<1>1. /\ g \notin q.holds
      /\ g = "request" => q.holds = {} /\ q.pending = "none"
      /\ g = "bytes" => q.holds \cap Limiters = IF q.sized THEN {} ELSE {"classification"}
      /\ g \notin {"request", "bytes"} => q.holds \cap Limiters = {}
      /\ g \in {"bytes", "classification"} \cup Upstream => Early(q)
  BY AsksFacts, Zenon
<1>2. \A h \in Counted \ {g} : Has(p, h) <=> Has(q, h)
  <2> TAKE h \in Counted \ {g}
  <2>1. h \notin {"none", g} /\ (h = "request" => p.pending = q.pending)
    BY DEF Counted, Pools, Limiters
  <2>2. h # "request" => (h \in p.holds <=> h \in q.holds)
    BY <2>1
  <2>3. p.granted # h /\ q.granted # h
    BY <2>1
  <2> QED
    BY <2>1, <2>2, <2>3 DEF Has
<1>3. g \in Counted => Has(p, g) /\ (Has(q, g) <=> q.granted = g)
  BY <1>1 DEF Has, Counted
<1>4. Early(q) => q.holds \cap Upstream = {} /\ q.pending \in {"open", "closed"}
  BY DEF Proper
<1>5. q.holds \subseteq Limiters \cup Upstream /\ ~(Upstream \subseteq q.holds)
  BY DEF Proper
<1>6. CASE g = "request"
  <2>1. p.pc = (IF q.sized THEN "reserve" ELSE "classify") /\ p.holds = {} /\ p.pending = "open"
    BY <1>1, <1>6 DEF After
  <2>2. Leases(p) = {} /\ (p.pc = "reserve" => p.sized)
    BY <2>1 DEF Leases
  <2>3. Proper(p)
    BY <2>1, <2>2 DEF Proper, Upstream, Early, Asking
  <2> QED
    BY <1>2, <1>3, <2>3
<1>7. CASE g = "bytes"
  <2>1. p.pc = "add" /\ p.holds = q.holds /\ p.pending = q.pending
    BY <1>7 DEF After
  <2>2. Leases(p) = IF p.sized THEN {} ELSE {"classification"}
    BY <2>1 DEF Leases
  <2>3. Proper(p)
    BY <1>1, <1>4, <1>5, <1>7, <2>1, <2>2, Zenon DEF Proper, Early, Asking
  <2> QED
    BY <1>2, <1>3, <2>3
<1>8. CASE g = "classification"
  <2>1. p.pc = "read" /\ p.holds = q.holds \cup {"classification"} /\ p.pending = q.pending
    BY <1>8 DEF After
  <2>2. Leases(p) = {"classification"}
    BY <2>1 DEF Leases
  <2>3. Proper(p)
    BY <1>1, <1>4, <1>5, <1>8, <2>1, <2>2 DEF Proper, Early, Asking, Limiters, Upstream
  <2> QED
    BY <1>2, <1>3, <2>3
<1>9. CASE g \in {"transform", "delivery"}
  <2>1. /\ p.pc = (IF g = "transform" THEN "transforming" ELSE "delivering")
        /\ p.holds = q.holds \cup {g}
    BY <1>9 DEF After
  <2>2. Leases(p) = {g}
    BY <1>9, <2>1 DEF Leases
  <2>3. Proper(p)
    BY <1>1, <1>5, <1>9, <2>1, <2>2 DEF Proper, Early, Asking, Limiters, Upstream
  <2> QED
    BY <1>2, <1>3, <2>3
<1>10. CASE g \in Upstream
  <2>1. p.pc = "admit" /\ p.holds = q.holds \cup {g} /\ p.pending = q.pending
    BY <1>10 DEF After, Upstream
  <2>2. Leases(p) = {}
    BY <2>1 DEF Leases
  <2>3. q.holds = {}
    BY <1>1, <1>4, <1>5, <1>10 DEF Upstream
  <2>4. Proper(p)
    BY <1>1, <1>4, <1>10, <2>1, <2>2, <2>3 DEF Proper, Early, Asking, Limiters, Upstream
  <2> QED
    BY <1>2, <1>3, <2>4
<1> QED
  BY <1>6, <1>7, <1>8, <1>9, <1>10 DEF Pools, Limiters, Upstream

\* The record Obtain writes.
LEMMA ObtainRecord ==
  ASSUME NEW q \in Requests, NEW g \in Pools
  PROVE  LET p == [q EXCEPT !.pc      = After(q, g),
                            !.granted = "none",
                            !.holds   = @ \cup ({g} \ {"request", "bytes"}),
                            !.pending = IF g = "request" THEN "open" ELSE @]
         IN  /\ p \in Requests /\ p.pc = After(q, g) /\ p.granted = "none"
             /\ p.holds = q.holds \cup ({g} \ {"request", "bytes"})
             /\ p.pending = (IF g = "request" THEN "open" ELSE q.pending)
             /\ p.sized = q.sized
<1> DEFINE a == After(q, g)
           h == {g} \ {"request", "bytes"}
           e == IF g = "request" THEN "open" ELSE q.pending
           p == [q EXCEPT !.pc = a, !.granted = "none", !.holds = @ \cup h,
                          !.pending = e]
<1>1. a \in Steps /\ h \subseteq Pools /\ e \in {"none", "open", "closed", "job"}
  BY AfterType DEF Requests
<1> HIDE DEF a, h, e
<1>2. /\ p \in Requests /\ p.pc = a /\ p.granted = "none" /\ p.holds = q.holds \cup h
      /\ p.pending = e /\ p.sized = q.sized
  BY <1>1, Zenon DEF Requests
<1> QED
  BY <1>2 DEF a, h, e

\* A request goes on with a permit: one it was granted while it waited, or one
\* that was just counted for it.
LEMMA ObtainSound ==
  ASSUME NEW s, Good(s), NEW r \in Reqs, NEW g \in Pools, Asks(s.rq[r], g), Outside(s, r),
         \/ Sound(s, {}) /\ s.rq[r].granted = g
         \/ Sound(s, {g}) /\ s.rq[r].granted = "none"
  PROVE  Sound(Obtain(s, r, g), {})
<1> DEFINE q == s.rq[r]
           p == [q EXCEPT !.pc      = After(q, g),
                          !.granted = "none",
                          !.holds   = @ \cup ({g} \ {"request", "bytes"}),
                          !.pending = IF g = "request" THEN "open" ELSE @]
<1>1. q \in Requests /\ Proper(q)
  BY RequestType DEF Sound
<1>2. /\ p \in Requests /\ p.pc = After(q, g) /\ p.granted = "none"
      /\ p.holds = q.holds \cup ({g} \ {"request", "bytes"})
      /\ p.pending = (IF g = "request" THEN "open" ELSE q.pending)
      /\ p.sized = q.sized
  <2> HIDE DEF q
  <2> QED
    BY <1>1, ObtainRecord, Zenon
<1>3. Obtain(s, r, g) = Put(s, r, p)
  BY DEF Obtain
<1> HIDE DEF p
<1>4. /\ Proper(p)
      /\ \A h \in Counted \ {g} : Has(p, h) <=> Has(q, h)
      /\ g \in Counted => Has(p, g) /\ (Has(q, g) <=> q.granted = g)
  BY <1>1, <1>2, ObtainProper, Zenon
<1>5. PICK D \in {{}, {g}} : /\ Sound(s, D)
                             /\ D = IF q.granted = g THEN {} ELSE {g}
  <2>1. g # "none"
    BY DEF Pools, Limiters
  <2>2. (Sound(s, {}) /\ q.granted = g) \/ (Sound(s, {g}) /\ q.granted # g)
    BY <2>1, Zenon
  <2> QED
    BY <2>2
<1>6. \A h \in Counted : Balances(q, p, h, D, {})
  BY <1>4, <1>5 DEF Balances
<1>7. Sound(Put(s, r, p), {})
  BY <1>2, <1>4, <1>5, <1>6, PutSound, Zenon
<1> QED
  BY <1>3, <1>7


\* A request that joins a line.
LEMMA WaitProper ==
  ASSUME NEW q \in Requests, Proper(q), NEW l \in Lines, q.pc # "waiting",
         IF l \in {"general", "interactive"} THEN q.pc = "acquire" ELSE Asks(q, l),
         NEW p \in Requests, p.pc = "waiting", p.line = l, p.granted = q.granted,
         p.holds = q.holds, p.pending = q.pending, p.sized = q.sized
  PROVE  Proper(p) /\ Waiter(p, l) /\ \A g \in Counted : Has(p, g) <=> Has(q, g)
<1>1. q.granted = "none"
  BY DEF Proper
<1>2. Waiter(p, l) /\ \A g \in Counted : Has(p, g) <=> Has(q, g)
  BY <1>1 DEF Waiter, Has
<1>3. q.holds \subseteq Limiters \cup Upstream /\ ~(Upstream \subseteq q.holds)
  BY DEF Proper
<1>4. CASE l \in {"general", "interactive"}
  <2>1. Early(q) /\ Leases(q) = {} /\ Early(p) /\ Leases(p) = {} /\ ~Asking(p)
    BY <1>4 DEF Early, Leases, QueueLines, Lines, Asking
  <2> QED
    BY <1>1, <1>2, <1>4, <2>1, Zenon DEF Proper
<1>5. CASE l = "request"
  <2>1. q.holds = {} /\ q.pending = "none"
    BY <1>5, AsksFacts DEF Pools
  <2>2. ~Early(p) /\ Asking(p) /\ Leases(p) = {}
    BY <1>5 DEF Early, Leases, QueueLines, Asking
  <2> QED
    BY <1>1, <1>2, <2>1, <2>2, Zenon DEF Proper, Upstream
<1>6. CASE l = "bytes"
  <2>1. Early(q) /\ q.holds \cap Limiters = IF q.sized THEN {} ELSE {"classification"}
    BY <1>6, AsksFacts DEF Pools
  <2>2. Early(p) /\ ~Asking(p) /\ Leases(p) = IF q.sized THEN {} ELSE {"classification"}
    BY <1>6 DEF Early, Leases, QueueLines, Lines, Asking
  <2> QED
    BY <1>1, <1>2, <2>1, <2>2, Zenon DEF Proper
<1>7. CASE l \in Limiters
  <2>1. l \in Pools /\ l \notin {"request", "bytes", "general", "interactive"}
    BY <1>7 DEF Pools, Limiters
  <2>2. q.holds \cap Limiters = {} /\ (l = "classification" => Early(q))
    BY <2>1, AsksFacts
  <2>3. (Early(p) <=> l = "classification") /\ ~Asking(p) /\ Leases(p) = {}
    BY <1>7 DEF Early, Leases, QueueLines, Lines, Asking, Limiters
  <2> QED
    BY <1>1, <1>2, <1>3, <2>2, <2>3, Zenon DEF Proper
<1> QED
  BY <1>4, <1>5, <1>6, <1>7 DEF Lines

\* The record of a request that joins a line, and its line.
LEMMA QueueSound ==
  ASSUME NEW s, Good(s), Sound(s, {}), NEW r \in Reqs, NEW l \in Lines,
         s.rq[r].pc # "waiting",
         IF l \in {"general", "interactive"} THEN s.rq[r].pc = "acquire"
         ELSE Asks(s.rq[r], l),
         l = "interactive" => r \in Interactive
  PROVE  Sound(Enqueue(Put(s, r, [s.rq[r] EXCEPT !.pc = "waiting", !.line = l]), r, l), {})
<1> DEFINE q == s.rq[r]
           p == [q EXCEPT !.pc = "waiting", !.line = l]
           t == Put(s, r, p)
<1>1. q \in Requests /\ Proper(q) /\ Outside(s, r)
  BY RequestType, NotWaiting DEF Sound
<1>2. /\ p \in Requests /\ p.pc = "waiting" /\ p.line = l /\ p.granted = q.granted
      /\ p.holds = q.holds /\ p.pending = q.pending /\ p.sized = q.sized
  <2> HIDE DEF q
  <2> QED
    BY <1>1, Zenon DEF Requests, Steps
<1> HIDE DEF p
<1>3. Proper(p) /\ Waiter(p, l) /\ \A g \in Counted : Has(p, g) <=> Has(q, g)
  BY <1>1, <1>2, WaitProper, Zenon
<1>4. Sound(t, {})
  BY <1>1, <1>2, <1>3, SameSound, Zenon
<1>5. Good(t) /\ t.line = s.line /\ t.rq[r] = p
  BY <1>2, UpdateGood
<1> HIDE DEF t
<1>6. Outside(t, r)
  BY <1>1, <1>5 DEF Outside
<1>7. Sound(Enqueue(t, r, l), {})
  BY <1>3, <1>4, <1>5, <1>6, EnqueueSound
<1> QED
  BY <1>7 DEF t, p

\* The acquire of a limiter or of the pending quota, waiting or not.
LEMMA JoinSound ==
  ASSUME NEW s, Good(s), Sound(s, {}), NEW r \in Reqs,
         NEW g \in Limiters \cup {"request", "bytes"}, Asks(s.rq[r], g),
         s.rq[r].pc # "waiting"
  PROVE  Sound(Join(s, r, g), {})
<1> DEFINE q == s.rq[r]
           n == Cost(q, g)
           t == Take(s, g, n)
<1>1. /\ g \in Pools /\ g \in Lines /\ g \notin {"general", "interactive"}
      /\ g # "bytes" => n = 1
  BY DEF Pools, Lines, Limiters, Cost
<1>2. Outside(s, r) /\ q.granted = "none"
  BY NotWaiting, Zenon DEF Sound, Proper
<1> HIDE DEF n
<1>3. CASE AtOnce(s, g, n)
  <2>1. Good(t) /\ t.rq = s.rq
    BY <1>1, <1>3, TakeGood
  <2>2. Sound(t, {g}) /\ Outside(t, r)
    BY <1>1, <1>2, TakeSound
  <2> HIDE DEF t
  <2>3. Sound(Obtain(t, r, g), {})
    BY <1>1, <1>2, <2>1, <2>2, ObtainSound
  <2> QED
    BY <1>3, <2>3 DEF Join, n, t
<1>4. CASE ~AtOnce(s, g, n)
  <2>1. Sound(Enqueue(Put(s, r, [s.rq[r] EXCEPT !.pc = "waiting", !.line = g]), r, g), {})
    BY <1>1, QueueSound, Zenon
  <2> QED
    BY <1>4, <2>1 DEF Join, n
<1> QED
  BY <1>3, <1>4

\* A granted permit is the only one of its pool a request has.
LEMMA GrantedOnce ==
  ASSUME NEW q \in Requests, Proper(q), q.granted # "none"
  PROVE  /\ q.granted \in Pools /\ Asks(q, q.granted) /\ q.granted \notin q.holds
         /\ q.granted = "request" => q.pending = "none" /\ q.holds = {}
<1>1. q.granted \in Pools /\ Asks(q, q.granted)
  BY DEF Requests, Proper, Asks
<1> QED
  BY <1>1, AsksFacts

\* In t the slot of r is back and its record is p.
GivenBack(s, r, p, t) ==
  /\ Sound(t, {})
  /\ Outside(s, r) => Outside(t, r) /\ t.rq[r] = p

\* The slot of a PendingRequest or JobLease goes back.
LEMMA GiveBackSound ==
  ASSUME NEW s, Good(s), Sound(s, {}), NEW r \in Reqs, NEW p \in Requests, Proper(p),
         Outside(s, r) \/ InPlace(s.rq[r], p),
         s.rq[r].pending \in {"open", "job"}, p.pending \in {"none", "closed"},
         p.holds = s.rq[r].holds, p.granted = s.rq[r].granted, NEW n
  PROVE  GivenBack(s, r, p, ReleaseRequest(Put(s, r, p), n))
<1> DEFINE u == Put(s, r, p)
           q == s.rq[r]
           t == ReleaseRequest(u, n)
<1>1. q \in Requests /\ Proper(q)
  BY RequestType DEF Sound
<1>2. q.granted # "request"
  BY <1>1, GrantedOnce
<1>3. \A g \in Counted : Balances(q, p, g, {}, {"request"})
  BY <1>2, Zenon DEF Balances, Has
<1>4. Good(u) /\ u.rq[r] = p
  BY UpdateGood, Zenon
<1>5. Sound(u, {"request"}) /\ (Outside(s, r) => Outside(u, r))
  BY <1>3, PutSound, Zenon
<1> HIDE DEF u
<1>6. Sound(t, {}) /\ Keeps(u, t)
  BY <1>4, <1>5, ReleaseRequestSound, Zenon
<1> QED
  BY <1>4, <1>5, <1>6, Zenon DEF GivenBack, Keeps, u

\* The record of a request whose quotas went back.
LEMMA EndedRecord ==
  ASSUME NEW q \in Requests, NEW e \in {"none", "closed"}
  PROVE  LET p == [q EXCEPT !.pending = e, !.reserved = 0] IN
         /\ p \in Requests /\ p.pending = e /\ p.pc = q.pc /\ p.line = q.line
         /\ p.granted = q.granted /\ p.holds = q.holds /\ p.sized = q.sized
         /\ p.want = q.want /\ p.detached = q.detached
<1> DEFINE zero == 0
           p == [q EXCEPT !.pending = e, !.reserved = zero]
<1>1. zero \in Int /\ e \in {"none", "open", "closed", "job"}
  OBVIOUS
<1> HIDE DEF zero
<1>2. p \in Requests /\ p.pending = e /\ p.pc = q.pc /\ p.line = q.line
  BY <1>1, Zenon DEF Requests
<1>3. /\ p.granted = q.granted /\ p.holds = q.holds /\ p.sized = q.sized
      /\ p.want = q.want /\ p.detached = q.detached
  BY DEF Requests
<1> QED
  BY <1>2, <1>3 DEF zero

\* PendingRequest.finish, whatever the request is doing.
LEMMA FinishSound ==
  ASSUME NEW s, Good(s), Sound(s, {}), NEW r \in Reqs
  PROVE  LET t == Finish(s, r) IN
         /\ Sound(t, {})
         /\ Outside(s, r) => /\ Outside(t, r) /\ t.rq[r].holds = s.rq[r].holds
                             /\ t.rq[r].granted = s.rq[r].granted
                             /\ t.rq[r].pending # "open"
                             /\ s.rq[r].pending # "job" => t.rq[r].pending # "job"
<1> DEFINE q == s.rq[r]
           p == [q EXCEPT !.pending = "closed", !.reserved = 0]
           t == ReleaseRequest(Put(s, r, p), q.reserved)
<1>1. q \in Requests /\ Proper(q)
  BY RequestType, Zenon DEF Sound
<1>2. CASE q.pending = "open"
  <2>1. /\ p \in Requests /\ p.pending = "closed" /\ p.pc = q.pc /\ p.line = q.line
        /\ p.granted = q.granted /\ p.holds = q.holds /\ p.sized = q.sized
        /\ p.want = q.want /\ p.detached = q.detached
    <3> HIDE DEF q
    <3> QED
      BY <1>1, EndedRecord, Zenon
  <2>2. Finish(s, r) = t
    BY <1>2 DEF Finish
  <2> HIDE DEF p
  <2>3. Leases(p) = Leases(q) /\ (Early(p) <=> Early(q)) /\ (Asking(p) <=> Asking(q))
    BY <2>1 DEF Leases, Early, Asking
  <2>4. Proper(p)
    BY <1>1, <1>2, <2>1, <2>3, Zenon DEF Proper
  <2>5. Sound(t, {}) /\ (Outside(s, r) => Outside(t, r) /\ t.rq[r] = p)
    <3> DEFINE n == q.reserved
    <3>1. /\ InPlace(s.rq[r], p) /\ p.pending \in {"none", "closed"}
          /\ s.rq[r].pending \in {"open", "job"}
      BY <1>2, <2>1 DEF InPlace
    <3> HIDE DEF t, n
    <3>2. GivenBack(s, r, p, ReleaseRequest(Put(s, r, p), n))
      BY <2>1, <2>4, <3>1, GiveBackSound, Zenon
    <3>3. t = ReleaseRequest(Put(s, r, p), n)
      BY DEF t, n
    <3> QED
      BY <3>2, <3>3, Zenon DEF GivenBack
  <2> HIDE DEF t
  <2> QED
    BY <2>1, <2>2, <2>5, Zenon
<1>3. CASE q.pending # "open"
  BY <1>3 DEF Finish
<1> QED
  BY <1>2, <1>3, Zenon


\* A step to a sound record is a step to a sound state.
LEMMA BecomeSound ==
  ASSUME NEW s, Sound(s, {}), Become(s)
  PROVE  Sound(Pipeline, {})'
<1>1. Pipeline'.used = s.used /\ Pipeline'.line = s.line /\ Pipeline'.rq = s.rq
  BY DEF Pipeline, Become
<1> QED
  BY <1>1 DEF Sound, Queued, Owes, Holders

\* A handler that does not wait may give up at any step: what it holds goes back
\* later.
LEMMA GiveUpSound ==
  ASSUME NEW s, Good(s), Sound(s, {}), NEW r \in Reqs, s.rq[r].pc # "waiting",
         s.rq[r].pc # "idle"
  PROVE  Sound(Go(s, r, "unwind"), {})
<1> DEFINE q == s.rq[r]
           p == [q EXCEPT !.pc = "unwind"]
<1>1. q \in Requests /\ Proper(q) /\ Outside(s, r)
  BY RequestType, NotWaiting DEF Sound
<1>2. /\ p \in Requests /\ p.pc = "unwind" /\ p.granted = q.granted /\ p.holds = q.holds
      /\ p.pending = q.pending
  <2> HIDE DEF q
  <2> QED
    BY <1>1 DEF Requests, Steps
<1> HIDE DEF p
<1>3. Proper(p) /\ \A g \in Counted : Has(p, g) <=> Has(q, g)
  BY <1>1, <1>2, Zenon DEF Proper, Early, Asking, Has
<1>4. Sound(Put(s, r, p), {})
  BY <1>1, <1>2, <1>3, SameSound, Zenon
<1> QED
  BY <1>4 DEF Go, p

\* Bytes are counted by another sum.
LEMMA BytesBack ==
  ASSUME NEW s, Good(s), Sound(s, {}), NEW n
  PROVE  Sound(Release(s, "bytes", n), {})
<1>1. Sound(s, {"bytes"}) /\ "bytes" \in Pools
  BY DEF Sound, Owes, Counted, Pools
<1> QED
  BY <1>1, ReleaseSound

\* Lease.Release of a request that has moved on.
LEMMA ReturnSound ==
  ASSUME NEW s, Good(s), Sound(s, {}), NEW r \in Reqs, NEW g \in s.rq[r].holds,
         NEW p \in Requests, p.holds = s.rq[r].holds, p.granted = s.rq[r].granted,
         p.pending = s.rq[r].pending, Outside(s, r) \/ InPlace(s.rq[r], p),
         Proper([p EXCEPT !.holds = @ \ {g}])
  PROVE  Sound(ReleaseLease(Put(s, r, p), r, g), {})
<1> DEFINE q == s.rq[r]
           h == p.holds \ {g}
           o == [p EXCEPT !.holds = h]
<1>1. q \in Requests /\ Proper(q)
  BY RequestType DEF Sound
<1>2. g \in Counted /\ g # "request" /\ q.granted # g
  <2>1. g \in Counted /\ g # "request" /\ g # "none"
    BY <1>1 DEF Proper, Counted, Pools, Limiters, Upstream
  <2>2. q.granted # "none" => q.granted \notin q.holds
    BY <1>1, GrantedOnce
  <2> QED
    BY <2>1, <2>2
<1>3. h \in SUBSET Pools
  BY DEF Requests
<1>4. /\ o \in Requests /\ o.holds = h /\ o.granted = p.granted /\ o.pending = p.pending
      /\ o.pc = p.pc /\ o.line = p.line
  <2> HIDE DEF h
  <2> QED
    BY <1>3 DEF Requests
<1>5. Proper(o)
  OBVIOUS
<1>6. Put(s, r, p).rq[r] = p /\ Put(Put(s, r, p), r, o) = Put(s, r, o)
  BY Zenon DEF Put, Good, Shaped
<1>7. ReleaseLease(Put(s, r, p), r, g) = Release(Put(s, r, o), g, 1)
  BY <1>6 DEF ReleaseLease
<1> HIDE DEF o
<1>8. Has(q, g) /\ ~Has(o, g) /\ \A k \in Counted \ {g} : Has(o, k) <=> Has(q, k)
  BY <1>2, <1>4 DEF Has
<1>9. Sound(Release(Put(s, r, o), g, 1), {})
  BY <1>2, <1>4, <1>5, <1>8, DropSound DEF InPlace
<1> QED
  BY <1>7, <1>9

\* What the invariants know of a request.
LEMMA CurrentProper ==
  ASSUME Good(Pipeline), Sound(Pipeline, {}), NEW r \in Reqs
  PROVE  /\ rq[r] \in Requests /\ Proper(rq[r]) /\ Pipeline.rq = rq
         /\ rq[r].pc # "waiting" => rq[r].granted = "none" /\ Outside(Pipeline, r)
         /\ rq[r].granted # "none" => Outside(Pipeline, r)
  BY CurrentRequest, NotWaiting, Zenon DEF Sound, Proper

\* A new request.
LEMMA ArriveSound ==
  ASSUME Good(Pipeline), Sound(Pipeline, {}), NEW r \in Reqs, Arrive(r)
  PROVE  Sound(Pipeline, {})'
<1>1. PICK body \in Bodies :
        Become(Join(Put(Pipeline, r,
          [Idle EXCEPT !.sized = body.sized, !.left = body.size,
                       !.want  = IF body.sized THEN body.size ELSE 0]), r, "request"))
  BY Zenon DEF Arrive
<1> DEFINE w == IF body.sized THEN body.size ELSE 0
           p == [Idle EXCEPT !.sized = body.sized, !.left = body.size, !.want  = w]
<1>2. body.sized \in BOOLEAN /\ body.size \in Int /\ w \in Int
  BY BodyAssumption
<1>3. /\ Idle \in Requests /\ Idle.granted = "none" /\ Idle.holds = {} /\ Idle.pc = "idle"
      /\ Idle.pending = "none"
  BY IdleRecord
<1> HIDE DEF w
<1>4. /\ p \in Requests /\ p.granted = Idle.granted /\ p.holds = Idle.holds
      /\ p.pc = Idle.pc /\ p.pending = Idle.pending
  BY <1>2, <1>3, Zenon DEF Requests
<1> HIDE DEF p
<1>5. rq[r] = Idle /\ Outside(Pipeline, r) /\ Pipeline.rq = rq
  BY <1>3, CurrentProper DEF Arrive
<1>6. Proper(p) /\ Asks(p, "request") /\ \A g \in Counted : Has(p, g) <=> Has(Idle, g)
  <2>1. Leases(p) = {} /\ ~Early(p)
    BY <1>3, <1>4 DEF Leases, Early
  <2>2. Proper(p)
    BY <1>3, <1>4, <2>1 DEF Proper, Upstream, Asking
  <2> QED
    BY <1>3, <1>4, <2>2 DEF Asks, Has
<1>7. Sound(Put(Pipeline, r, p), {}) /\ Good(Put(Pipeline, r, p))
      /\ Put(Pipeline, r, p).rq[r] = p
  <2>1. Pipeline.rq[r] = Idle /\ p.granted = "none" /\ p.holds = {}
    BY <1>3, <1>4, <1>5, Zenon
  <2>2. Sound(Put(Pipeline, r, p), {})
    BY <1>4, <1>5, <1>6, <2>1, SameSound, Zenon
  <2>3. Good(Put(Pipeline, r, p)) /\ Put(Pipeline, r, p).rq[r] = p
    BY <1>4, <2>1, UpdateGood
  <2> QED
    BY <2>2, <2>3
<1>8. Sound(Join(Put(Pipeline, r, p), r, "request"), {})
  BY <1>3, <1>4, <1>6, <1>7, JoinSound, Zenon
<1> QED
  BY <1>1, <1>8, BecomeSound DEF p, w

\* The queue context, the closer goroutine and the two ways a wait ends.
LEMMA WaitStepsSound ==
  ASSUME Good(Pipeline), Sound(Pipeline, {}), NEW r \in Reqs,
         Expire(r) \/ CloseOnCancel(r) \/ Ready(r) \/ Leave(r)
  PROVE  Sound(Pipeline, {})'
<1> DEFINE q == rq[r]
<1>1. /\ q \in Requests /\ Proper(q) /\ Pipeline.rq = rq
      /\ q.granted # "none" => Outside(Pipeline, r)
      /\ q.granted = "reserved" \/ "reserved" \in q.holds => r \in Interactive
  BY CurrentRequest, CurrentProper
<1>2. CASE Expire(r)
  <2> DEFINE yes == TRUE
             p == [q EXCEPT !.expired = yes]
  <2>1. yes \in BOOLEAN
    OBVIOUS
  <2>2. /\ p \in Requests /\ p.granted = q.granted /\ p.holds = q.holds /\ p.pc = q.pc
        /\ p.line = q.line /\ p.pending = q.pending /\ p.sized = q.sized
        /\ p.want = q.want /\ p.detached = q.detached
    <3> HIDE DEF q, yes
    <3>1. p \in Requests /\ p.granted = q.granted /\ p.holds = q.holds /\ p.pc = q.pc
      BY <1>1, <2>1 DEF Requests
    <3>2. /\ p.line = q.line /\ p.pending = q.pending /\ p.sized = q.sized
          /\ p.want = q.want /\ p.detached = q.detached
      BY <1>1 DEF Requests
    <3> QED
      BY <3>1, <3>2
  <2>3. Become(Put(Pipeline, r, p))
    BY <1>2 DEF Expire
  <2> HIDE DEF p
  <2>4. Proper(p) /\ InPlace(q, p) /\ \A g \in Counted : Has(p, g) <=> Has(q, g)
    <3>1. Leases(p) = Leases(q) /\ (Early(p) <=> Early(q)) /\ (Asking(p) <=> Asking(q))
      BY <2>2 DEF Leases, Early, Asking
    <3>2. Proper(p)
      BY <1>1, <2>2, <3>1, Zenon DEF Proper
    <3> QED
      BY <2>2, <3>2 DEF InPlace, Has
  <2>5. Sound(Put(Pipeline, r, p), {})
    BY <1>1, <2>2, <2>4, SameSound, Zenon
  <2> QED
    BY <2>3, <2>5, BecomeSound
<1>3. CASE CloseOnCancel(r)
  BY <1>3, FinishSound, BecomeSound, Zenon DEF CloseOnCancel
<1>4. CASE Ready(r)
  <2>1. q.granted # "none" /\ q.granted \in Pools /\ Asks(q, q.granted)
    BY <1>1, <1>4, GrantedOnce, Zenon DEF Ready
  <2>2. Sound(Obtain(Pipeline, r, q.granted), {})
    BY <1>1, <2>1, ObtainSound, Zenon
  <2> QED
    BY <1>4, <2>2, BecomeSound DEF Ready
<1>5. CASE Leave(r)
  <2> DEFINE p == [q EXCEPT !.pc = "unwind", !.granted = "none"]
             s == Put(Pipeline, r, p)
             g == q.granted
  <2>1. p \in Requests /\ p.granted = "none" /\ p.holds = q.holds /\ p.pc = "unwind"
        /\ p.pending = q.pending
    <3> HIDE DEF q
    <3> QED
      BY <1>1, Zenon DEF Requests, Steps
  <2>2. IF g # "none" THEN Become(Release(s, g, Cost(q, g)))
        ELSE Become(Remove(s, r, q.line))
    BY <1>5, Zenon DEF Leave
  <2> HIDE DEF p
  <2>3. Proper(p)
    BY <1>1, <2>1, Zenon DEF Proper, Early, Asking
  <2>4. CASE g = "none"
    <3>1. Waiter(q, q.line) /\ q.line \in Lines
      BY <1>1, <1>5, <2>4 DEF Waiter, Leave, Requests
    <3>2. \A h \in Counted : Has(p, h) <=> Has(q, h)
      BY <2>1, <2>4 DEF Has
    <3>3. Sound(Remove(s, r, q.line), {})
      BY <1>1, <2>1, <2>3, <3>1, <3>2, RemoveSound, Zenon
    <3> QED
      BY <2>2, <2>4, <3>3, BecomeSound, Zenon
  <2>5. CASE g # "none"
    <3>1. /\ g \in Pools /\ g \notin q.holds /\ Outside(Pipeline, r)
          /\ g = "request" => q.pending = "none"
      BY <1>1, <2>5, GrantedOnce, Zenon
    <3>2. \A h \in Counted \ {g} : Has(p, h) <=> Has(q, h)
      BY <2>1, Zenon DEF Has, Counted, Pools, Limiters
    <3>3. CASE g = "bytes"
      <4>1. \A h \in Counted : Has(p, h) <=> Has(q, h)
        BY <3>2, <3>3, Zenon DEF Counted
      <4>2. Sound(s, {}) /\ Good(s)
        BY <1>1, <2>1, <2>3, <3>1, <4>1, SameSound, ChangeGood, Zenon
      <4>3. Sound(Release(s, g, Cost(q, g)), {})
        BY <3>3, <4>2, BytesBack
      <4> QED
        BY <2>2, <2>5, <4>3, BecomeSound, Zenon
    <3>4. CASE g # "bytes"
      <4>1. g \in Counted /\ Cost(q, g) = 1
        BY <3>1, <3>4 DEF Counted, Cost
      <4>2. Has(q, g) /\ ~Has(p, g)
        BY <2>1, <2>5, <3>1, Zenon DEF Has
      <4>3. Sound(Release(s, g, 1), {})
        BY <1>1, <2>1, <2>3, <3>1, <3>2, <4>1, <4>2, DropSound, Zenon
      <4> QED
        BY <2>2, <2>5, <4>1, <4>3, BecomeSound, Zenon
    <3> QED
      BY <3>3, <3>4, Zenon
  <2> QED
    BY <2>4, <2>5, Zenon
<1> QED
  BY <1>2, <1>3, <1>4, <1>5


\* The reservation of bytes and the chunks that ask for them.
LEMMA BytesSound ==
  ASSUME Good(Pipeline), Sound(Pipeline, {}), NEW r \in Reqs,
         ReserveBytes(r) \/ AddBytes(r) \/ ReadChunk(r)
  PROVE  Sound(Pipeline, {})'
<1> DEFINE q == rq[r]
<1>1. /\ q \in Requests /\ Proper(q) /\ Pipeline.rq = rq /\ q.granted = "none"
      /\ Outside(Pipeline, r) /\ q.pc \in {"reserve", "add", "read"}
  BY CurrentProper, Zenon DEF ReserveBytes, AddBytes, ReadChunk
<1>2. /\ Early(q) /\ q.holds \cap Upstream = {} /\ q.pending \in {"open", "closed"}
      /\ q.holds \cap Limiters = Leases(q)
  BY <1>1, Zenon DEF Proper, Early
<1>3. Sound(Go(Pipeline, r, "unwind"), {})
  BY <1>1, GiveUpSound
<1>4. CASE ReserveBytes(r)
  <2>1. CASE q.want = 0
    <3> DEFINE p == [q EXCEPT !.pc = "classify"]
    <3>1. p \in Requests /\ p.granted = q.granted /\ p.holds = q.holds /\ p.pc = "classify"
          /\ p.pending = q.pending
      <4> HIDE DEF q
      <4> QED
        BY <1>1 DEF Requests, Steps
    <3>2. Go(Pipeline, r, "classify") = Put(Pipeline, r, p)
      BY <1>1 DEF Go
    <3> HIDE DEF p
    <3>3. Leases(q) = {} /\ Leases(p) = {} /\ Early(p) /\ ~Asking(p)
      BY <1>1, <1>4, <2>1, <3>1 DEF Proper, ReserveBytes, Leases, Early, Asking
    <3>4. Proper(p) /\ \A g \in Counted : Has(p, g) <=> Has(q, g)
      BY <1>1, <1>2, <3>1, <3>3, Zenon DEF Proper, Has
    <3>5. Sound(Put(Pipeline, r, p), {})
      BY <1>1, <3>1, <3>4, SameSound, Zenon
    <3>6. Sound(Join(Pipeline, r, "bytes"), {})
      BY <1>1, <1>4, JoinSound DEF Asks, ReserveBytes
    <3>7. \/ Become(Go(Pipeline, r, "unwind")) \/ Become(Put(Pipeline, r, p))
          \/ Become(Join(Pipeline, r, "bytes"))
      BY <1>4, <3>2 DEF ReserveBytes
    <3> QED
      BY <1>3, <3>5, <3>6, <3>7, BecomeSound
  <2>2. CASE q.want # 0
    <3>1. Sound(Join(Pipeline, r, "bytes"), {})
      BY <1>1, <1>4, JoinSound DEF Asks, ReserveBytes
    <3>2. Become(Go(Pipeline, r, "unwind")) \/ Become(Join(Pipeline, r, "bytes"))
      BY <1>4, <2>2 DEF ReserveBytes
    <3> QED
      BY <1>3, <3>1, <3>2, BecomeSound
  <2> QED
    BY <2>1, <2>2
<1>5. CASE AddBytes(r)
  <2> DEFINE zero == 0
             u == [q EXCEPT !.pc = "unwind", !.want = zero]
             a == q.reserved + q.want
             b == q.left - q.want
             c == IF q.sized THEN "classify" ELSE "read"
             p == [q EXCEPT !.reserved = a, !.left = b, !.want = zero, !.pc = c]
  <2>1. zero \in Int /\ a \in Int /\ b \in Int /\ c \in Steps
    BY <1>1 DEF Requests, Steps
  <2>2. /\ u \in Requests /\ u.granted = q.granted /\ u.holds = q.holds
        /\ u.pc = "unwind" /\ u.pending = q.pending
    <3> HIDE DEF q, zero
    <3> QED
      BY <1>1, <2>1, Zenon DEF Requests, Steps
  <2>3. /\ p \in Requests /\ p.granted = q.granted /\ p.holds = q.holds
        /\ p.pc = c /\ p.pending = q.pending
    <3> HIDE DEF q, zero, a, b, c
    <3>1. p \in Requests
      BY <1>1, <2>1, Zenon DEF Requests
    <3>2. p.granted = q.granted /\ p.holds = q.holds /\ p.pc = c /\ p.pending = q.pending
      BY <1>1 DEF Requests
    <3> QED
      BY <3>1, <3>2
  <2>4. IF q.pending = "closed"
        THEN Become(Release(Put(Pipeline, r, u), "bytes", q.want))
        ELSE Become(Put(Pipeline, r, p))
    BY <1>5 DEF AddBytes
  <2> HIDE DEF u, p
  <2>5. Proper(u) /\ \A g \in Counted : Has(u, g) <=> Has(q, g)
    BY <1>1, <2>2, Zenon DEF Proper, Early, Asking, Has
  <2>6. Proper(p) /\ \A g \in Counted : Has(p, g) <=> Has(q, g)
    <3>1. Leases(q) = IF q.sized THEN {} ELSE {"classification"}
      BY <1>5 DEF Leases, AddBytes
    <3>2. Leases(p) = (IF q.sized THEN {} ELSE {"classification"}) /\ Early(p) /\ ~Asking(p)
      BY <2>3 DEF Leases, Early, Asking
    <3>3. Proper(p)
      BY <1>1, <1>2, <2>3, <3>1, <3>2, Zenon DEF Proper
    <3> QED
      BY <2>3, <3>3 DEF Has
  <2>7. /\ Sound(Put(Pipeline, r, u), {}) /\ Good(Put(Pipeline, r, u))
        /\ Sound(Put(Pipeline, r, p), {})
    BY <1>1, <2>2, <2>3, <2>5, <2>6, SameSound, ChangeGood, Zenon
  <2>8. Sound(Release(Put(Pipeline, r, u), "bytes", q.want), {})
    BY <2>7, BytesBack
  <2> QED
    BY <2>4, <2>7, <2>8, BecomeSound
<1>6. CASE ReadChunk(r)
  <2>1. PICK n \in 1 .. q.left :
          Become(Put(Pipeline, r, [q EXCEPT !.pc = "reserve", !.want = n]))
    BY <1>6, Zenon DEF ReadChunk
  <2> DEFINE p == [q EXCEPT !.pc = "reserve", !.want = n]
  <2>2. n \in Int /\ n # 0
    <3>1. q.left \in Int
      BY <1>1, Zenon DEF Requests
    <3> HIDE DEF q
    <3> QED
      BY <3>1
  <2>3. p \in Requests /\ p.granted = q.granted /\ p.holds = q.holds /\ p.pc = "reserve"
        /\ p.want = n /\ p.pending = q.pending /\ p.sized = q.sized
    <3> HIDE DEF q
    <3> QED
      BY <1>1, <2>2, Zenon DEF Requests, Steps
  <2> HIDE DEF p
  <2>4. Leases(q) = {"classification"} /\ Leases(p) = {"classification"}
    BY <1>6, <2>3, Zenon DEF Leases, ReadChunk
  <2>5. Early(p) /\ ~Asking(p)
    BY <2>3 DEF Early, Asking
  <2>6. Proper(p) /\ \A g \in Counted : Has(p, g) <=> Has(q, g)
    BY <1>1, <1>2, <2>2, <2>3, <2>4, <2>5, Zenon DEF Proper, Has
  <2>7. Sound(Put(Pipeline, r, p), {})
    BY <1>1, <2>3, <2>6, SameSound, Zenon
  <2> QED
    BY <2>1, <2>7, BecomeSound DEF p
<1> QED
  BY <1>4, <1>5, <1>6

\* Lease.Release of a request that goes to another step.
LEMMA MoveOnSound ==
  ASSUME NEW s, Good(s), Sound(s, {}), NEW r \in Reqs, s.rq[r].pc # "waiting",
         NEW g \in s.rq[r].holds, NEW pc \in Steps,
         \A p \in Requests : /\ p.pc = pc /\ p.holds = s.rq[r].holds \ {g}
                             /\ p.granted = "none" /\ p.pending = s.rq[r].pending
                             => Proper(p)
  PROVE  Sound(ReleaseLease(Go(s, r, pc), r, g), {})
<1> DEFINE q == s.rq[r]
           p == [q EXCEPT !.pc = pc]
           h == p.holds \ {g}
           o == [p EXCEPT !.holds = h]
<1>1. q \in Requests /\ Proper(q) /\ Outside(s, r) /\ q.granted = "none"
  BY RequestType, NotWaiting, Zenon DEF Sound, Proper
<1>2. /\ p \in Requests /\ p.pc = pc /\ p.granted = q.granted /\ p.holds = q.holds
      /\ p.pending = q.pending
  <2> HIDE DEF q
  <2> QED
    BY <1>1 DEF Requests
<1>3. Go(s, r, pc) = Put(s, r, p)
  BY DEF Go
<1> HIDE DEF p
<1>4. h \in SUBSET Pools /\ h = q.holds \ {g}
  BY <1>1, <1>2, Zenon DEF Requests
<1>5. o \in Requests /\ o.pc = pc /\ o.holds = h /\ o.granted = p.granted
      /\ o.pending = p.pending
  <2> HIDE DEF h
  <2> QED
    BY <1>2, <1>4 DEF Requests
<1>6. Proper(o)
  <2> HIDE DEF o
  <2> QED
    BY <1>1, <1>2, <1>4, <1>5, Zenon
<1>7. Sound(ReleaseLease(Put(s, r, p), r, g), {})
  BY <1>1, <1>2, <1>6, ReturnSound
<1> QED
  BY <1>3, <1>7, Zenon

\* The rest of prepareResponsesRequest.
LEMMA AdmissionSound ==
  ASSUME Good(Pipeline), Sound(Pipeline, {}), NEW r \in Reqs,
         \/ Classify(r) \/ EndRead(r) \/ HandoffPassthrough(r)
         \/ AcquireUpstream(r) \/ AdmitUpstream(r)
  PROVE  Sound(Pipeline, {})'
<1> DEFINE q == rq[r]
           no == FALSE
           zero == 0
<1>1. /\ q \in Requests /\ Proper(q) /\ Pipeline.rq = rq /\ q.granted = "none"
      /\ Outside(Pipeline, r) /\ q.pc \in {"classify", "read", "handoff", "acquire", "admit"}
  BY CurrentProper DEF Classify, EndRead, HandoffPassthrough, AcquireUpstream, AdmitUpstream
<1>2. Sound(Go(Pipeline, r, "unwind"), {})
  BY <1>1, GiveUpSound, Zenon
<1>3. no \in BOOLEAN /\ zero \in Int
  OBVIOUS
<1>4. CASE Classify(r)
  <2>1. Sound(Join(Pipeline, r, "classification"), {})
    BY <1>1, <1>4, JoinSound, Zenon DEF Limiters, Classify, Asks
  <2> QED
    BY <1>2, <1>4, <2>1, BecomeSound, Zenon DEF Classify
<1>5. CASE EndRead(r)
  <2>1. PICK next \in Routes \cup {"unwind"} :
          Become(ReleaseLease(Go(Pipeline, r, next), r, "classification"))
    BY <1>5, Zenon DEF EndRead
  <2>2. next \in {"handoff", "acquire", "unwind"} /\ next \in Steps
    BY BodyAssumption DEF Steps
  <2>3. /\ q.pc = "read" /\ q.holds \cap Upstream = {} /\ q.pending \in {"open", "closed"}
        /\ q.holds \cap Limiters = {"classification"} /\ q.holds \subseteq Limiters \cup Upstream
    BY <1>1, <1>5 DEF EndRead, Proper, Early, Leases
  <2>4. "classification" \in q.holds /\ q.holds \ {"classification"} = {}
    BY <2>3, Zenon
  <2>5. ASSUME NEW p \in Requests, p.pc = next, p.holds = {}, p.granted = "none",
               p.pending = q.pending
        PROVE  Proper(p)
    <3>1. Leases(p) = {}
      BY <2>2, <2>5 DEF Leases
    <3> QED
      BY <2>2, <2>3, <2>5, <3>1, Zenon DEF Proper, Asking, Early, Upstream
  <2>6. Sound(ReleaseLease(Go(Pipeline, r, next), r, "classification"), {})
    BY <1>1, <2>2, <2>3, <2>4, <2>5, MoveOnSound, Zenon
  <2> QED
    BY <2>1, <2>6, BecomeSound
<1>6. CASE HandoffPassthrough(r)
  <2> DEFINE p == [q EXCEPT !.pc = "forwarding", !.pending = "job", !.expired = no]
  <2>1. p \in Requests /\ p.granted = q.granted /\ p.holds = q.holds /\ p.pc = "forwarding"
        /\ p.pending = "job"
    <3> HIDE DEF q, no
    <3> QED
      BY <1>1, <1>3, Zenon DEF Requests, Steps
  <2>2. \/ Become(Go(Pipeline, r, "unwind"))
        \/ q.pending # "closed" /\ Become(Put(Pipeline, r, p))
    BY <1>6 DEF HandoffPassthrough
  <2> HIDE DEF p
  <2>3. CASE q.pending # "closed" /\ Become(Put(Pipeline, r, p))
    <3>1. /\ q.holds \cap Upstream = {} /\ q.pending = "open"
          /\ q.holds \cap Limiters = {} /\ q.holds \subseteq Limiters \cup Upstream
      BY <1>1, <1>6, <2>3 DEF HandoffPassthrough, Proper, Early, Leases
    <3>2. Leases(p) = {}
      BY <2>1 DEF Leases
    <3>3. Proper(p)
      BY <1>1, <2>1, <3>1, <3>2, Zenon DEF Proper, Early, Asking, Upstream
    <3>4. \A g \in Counted : Has(p, g) <=> Has(q, g)
      BY <2>1, <3>1 DEF Has
    <3>5. Sound(Put(Pipeline, r, p), {})
      BY <1>1, <2>1, <3>3, <3>4, SameSound, Zenon
    <3> QED
      BY <2>3, <3>5, BecomeSound
  <2> QED
    BY <1>2, <2>2, <2>3, BecomeSound, Zenon
<1>7. CASE AcquireUpstream(r)
  <2> DEFINE l == UpstreamLine(r)
  <2>1. /\ l \in {"general", "interactive"} /\ l \in Lines
        /\ l = "interactive" => r \in Interactive
    BY DEF UpstreamLine, Lines
  <2> HIDE DEF l
  <2>2. CASE q.pending = "closed" \/ q.expired
    BY <1>2, <1>7, <2>2, BecomeSound DEF AcquireUpstream
  <2>3. CASE ~(q.pending = "closed" \/ q.expired)
    <3>1. Become(Enqueue(Put(Pipeline, r, [q EXCEPT !.pc = "waiting", !.line = l]), r, l))
      BY <1>7, <2>3 DEF AcquireUpstream, l
    <3>2. q.pc = "acquire"
      BY <1>7 DEF AcquireUpstream
    <3> QED
      BY <1>1, <2>1, <3>1, <3>2, QueueSound, BecomeSound, Zenon
  <2> QED
    BY <2>2, <2>3, Zenon
<1>8. CASE AdmitUpstream(r)
  <2> DEFINE p == [q EXCEPT !.pc = "dispatched", !.pending = "job",
                            !.reserved = zero, !.expired = no]
  <2>1. p \in Requests /\ p.granted = q.granted /\ p.holds = q.holds
        /\ p.pc = "dispatched" /\ p.pending = "job"
    <3> HIDE DEF q, no, zero
    <3> QED
      BY <1>1, <1>3, Zenon DEF Requests, Steps
  <2>2. \/ Become(Go(Pipeline, r, "unwind"))
        \/ /\ q.pending # "closed"
           /\ Become(Release(Put(Pipeline, r, p), "bytes", q.reserved))
    BY <1>8 DEF AdmitUpstream
  <2> HIDE DEF p
  <2>3. CASE /\ q.pending # "closed"
             /\ Become(Release(Put(Pipeline, r, p), "bytes", q.reserved))
    <3>1. q.pending = "open" /\ q.holds \cap Limiters = {}
      BY <1>1, <1>8, <2>3 DEF AdmitUpstream, Proper, Leases
    <3>2. Leases(p) = {}
      BY <2>1 DEF Leases
    <3>3. Proper(p)
      BY <1>1, <2>1, <3>1, <3>2, Zenon DEF Proper, Early, Asking
    <3>4. \A g \in Counted : Has(p, g) <=> Has(q, g)
      BY <2>1, <3>1, Zenon DEF Has
    <3>5. Sound(Put(Pipeline, r, p), {}) /\ Good(Put(Pipeline, r, p))
      BY <1>1, <2>1, <3>3, <3>4, SameSound, ChangeGood, Zenon
    <3> QED
      BY <2>3, <3>5, BytesBack, BecomeSound, Zenon
  <2> QED
    BY <1>2, <2>2, <2>3, BecomeSound, Zenon
<1> QED
  BY <1>4, <1>5, <1>6, <1>7, <1>8


\* The round trip and modifyResponse.
LEMMA ResponseSound ==
  ASSUME Good(Pipeline), Sound(Pipeline, {}), NEW r \in Reqs,
         \/ FailRoundTrip(r) \/ CaptureResponse(r)
         \/ AcquireTransform(r) \/ EndTransform(r) \/ FailTransform(r)
         \/ AcquireDelivery(r) \/ EndDelivery(r)
  PROVE  Sound(Pipeline, {})'
<1> DEFINE q == rq[r]
           yes == TRUE
<1>1. /\ q \in Requests /\ Proper(q) /\ Pipeline.rq = rq /\ q.granted = "none"
      /\ Outside(Pipeline, r)
      /\ q.pc \in {"dispatched", "captured", "transforming", "spooled", "delivering"}
  BY CurrentProper DEF FailRoundTrip, CaptureResponse, AcquireTransform, EndTransform,
                       FailTransform, AcquireDelivery, EndDelivery
<1>2. Sound(Go(Pipeline, r, "unwind"), {})
  BY <1>1, GiveUpSound, Zenon
<1>3. /\ q.holds \subseteq Limiters \cup Upstream /\ ~(Upstream \subseteq q.holds)
      /\ q.holds \cap Limiters = Leases(q)
  BY <1>1, Zenon DEF Proper
<1>4. CASE FailRoundTrip(r) \/ FailTransform(r)
  BY <1>2, <1>4, BecomeSound, Zenon DEF FailRoundTrip, FailTransform
<1>5. CASE CaptureResponse(r)
  <2>1. PICK pc \in {"captured", "spooled", "unwind"} :
          Become(Put(Pipeline, r, [q EXCEPT !.pc = pc, !.detached = yes]))
    BY <1>5, Zenon DEF CaptureResponse
  <2> DEFINE p == [q EXCEPT !.pc = pc, !.detached = yes]
  <2>2. pc \in Steps /\ yes \in BOOLEAN
    BY DEF Steps
  <2>3. /\ p \in Requests /\ p.granted = q.granted /\ p.holds = q.holds /\ p.pc = pc
        /\ p.pending = q.pending
    <3> HIDE DEF q, yes
    <3> QED
      BY <1>1, <2>2, Zenon DEF Requests
  <2> HIDE DEF p
  <2>4. Leases(q) = {} /\ Leases(p) = {}
    BY <1>5, <2>3 DEF Leases, CaptureResponse
  <2>5. Proper(p) /\ \A g \in Counted : Has(p, g) <=> Has(q, g)
    BY <1>1, <1>3, <2>3, <2>4, Zenon DEF Proper, Early, Asking, Has
  <2>6. Sound(Put(Pipeline, r, p), {})
    BY <1>1, <2>3, <2>5, SameSound, Zenon
  <2> QED
    BY <2>1, <2>6, BecomeSound DEF p
<1>6. CASE AcquireTransform(r)
  <2>1. Sound(Join(Pipeline, r, "transform"), {})
    BY <1>1, <1>6, JoinSound, Zenon DEF Limiters, Asks, AcquireTransform
  <2> QED
    BY <1>2, <1>6, <2>1, BecomeSound, Zenon DEF AcquireTransform
<1>7. CASE AcquireDelivery(r)
  <2>1. Sound(Join(Pipeline, r, "delivery"), {})
    BY <1>1, <1>7, JoinSound, Zenon DEF Limiters, Asks, AcquireDelivery
  <2> QED
    BY <1>2, <1>7, <2>1, BecomeSound, Zenon DEF AcquireDelivery
<1>8. ASSUME NEW g \in Limiters, NEW pc \in {"spooled", "unwind"}, Leases(q) = {g}
      PROVE  Sound(ReleaseLease(Go(Pipeline, r, pc), r, g), {})
  <2>1. g \in q.holds /\ pc \in Steps
    BY <1>3, <1>8, Zenon DEF Steps
  <2>2. ASSUME NEW p \in Requests, p.pc = pc, p.holds = q.holds \ {g}, p.granted = "none",
               p.pending = q.pending
        PROVE  Proper(p)
    <3>1. Leases(p) = {} /\ p.holds \cap Limiters = {}
      BY <1>3, <1>8, <2>2 DEF Leases
    <3> QED
      BY <1>3, <2>2, <3>1, Zenon DEF Proper, Early, Asking
  <2> QED
    BY <1>1, <2>1, <2>2, MoveOnSound, Zenon
<1>9. CASE EndTransform(r)
  <2>1. Leases(q) = {"transform"} /\ "transform" \in Limiters
    BY <1>9 DEF EndTransform, Leases, Limiters
  <2>2. Sound(ReleaseLease(Go(Pipeline, r, "spooled"), r, "transform"), {})
    BY <1>8, <2>1
  <2> QED
    BY <1>9, <2>2, BecomeSound DEF EndTransform
<1>10. CASE EndDelivery(r)
  <2>1. Leases(q) = {"delivery"} /\ "delivery" \in Limiters
    BY <1>10 DEF EndDelivery, Leases, Limiters
  <2>2. Sound(ReleaseLease(Go(Pipeline, r, "unwind"), r, "delivery"), {})
    BY <1>8, <2>1, Zenon
  <2> QED
    BY <1>10, <2>2, BecomeSound DEF EndDelivery
<1> QED
  BY <1>4, <1>5, <1>6, <1>7, <1>9, <1>10

\* The transport's cleanup returns the upstream permit, whatever the request it
\* served is doing.
LEMMA CleanupSound ==
  ASSUME Good(Pipeline), Sound(Pipeline, {}), NEW r \in Reqs, FinishCleanup(r)
  PROVE  Sound(Pipeline, {})'
<1> DEFINE q == rq[r]
           no == FALSE
           p == [q EXCEPT !.detached = no]
<1>1. q \in Requests /\ Proper(q) /\ Pipeline.rq = rq
  BY CurrentProper
<1>2. PICK g \in q.holds \cap {"general", "reserved"} :
        Become(ReleaseLease(Put(Pipeline, r, p), r, g))
  BY DEF FinishCleanup
<1> DEFINE h == q.holds \ {g}
           o == [p EXCEPT !.holds = @ \ {g}]
<1>3. no \in BOOLEAN
  OBVIOUS
<1>4. /\ p \in Requests /\ p.granted = q.granted /\ p.holds = q.holds /\ p.pc = q.pc
      /\ p.line = q.line /\ p.pending = q.pending /\ p.sized = q.sized /\ p.want = q.want
  <2> HIDE DEF q, no
  <2>1. p \in Requests /\ p.granted = q.granted /\ p.holds = q.holds /\ p.pc = q.pc
    BY <1>1, <1>3 DEF Requests
  <2>2. p.line = q.line /\ p.pending = q.pending /\ p.sized = q.sized /\ p.want = q.want
    BY <1>1 DEF Requests
  <2> QED
    BY <2>1, <2>2
<1> HIDE DEF p
<1>5. /\ o.granted = q.granted /\ o.holds = h /\ o.pc = q.pc
      /\ o.line = q.line /\ o.pending = q.pending /\ o.sized = q.sized /\ o.want = q.want
  <2>1. /\ o.granted = p.granted /\ o.holds = p.holds \ {g} /\ o.pc = p.pc
        /\ o.line = p.line
    BY <1>4 DEF Requests
  <2>2. o.pending = p.pending /\ o.sized = p.sized /\ o.want = p.want
    BY <1>4 DEF Requests
  <2> QED
    BY <1>4, <2>1, <2>2
<1> HIDE DEF o
<1>6. Leases(o) = Leases(q) /\ (Early(o) <=> Early(q)) /\ (Asking(o) <=> Asking(q))
  BY <1>5 DEF Leases, Early, Asking
<1>7. h \cap Limiters = q.holds \cap Limiters /\ h \subseteq q.holds
  BY DEF Limiters
<1>8. h \cap Upstream = {}
  BY <1>1 DEF Proper, Upstream
<1>9. q.pc = "idle" => h = {}
  <2>1. q.pc = "idle" => q.holds \cap Limiters = {}
    BY <1>1 DEF Proper, Leases
  <2> QED
    BY <1>1, <1>7, <1>8, <2>1, Zenon DEF Proper
<1>10. Proper(o)
  <2>1. o.holds \subseteq Limiters \cup Upstream /\ ~(Upstream \subseteq o.holds)
    BY <1>1, <1>5, <1>7, Zenon DEF Proper, Upstream
  <2>2. o.pc # "unwind" => o.holds \cap Limiters = Leases(o)
    BY <1>1, <1>5, <1>6, <1>7, Zenon DEF Proper
  <2> QED
    BY <1>1, <1>5, <1>6, <1>8, <1>9, <2>1, <2>2, Zenon DEF Proper
<1>11. InPlace(q, p)
  BY <1>4 DEF InPlace
<1>12. Sound(ReleaseLease(Put(Pipeline, r, p), r, g), {})
  BY <1>1, <1>4, <1>10, <1>11, ReturnSound DEF o
<1> QED
  BY <1>2, <1>12, BecomeSound

\* The two ways a request ends.
LEMMA EndSound ==
  ASSUME Good(Pipeline), Sound(Pipeline, {}), NEW r \in Reqs, EndForward(r) \/ Unwind(r)
  PROVE  Sound(Pipeline, {})'
<1> DEFINE q == rq[r]
<1>1. /\ q \in Requests /\ Proper(q) /\ Pipeline.rq = rq /\ q.granted = "none"
      /\ Outside(Pipeline, r) /\ q.pc \in {"forwarding", "unwind"}
      /\ "reserved" \in q.holds => r \in Interactive
  BY CurrentProper, CurrentRequest DEF EndForward, Unwind
<1>2. /\ Idle \in Requests /\ Idle.granted = "none" /\ Idle.holds = {} /\ Idle.pc = "idle"
      /\ Idle.pending = "none"
  BY IdleRecord
<1>3. q.holds \subseteq Limiters \cup Upstream /\ ~(Upstream \subseteq q.holds)
  BY <1>1, Zenon DEF Proper
<1>4. CASE EndForward(r)
  <2>1. q.pending = "job" /\ q.holds = {}
    BY <1>1, <1>3, <1>4 DEF EndForward, Proper, Leases
  <2>2. Leases(Idle) = {}
    BY <1>2 DEF Leases
  <2>3. Proper(Idle)
    BY <1>2, <2>2 DEF Proper, Early, Asking, Upstream
  <2>4. /\ Pipeline.rq[r].pending \in {"open", "job"} /\ Idle.pending \in {"none", "closed"}
        /\ Idle.holds = Pipeline.rq[r].holds /\ Idle.granted = Pipeline.rq[r].granted
    BY <1>1, <1>2, <2>1, Zenon
  <2>5. Sound(ReleaseRequest(Put(Pipeline, r, Idle), q.reserved), {})
    BY <1>1, <1>2, <2>3, <2>4, GiveBackSound, Zenon DEF GivenBack
  <2> QED
    BY <1>4, <2>5, BecomeSound, Zenon DEF EndForward
<1>5. ASSUME q.pc = "unwind", NEW g \in Owned(r), Become(ReleaseLease(Pipeline, r, g))
      PROVE  Sound(Pipeline, {})'
  <2> DEFINE h == q.holds \ {g}
             p == [q EXCEPT !.holds = h]
  <2>1. g \in q.holds /\ g \in Counted /\ g # "request" /\ g # "none"
    BY <1>3 DEF Owned, Counted, Pools, Limiters, Upstream
  <2>2. h \in SUBSET Pools
    BY <1>1 DEF Requests
  <2>3. /\ p \in Requests /\ p.holds = h /\ p.granted = q.granted /\ p.pending = q.pending
        /\ p.pc = q.pc
    <3> HIDE DEF q, h
    <3> QED
      BY <1>1, <2>2 DEF Requests
  <2>4. ReleaseLease(Pipeline, r, g) = Release(Put(Pipeline, r, p), g, 1)
    BY <1>1 DEF ReleaseLease
  <2> HIDE DEF p
  <2>5. Proper(p)
    BY <1>1, <1>3, <1>5, <2>3, Zenon DEF Proper, Early, Asking
  <2>6. Has(q, g) /\ ~Has(p, g) /\ \A k \in Counted \ {g} : Has(p, k) <=> Has(q, k)
    BY <1>1, <2>1, <2>3 DEF Has
  <2>7. Sound(Release(Put(Pipeline, r, p), g, 1), {})
    BY <1>1, <2>1, <2>3, <2>5, <2>6, DropSound, Zenon
  <2> QED
    BY <1>5, <2>4, <2>7, BecomeSound, Zenon
<1>6. ASSUME q.pc = "unwind", Owned(r) = {}, NEW s, Good(s), Sound(s, {}), Outside(s, r),
             s.rq[r].holds = q.holds, s.rq[r].granted = "none",
             s.rq[r].pending \notin {"open", "job"},
             Become(Put(s, r, [Idle EXCEPT !.holds = q.holds, !.detached = q.detached]))
      PROVE  Sound(Pipeline, {})'
  <2> DEFINE h == q.holds
             d == q.detached
             p == [Idle EXCEPT !.holds = h, !.detached = d]
  <2>1. h \in SUBSET Pools /\ d \in BOOLEAN
    BY <1>1 DEF Requests
  <2>2. /\ p \in Requests /\ p.granted = Idle.granted /\ p.holds = h /\ p.pc = Idle.pc
        /\ p.pending = Idle.pending /\ p.detached = d
    <3> HIDE DEF h, d
    <3>1. p \in Requests
      BY <1>2, <2>1, Zenon DEF Requests
    <3>2. /\ p.granted = Idle.granted /\ p.holds = h /\ p.pc = Idle.pc
          /\ p.pending = Idle.pending /\ p.detached = d
      BY <1>2 DEF Requests
    <3> QED
      BY <3>1, <3>2
  <2>3. Become(Put(s, r, p))
    BY <1>6
  <2> HIDE DEF p
  <2>4. h \cap Limiters = {} /\ (h = {} \/ d)
    BY <1>6 DEF Owned, Limiters
  <2>5. Leases(p) = {} /\ ~Early(p) /\ ~Asking(p)
    BY <1>2, <2>2 DEF Leases, Early, Asking
  <2>6. Proper(p)
    BY <1>2, <1>3, <2>2, <2>4, <2>5 DEF Proper
  <2>7. \A g \in Counted : Has(p, g) <=> Has(s.rq[r], g)
    BY <1>2, <1>6, <2>2 DEF Has, Counted, Pools, Limiters
  <2>8. Sound(Put(s, r, p), {})
    BY <1>6, <2>2, <2>6, <2>7, SameSound
  <2> QED
    BY <2>3, <2>8, BecomeSound
<1>7. ASSUME q.pc = "unwind", q.pending = "job"
      PROVE  LET s == ReleaseJob(Pipeline, r) IN
             /\ Good(s) /\ Sound(s, {}) /\ Outside(s, r) /\ s.rq[r].holds = q.holds
             /\ s.rq[r].granted = "none" /\ s.rq[r].pending \notin {"open", "job"}
  <2> DEFINE p == [q EXCEPT !.pending = "none", !.reserved = 0]
             s == ReleaseJob(Pipeline, r)
  <2>1. /\ p \in Requests /\ p.pending = "none" /\ p.pc = q.pc
        /\ p.granted = q.granted /\ p.holds = q.holds
    <3> HIDE DEF q
    <3> QED
      BY <1>1, EndedRecord, Zenon
  <2>2. s = ReleaseRequest(Put(Pipeline, r, p), q.reserved)
    BY <1>1 DEF ReleaseJob
  <2> HIDE DEF p
  <2>3. Proper(p)
    BY <1>1, <1>3, <1>7, <2>1, Zenon DEF Proper, Early, Asking
  <2>4. Sound(s, {}) /\ Outside(s, r) /\ s.rq[r] = p
    <3> DEFINE n == q.reserved
    <3>1. /\ Pipeline.rq[r] = q /\ q.pending \in {"open", "job"}
          /\ p.pending \in {"none", "closed"}
      BY <1>1, <1>7, <2>1
    <3> HIDE DEF s, n
    <3>2. GivenBack(Pipeline, r, p, ReleaseRequest(Put(Pipeline, r, p), n))
      BY <1>1, <2>1, <2>3, <3>1, GiveBackSound, Zenon
    <3>3. s = ReleaseRequest(Put(Pipeline, r, p), n)
      BY <2>2 DEF n
    <3> QED
      BY <1>1, <3>2, <3>3, Zenon DEF GivenBack
  <2>5. Good(s)
    BY EndPendingGood
  <2> QED
    BY <1>1, <2>1, <2>4, <2>5, Zenon
<1>8. ASSUME q.pc = "unwind", q.pending # "job"
      PROVE  LET s == Finish(Pipeline, r) IN
             /\ Good(s) /\ Sound(s, {}) /\ Outside(s, r) /\ s.rq[r].holds = q.holds
             /\ s.rq[r].granted = "none" /\ s.rq[r].pending \notin {"open", "job"}
  BY <1>1, <1>8, FinishSound, EndPendingGood, Zenon
<1>9. CASE Unwind(r)
  <2>1. CASE \E g \in Owned(r) : Become(ReleaseLease(Pipeline, r, g))
    BY <1>5, <1>9, <2>1 DEF Unwind
  <2>2. CASE Owned(r) = {} /\ q.pending = "job"
    <3> DEFINE s == ReleaseJob(Pipeline, r)
    <3>1. Become(Put(s, r, [Idle EXCEPT !.holds = q.holds, !.detached = q.detached]))
      BY <1>9, <2>2 DEF Unwind
    <3>2. /\ Good(s) /\ Sound(s, {}) /\ Outside(s, r) /\ s.rq[r].holds = q.holds
          /\ s.rq[r].granted = "none" /\ s.rq[r].pending \notin {"open", "job"}
      BY <1>7, <1>9, <2>2 DEF Unwind
    <3> HIDE DEF s
    <3> QED
      BY <1>6, <1>9, <2>2, <3>1, <3>2 DEF Unwind
  <2>3. CASE Owned(r) = {} /\ q.pending # "job"
    <3> DEFINE s == Finish(Pipeline, r)
    <3>1. Become(Put(s, r, [Idle EXCEPT !.holds = q.holds, !.detached = q.detached]))
      BY <1>9, <2>3 DEF Unwind
    <3>2. /\ Good(s) /\ Sound(s, {}) /\ Outside(s, r) /\ s.rq[r].holds = q.holds
          /\ s.rq[r].granted = "none" /\ s.rq[r].pending \notin {"open", "job"}
      BY <1>8, <1>9, <2>3 DEF Unwind
    <3> HIDE DEF s
    <3> QED
      BY <1>6, <1>9, <2>3, <3>1, <3>2 DEF Unwind
  <2> QED
    BY <1>9, <2>1, <2>2, <2>3 DEF Unwind
<1> QED
  BY <1>4, <1>9

\* New makes a scheduler in which nothing is in use.
LEMMA InitSound ==
  ASSUME Counting, Init
  PROVE  Sound(Pipeline, {})
<1>1. Pipeline.used = used /\ Pipeline.line = line /\ Pipeline.rq = rq
  BY DEF Pipeline
<1>2. /\ Idle.granted = "none" /\ Idle.holds = {} /\ Idle.pc = "idle"
      /\ Idle.pending = "none"
  BY IdleRecord
<1>3. Leases(Idle) = {} /\ ~Early(Idle)
  BY <1>2 DEF Leases, Early
<1>4. Proper(Idle) /\ \A g \in Counted : ~Has(Idle, g)
  BY <1>2, <1>3 DEF Proper, Asking, Upstream, Has, Counted, Pools, Limiters
<1>5. \A r \in Reqs : Proper(Pipeline.rq[r])
  BY <1>1, <1>4, Zenon DEF Init
<1>6. Queued(Pipeline)
  BY <1>1 DEF Init, Queued
<1>7. \A g \in Counted : Holders(Pipeline, g) = {} /\ used[g] = 0
  BY <1>1, <1>4 DEF Init, Holders, Counted
<1>8. Owes(Pipeline, {})
  BY <1>1, <1>7 DEF Owes, Counting
<1> QED
  BY <1>5, <1>6, <1>8 DEF Sound

\* Every step of the pipeline keeps the accounts.
LEMMA StepSound ==
  ASSUME Good(Pipeline), Sound(Pipeline, {}), [Next]_vars
  PROVE  Sound(Pipeline, {})'
<1>1. CASE UNCHANGED vars
  <2>1. Become(Pipeline)
    BY <1>1 DEF vars, Become, Pipeline
  <2> QED
    BY <2>1, BecomeSound
<1>2. ASSUME NEW r \in Reqs, Progress(r)
      PROVE  Sound(Pipeline, {})'
  BY <1>2, WaitStepsSound, BytesSound, AdmissionSound, ResponseSound, EndSound DEF Progress
<1>3. ASSUME NEW r \in Reqs, Read(r) \/ Network(r)
      PROVE  Sound(Pipeline, {})'
  BY <1>3, BytesSound, AdmissionSound, ResponseSound, CleanupSound, EndSound
     DEF Read, Network
<1>4. ASSUME NEW r \in Reqs, Arrive(r) \/ Expire(r) \/ CloseOnCancel(r)
      PROVE  Sound(Pipeline, {})'
  BY <1>4, ArriveSound, WaitStepsSound
<1> QED
  BY <1>1, <1>2, <1>3, <1>4 DEF Next

-----------------------------------------------------------------------------
(***************************************************************************)
(* The facts about numbers and finite sets that the invariant carries.     *)
(***************************************************************************)
FST == INSTANCE FiniteSetTheorems

\* The library counts the sets of requests as the model does.
LEMMA SameCount ==
  /\ \A S : IsFiniteSet(S) <=> FST!IsFiniteSet(S)
  /\ \A S : Cardinality(S) = FST!Cardinality(S)
<1>1. \A S : IsFiniteSet(S) <=> FST!IsFiniteSet(S)
  BY Zenon DEF IsFiniteSet, FST!IsFiniteSet
<1>2. \A S : Cardinality(S) = FST!Cardinality(S)
  BY Zenon DEF Cardinality, FST!Cardinality
<1> QED
  BY <1>1, <1>2

\* A set of naturals with an upper bound has a maximum.
LEMMA BoundedMax ==
  ASSUME NEW k \in Nat, NEW T \in SUBSET (0 .. k), T # {}
  PROVE  Max(T) \in T
<1> DEFINE D == {k - x : x \in T}
<1>1. \A x \in T : x \in Nat /\ k - x \in Nat
  OBVIOUS
<1>2. D \in SUBSET Nat
  BY <1>1
<1>3. D # {}
  <2>1. PICK x \in T : TRUE
    BY Zenon
  <2>2. k - x \in D
    OBVIOUS
  <2> QED
    BY <2>2
<1>4. PICK m \in D : \A y \in D : ~(<<y, m>> \in FST!OpToRel(<, Nat))
  BY <1>2, <1>3, FST!NatLessThanWellFounded, FST!WFMin, Zenon
<1>5. \A y \in D : ~(y < m)
  BY <1>2, <1>4, Zenon DEF FST!OpToRel
<1>6. PICK x \in T : m = k - x
  BY <1>4, Zenon
<1>7. \A y \in T : x >= y
  <2> TAKE y \in T
  <2>1. ~(k - y < m)
    BY <1>5
  <2> QED
    BY <2>1, <1>6, <1>1
<1> QED
  BY <1>7, Zenon DEF Max

\* The first n of a line of distinct requests are n.
LEMMA FirstCounted ==
  ASSUME NEW w \in Seq(Reqs), NEW n \in 0 .. Len(w),
         \A i, j \in 1 .. Len(w) : w[i] = w[j] => i = j
  PROVE  Cardinality({w[i] : i \in 1 .. n}) = n
<1> DEFINE F == {w[i] : i \in 1 .. n}
           f == [i \in 1 .. n |-> w[i]]
<1>1. n \in Nat /\ 1 .. n \subseteq 1 .. Len(w)
  OBVIOUS
<1>2. f \in FST!Bijection(1 .. n, F)
  <2>1. f \in [1 .. n -> F]
    OBVIOUS
  <2>2. \A i, j \in 1 .. n : f[i] = f[j] => i = j
    BY <1>1
  <2>3. \A x \in F : \E i \in 1 .. n : f[i] = x
    OBVIOUS
  <2> QED
    BY <2>1, <2>2, <2>3 DEF FST!Bijection, FST!Injection, FST!Surjection, FST!IsInjective
<1>3. FST!ExistsBijection(1 .. n, F)
  BY <1>2 DEF FST!ExistsBijection
<1>4. FST!IsFiniteSet(1 .. n) /\ FST!Cardinality(1 .. n) = n
  BY <1>1, FST!FS_Interval
<1>5. FST!Cardinality(F) = FST!Cardinality(1 .. n)
  BY <1>3, <1>4, FST!FS_Bijection, Zenon
<1> QED
  BY <1>4, <1>5, SameCount, Zenon

\* What the invariant says of numbers and of sets of requests is true.
LEMMA CountingHolds == Counting
<1>1. \A S \in SUBSET Reqs : FST!IsFiniteSet(S) /\ FST!Cardinality(S) \in Nat
  BY CapacityAssumption, SameCount, FST!FS_Subset, FST!FS_CardinalityType, Zenon
<1>2. \A k \in Nat : \A T \in SUBSET (0 .. k) : T # {} => Max(T) \in T
  BY BoundedMax, Zenon
<1>3. Cardinality({}) = 0
  BY SameCount, FST!FS_EmptySet, Zenon
<1>4. \A S \in SUBSET Reqs : IsFiniteSet(S) /\ Cardinality(S) \in Nat
  BY <1>1, SameCount, Zenon
<1>5. \A S \in SUBSET Reqs : \A r \in Reqs :
        /\ Cardinality(S \cup {r}) = IF r \in S THEN Cardinality(S) ELSE Cardinality(S) + 1
        /\ Cardinality(S \ {r}) = IF r \in S THEN Cardinality(S) - 1 ELSE Cardinality(S)
  BY <1>1, SameCount, FST!FS_AddElement, FST!FS_RemoveElement, Zenon
<1>6. ASSUME NEW S \in SUBSET Reqs, NEW T \in SUBSET Reqs, S \cap T = {}
      PROVE  Cardinality(S \cup T) = Cardinality(S) + Cardinality(T)
  <2>1. FST!Cardinality(S \cup T) = FST!Cardinality(S) + FST!Cardinality(T)
                                     - FST!Cardinality(S \cap T)
    BY <1>1, FST!FS_Union, Zenon
  <2>2. Cardinality(S \cup T) = Cardinality(S) + Cardinality(T) - Cardinality(S \cap T)
    BY <2>1, SameCount, Zenon
  <2>3. Cardinality(S) \in Nat /\ Cardinality(T) \in Nat /\ Cardinality(S \cap T) = 0
    BY <1>3, <1>4, <1>6, Zenon
  <2> QED
    BY <2>2, <2>3
<1>7. \A w \in Seq(Reqs) : \A n \in 0 .. Len(w) :
        (\A i, j \in 1 .. Len(w) : w[i] = w[j] => i = j)
          => Cardinality({w[i] : i \in 1 .. n}) = n
  BY FirstCounted, Zenon
<1> QED
  BY <1>2, <1>3, <1>4, <1>5, <1>6, <1>7, Zenon DEF Counting

-----------------------------------------------------------------------------

\* New makes a scheduler without waiters.
LEMMA InitGood ==
  ASSUME Counting, Init
  PROVE  Good(Pipeline)
<1>1. /\ Pipeline \in [used : {used}, line : {line}, rq : {rq}]
      /\ Pipeline.used = used /\ Pipeline.line = line /\ Pipeline.rq = rq
  BY DEF Pipeline
<1>2. Idle \in Requests /\ Idle.granted = "none" /\ Idle.holds = {}
  BY IdleRecord
<1>3. Shaped(Pipeline)
  BY <1>1, <1>2, CapacityAssumption DEF Init, Shaped, Counted, Lines
<1>4. NoIdleBut(Pipeline, {})
  BY <1>1 DEF Init, NoIdleBut, Served, Lines, Limiters
<1> QED
  BY <1>3, <1>4 DEF Good

\* For any number of requests and any limits, no acquire of scheduler.go sleeps
\* while a slot or permit it could be given is free: every path that returns
\* capacity, the give-up of a granted waiter included, dispatches it.
THEOREM NoLostWakeup == Spec => []NoIdlePermit
<1>1. Init => Good(Pipeline)
  BY CountingHolds, InitGood
<1>2. Good(Pipeline) /\ [Next]_vars => Good(Pipeline)'
  BY StepGood
<1>3. Good(Pipeline) => NoIdlePermit
  <2>1. Pipeline.used = used /\ Pipeline.line = line
    BY DEF Pipeline
  <2> QED
    BY <2>1, Zenon DEF Good, NoIdleBut, Served, NoIdlePermit
<1> QED
  BY <1>1, <1>2, <1>3, PTL DEF Spec

\* For any number of requests and any limits, the reserved upstream permits are
\* held by requests of the interactive listener only (upstreamPool.grantLocked).
THEOREM LanesSeparate == Spec => []ReservedForInteractive
<1>1. Init => Good(Pipeline)
  BY CountingHolds, InitGood
<1>2. Good(Pipeline) /\ [Next]_vars => Good(Pipeline)'
  BY StepGood
<1>3. Good(Pipeline) => ReservedForInteractive
  BY CurrentRequest DEF ReservedForInteractive, PermitHolders
<1> QED
  BY <1>1, <1>2, <1>3, PTL DEF Spec

\* No limiter, upstream pool or request quota grants beyond its limit, for any
\* number of requests; the byte quota is not among them.
THEOREM PermitsBounded == Spec => [](\A g \in Counted : used[g] <= Capacity[g])
<1>1. Init => Good(Pipeline)
  BY CountingHolds, InitGood
<1>2. Good(Pipeline) /\ [Next]_vars => Good(Pipeline)'
  BY StepGood
<1>3. Good(Pipeline) => \A g \in Counted : used[g] <= Capacity[g]
  <2>1. Pipeline.used = used
    BY DEF Pipeline
  <2> QED
    BY <2>1, CountedType DEF Good
<1> QED
  BY <1>1, <1>2, <1>3, PTL DEF Spec

\* The two invariants together hold of every run.
LEMMA AlwaysSound == Spec => [](Good(Pipeline) /\ Sound(Pipeline, {}))
<1>1. Init => Good(Pipeline) /\ Sound(Pipeline, {})
  BY CountingHolds, InitGood, InitSound
<1>2. (Good(Pipeline) /\ Sound(Pipeline, {})) /\ [Next]_vars
        => (Good(Pipeline) /\ Sound(Pipeline, {}))'
  BY StepGood, StepSound
<1> QED
  BY <1>1, <1>2, PTL DEF Spec

\* For any number of requests and any limits, the classification, upstream,
\* transform and delivery pools of scheduler.go count exactly the leases that are
\* out: no timeout, late grant, error path or detached cleanup loses a permit or
\* returns one twice.
THEOREM LeasesCounted == Spec => []PermitsAccounted
<1>1. Good(Pipeline) /\ Sound(Pipeline, {}) => PermitsAccounted
  <2> SUFFICES ASSUME Sound(Pipeline, {}), NEW g \in Pools \ {"request", "bytes"}
               PROVE  used[g] = Cardinality(PermitHolders(g))
    BY DEF PermitsAccounted
  <2>1. Pipeline.used = used /\ Pipeline.rq = rq
    BY DEF Pipeline
  <2>2. Holders(Pipeline, g) = PermitHolders(g)
    BY <2>1 DEF Holders, Has, PermitHolders
  <2>3. used[g] = Cardinality(Holders(Pipeline, g)) + 0
    BY <2>1, Zenon DEF Sound, Owes, Counted
  <2> QED
    BY <2>2, <2>3, CountingHolds, HoldersFinite
<1> QED
  BY <1>1, AlwaysSound, PTL

\* For any number of requests and any limits, the request quota counts exactly the
\* requests whose PendingRequest is open, whose JobLease is out or that were
\* granted a slot they have not picked up, whichever goroutine closes a request.
THEOREM SlotsCounted == Spec => [](used["request"] = Cardinality(SlotHolders))
<1>1. Good(Pipeline) /\ Sound(Pipeline, {}) => used["request"] = Cardinality(SlotHolders)
  <2> SUFFICES ASSUME Sound(Pipeline, {})
               PROVE  used["request"] = Cardinality(SlotHolders)
    OBVIOUS
  <2>1. Pipeline.used = used /\ Pipeline.rq = rq
    BY DEF Pipeline
  <2>2. Holders(Pipeline, "request") = SlotHolders
    BY <2>1 DEF Holders, Has, SlotHolders
  <2>3. used["request"] = Cardinality(Holders(Pipeline, "request")) + 0
    BY <2>1 DEF Sound, Owes, Counted, Pools
  <2> QED
    BY <2>2, <2>3, CountingHolds, HoldersFinite
<1> QED
  BY <1>1, AlwaysSound, PTL

\* Once every request is over and every transport cleanup done, all slots and
\* permits are back, for any number of requests and any limits. Of
\* CapacityRestored this is all but the bytes.
THEOREM PermitsRestored ==
  Spec => []((\A r \in Reqs : rq[r].pc = "idle" /\ ~rq[r].detached)
               => \A g \in Counted : used[g] = 0)
<1>1. Good(Pipeline) /\ Sound(Pipeline, {})
        => ((\A r \in Reqs : rq[r].pc = "idle" /\ ~rq[r].detached)
              => \A g \in Counted : used[g] = 0)
  <2> SUFFICES ASSUME Good(Pipeline), Sound(Pipeline, {}), NEW g \in Counted,
                      \A r \in Reqs : rq[r].pc = "idle" /\ ~rq[r].detached
               PROVE  used[g] = 0
    OBVIOUS
  <2>1. Pipeline.used = used /\ Pipeline.rq = rq
    BY Zenon DEF Pipeline
  <2>2. ASSUME NEW r \in Reqs
        PROVE  ~Has(rq[r], g)
    <3>1. /\ rq[r].holds = {} /\ rq[r].pending = "none" /\ rq[r].granted = "none"
      BY CurrentProper, Zenon DEF Proper
    <3> QED
      BY <3>1 DEF Has, Counted, Pools, Limiters
  <2>3. Holders(Pipeline, g) = {}
    BY <2>1, <2>2 DEF Holders
  <2>4. used[g] = Cardinality(Holders(Pipeline, g)) + 0
    BY <2>1 DEF Sound, Owes
  <2>5. Cardinality({}) = 0
    BY CountingHolds, Zenon DEF Counting
  <2> QED
    BY <2>3, <2>4, <2>5
<1> QED
  BY <1>1, AlwaysSound, PTL

=============================================================================
