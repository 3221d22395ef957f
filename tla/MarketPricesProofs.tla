------------------------- MODULE MarketPricesProofs -------------------------
(***************************************************************************)
(* Theorems about MarketPrices, for any workers, types and bounds: types,  *)
(* that no refresh is let go before it has been applied, and that prices   *)
(* are fresh when the pipeline comes to rest.                              *)
(***************************************************************************)
EXTENDS MarketPrices, Integers, TLAPS

-----------------------------------------------------------------------------
(* A queue of the broker: messages in `ms`, of which consumer w in W holds *)
(* h[w], at most p of them; no message is held twice.                      *)
QueueInv(W, p, ms, q, h) ==
    /\ q \subseteq ms
    /\ h \in [W -> Seq(ms)]
    /\ \A w \in W : Len(h[w]) =< p
    /\ \A w \in W : \A i \in 1 .. Len(h[w]) : h[w][i] \in q
    /\ \A v, w \in W : \A i \in 1 .. Len(h[v]), j \in 1 .. Len(h[w]) :
         h[v][i] = h[w][j] => v = w /\ i = j

LEMMA EmptyQueue ==
    ASSUME NEW W, NEW p \in Nat, NEW ms
    PROVE  QueueInv(W, p, ms, {}, [w \in W |-> <<>>])
BY DEF QueueInv

LEMMA LongerQueue ==
    ASSUME NEW W, NEW p \in Nat, NEW ms, NEW q, NEW h, QueueInv(W, p, ms, q, h),
           NEW m \in ms
    PROVE  QueueInv(W, p, ms, q \cup {m}, h)
BY DEF QueueInv

LEMMA DeliveredQueue ==
    ASSUME NEW W, NEW p \in Nat, NEW ms, NEW q, NEW h, QueueInv(W, p, ms, q, h),
           NEW w \in W, Len(h[w]) < p, NEW m \in q,
           \A v \in W : \A i \in 1 .. Len(h[v]) : h[v][i] # m
    PROVE  QueueInv(W, p, ms, q, [h EXCEPT ![w] = Append(h[w], m)])
<1> DEFINE hw == Append(h[w], m)
           g == [h EXCEPT ![w] = hw]
<1>1. h[w] \in Seq(ms) /\ m \in ms /\ Len(h[w]) \in Nat
  BY DEF QueueInv
<1>2. /\ hw \in Seq(ms)
      /\ Len(hw) = Len(h[w]) + 1
      /\ \A i \in 1 .. Len(h[w]) : hw[i] = h[w][i]
      /\ hw[Len(h[w]) + 1] = m
  BY <1>1
<1> HIDE DEF hw
<1>3. \A i \in 1 .. Len(hw) : i \in 1 .. Len(h[w]) \/ i = Len(h[w]) + 1
  BY <1>1, <1>2
<1>4. g \in [W -> Seq(ms)] /\ \A v \in W : g[v] = IF v = w THEN hw ELSE h[v]
  BY <1>2 DEF QueueInv
<1> HIDE DEF g
<1>5. \A v \in W : Len(g[v]) =< p
  <2>1. Len(hw) =< p
    BY <1>1, <1>2
  <2>2. QED  BY <1>4, <2>1 DEF QueueInv
<1>6. \A v \in W : \A i \in 1 .. Len(g[v]) : g[v][i] \in q
  BY <1>2, <1>3, <1>4 DEF QueueInv
<1>7. ASSUME NEW u \in W, NEW v \in W, NEW i \in 1 .. Len(g[u]), NEW j \in 1 .. Len(g[v]),
             g[u][i] = g[v][j]
      PROVE  u = v /\ i = j
  <2>1. CASE u # w /\ v # w
    BY <1>4, <1>7, <2>1 DEF QueueInv
  <2>2. CASE u = w /\ v # w
    BY <1>2, <1>3, <1>4, <1>7, <2>2, SMTT(30) DEF QueueInv
  <2>3. CASE u # w /\ v = w
    BY <1>2, <1>3, <1>4, <1>7, <2>3 DEF QueueInv
  <2>4. CASE u = w /\ v = w
    BY <1>2, <1>3, <1>4, <1>7, <2>4 DEF QueueInv
  <2>5. QED  BY <2>1, <2>2, <2>3, <2>4
<1>8. QED  BY <1>4, <1>5, <1>6, <1>7 DEF QueueInv, g, hw

LEMMA AckedQueue ==
    ASSUME NEW W, NEW p \in Nat, NEW ms, NEW q, NEW h, QueueInv(W, p, ms, q, h),
           NEW w \in W, h[w] # <<>>
    PROVE  QueueInv(W, p, ms, q \ {Head(h[w])}, [h EXCEPT ![w] = Tail(h[w])])
<1> DEFINE hw == Tail(h[w])
           g == [h EXCEPT ![w] = hw]
<1>1. h[w] \in Seq(ms)
  BY DEF QueueInv
<1>2. /\ hw \in Seq(ms) /\ Len(h[w]) \in Nat \ {0}
      /\ Len(hw) = Len(h[w]) - 1
      /\ \A i \in 1 .. Len(hw) : hw[i] = h[w][i + 1]
      /\ Head(h[w]) = h[w][1]
  BY <1>1
<1> HIDE DEF hw
<1>3. \A i \in 1 .. Len(hw) : i + 1 \in 1 .. Len(h[w]) /\ i + 1 # 1
  BY <1>2
<1>4. g \in [W -> Seq(ms)] /\ \A v \in W : g[v] = IF v = w THEN hw ELSE h[v]
  BY <1>2 DEF QueueInv
<1> HIDE DEF g
<1>5. \A v \in W : Len(g[v]) =< p
  BY <1>2, <1>4 DEF QueueInv
<1>6. 1 \in 1 .. Len(h[w])
  BY <1>2
<1>7. ASSUME NEW v \in W, NEW i \in 1 .. Len(g[v])
      PROVE  g[v][i] \in q \ {h[w][1]}
  <2>1. CASE v = w
    <3>1. i + 1 \in 1 .. Len(h[w]) /\ i + 1 # 1 /\ g[v][i] = h[w][i + 1]
      BY <1>2, <1>3, <1>4, <1>7, <2>1
    <3>2. QED  BY <1>6, <3>1 DEF QueueInv
  <2>2. CASE v # w
    BY <1>4, <1>6, <1>7, <2>2 DEF QueueInv
  <2>3. QED  BY <2>1, <2>2
<1>8. ASSUME NEW u \in W, NEW v \in W, NEW i \in 1 .. Len(g[u]), NEW j \in 1 .. Len(g[v]),
             g[u][i] = g[v][j]
      PROVE  u = v /\ i = j
  <2>1. CASE u # w /\ v # w
    BY <1>4, <1>8, <2>1 DEF QueueInv
  <2>2. CASE u = w /\ v # w
    <3>1. i + 1 \in 1 .. Len(h[w]) /\ j \in 1 .. Len(h[v]) /\ h[v][j] = h[w][i + 1]
      BY <1>2, <1>3, <1>4, <1>8, <2>2
    <3>2. \A k \in 1 .. Len(h[w]) : h[v][j] = h[w][k] => v = w
      BY <3>1 DEF QueueInv
    <3>3. QED  BY <2>2, <3>1, <3>2
  <2>3. CASE u # w /\ v = w
    <3>1. j + 1 \in 1 .. Len(h[w]) /\ i \in 1 .. Len(h[u]) /\ h[u][i] = h[w][j + 1]
      BY <1>2, <1>3, <1>4, <1>8, <2>3
    <3>2. \A k \in 1 .. Len(h[w]) : h[u][i] = h[w][k] => u = w
      BY <3>1 DEF QueueInv
    <3>3. QED  BY <2>3, <3>1, <3>2
  <2>4. CASE u = w /\ v = w
    <3>1. i \in 1 .. Len(hw) /\ j \in 1 .. Len(hw) /\ hw[i] = hw[j]
      BY <1>4, <1>8, <2>4
    <3>2. /\ i + 1 \in 1 .. Len(h[w]) /\ j + 1 \in 1 .. Len(h[w])
          /\ h[w][i + 1] = h[w][j + 1]
      BY <1>2, <1>3, <3>1
    <3>3. i + 1 = j + 1
      <4>1. \A k, l \in 1 .. Len(h[w]) : h[w][k] = h[w][l] => k = l
        BY DEF QueueInv
      <4>2. QED  BY <3>2, <4>1
    <3>4. i \in Nat /\ j \in Nat
      BY <3>1
    <3>5. QED  BY <2>4, <3>3, <3>4
  <2>5. QED  BY <2>1, <2>2, <2>3, <2>4
<1>9. QED  BY <1>2, <1>4, <1>5, <1>7, <1>8 DEF QueueInv, g, hw

LEMMA RequeuedQueue ==
    ASSUME NEW W, NEW p \in Nat, NEW ms, NEW q, NEW h, QueueInv(W, p, ms, q, h),
           NEW w \in W
    PROVE  QueueInv(W, p, ms, q, [h EXCEPT ![w] = <<>>])
BY DEF QueueInv

(* What a consumer works on is in the queue, and in no other's hands.      *)
LEMMA HeadOfQueue ==
    ASSUME NEW W, NEW p \in Nat, NEW ms, NEW q, NEW h, QueueInv(W, p, ms, q, h),
           NEW w \in W, h[w] # <<>>
    PROVE  /\ Head(h[w]) \in q
           /\ h[w] \in Seq(ms)
           /\ \A v \in W \ {w} : h[v] # <<>> => Head(h[v]) # Head(h[w])
<1>1. \A v \in W : h[v] # <<>> => /\ h[v] \in Seq(ms)
                                  /\ 1 \in 1 .. Len(h[v]) /\ Head(h[v]) = h[v][1]
  BY DEF QueueInv
<1>2. QED  BY <1>1 DEF QueueInv

-----------------------------------------------------------------------------
(* The two queues, and who has what of them.                               *)
JobMessages == [serial : Nat, body : Refreshes]
ResultMessages == [serial : Nat, body : Results]

JobsInv == QueueInv(Fetchers, FetchPrefetch, JobMessages, jobs, fetching)
ResultsInv == QueueInv(Writers, WritePrefetch, ResultMessages, results, writing)

HasJob(f) == fetching[f] # <<>>
HasResult(w) == writing[w] # <<>>
JobOf(f) == Head(fetching[f]).body
ResultOf(w) == Head(writing[w]).body

PipelineTypes ==
    /\ esi \in Versions
    /\ JobsInv /\ ResultsInv
    /\ fetched \in [Fetchers -> Versions \cup {0}]
    /\ published \subseteq Fetchers
    /\ cut \in [Fetchers -> Refreshes \cup {0}]
    /\ \A f \in Fetchers : fetched[f] # 0 => HasJob(f) \/ cut[f] # 0
    /\ \A f \in published : fetched[f] # 0
    /\ left \in [Writers -> SUBSET Types]
    /\ \A w \in Writers : left[w] # Types => HasResult(w)
    /\ late \subseteq [type : Types, version : Versions]
    /\ prices \in [Types -> Versions \cup {0}]
    /\ dispatched \in 0 .. MaxJobs /\ faults \in 0 .. MaxFaults
    /\ floor \in 0 .. esi

(* What a worker works on came from the queue.                             *)
LEMMA CurrentJob ==
    ASSUME PipelineTypes, NEW f \in Fetchers, HasJob(f)
    PROVE  /\ Head(fetching[f]) \in jobs
           /\ Head(fetching[f]) \in JobMessages
           /\ JobOf(f) \in Refreshes
           /\ JobOf(f) \in {m.body : m \in jobs}
<1>1. Head(fetching[f]) \in jobs /\ jobs \subseteq JobMessages
  <2>1. JobsInv
    BY DEF PipelineTypes
  <2>2. fetching[f] # <<>>
    BY DEF HasJob
  <2>3. FetchPrefetch \in Nat
    BY PricesAssumption
  <2>4. Head(fetching[f]) \in jobs
    BY <2>1, <2>2, <2>3, HeadOfQueue DEF JobsInv
  <2>5. QED  BY <2>1, <2>4 DEF JobsInv, QueueInv
<1>2. QED  BY <1>1 DEF JobMessages, JobOf

LEMMA CurrentResult ==
    ASSUME PipelineTypes, NEW w \in Writers, HasResult(w)
    PROVE  /\ Head(writing[w]) \in results
           /\ Head(writing[w]) \in ResultMessages
           /\ ResultOf(w) \in Results
           /\ ResultOf(w) \in {m.body : m \in results}
<1>1. Head(writing[w]) \in results /\ results \subseteq ResultMessages
  <2>1. ResultsInv
    BY DEF PipelineTypes
  <2>2. writing[w] # <<>>
    BY DEF HasResult
  <2>3. WritePrefetch \in Nat
    BY PricesAssumption
  <2>4. Head(writing[w]) \in results
    BY <2>1, <2>2, <2>3, HeadOfQueue DEF ResultsInv
  <2>5. QED  BY <2>1, <2>4 DEF ResultsInv, QueueInv
<1>2. QED  BY <1>1 DEF ResultMessages, ResultOf

(* The one after it did, too.                                              *)
LEMMA FollowingJob ==
    ASSUME PipelineTypes, NEW f \in Fetchers, Len(fetching[f]) > 1
    PROVE  /\ fetching[f][2] \in jobs
           /\ fetching[f][2].body \in Refreshes
<1>1. fetching[f] \in Seq(JobMessages) /\ jobs \subseteq JobMessages
  BY DEF PipelineTypes, JobsInv, QueueInv
<1>2. 2 \in 1 .. Len(fetching[f])
  BY <1>1
<1>3. fetching[f][2] \in jobs
  BY <1>2 DEF PipelineTypes, JobsInv, QueueInv
<1>4. QED  BY <1>1, <1>3 DEF JobMessages

LEMMA FollowingResult ==
    ASSUME PipelineTypes, NEW w \in Writers, Len(writing[w]) > 1
    PROVE  /\ writing[w][2] \in results
           /\ writing[w][2].body \in Results
<1>1. writing[w] \in Seq(ResultMessages) /\ results \subseteq ResultMessages
  BY DEF PipelineTypes, ResultsInv, QueueInv
<1>2. 2 \in 1 .. Len(writing[w])
  BY <1>1
<1>3. writing[w][2] \in results
  BY <1>2 DEF PipelineTypes, ResultsInv, QueueInv
<1>4. QED  BY <1>1, <1>3 DEF ResultMessages

(* The job a fetch worker is on is one it has, or one it lost.             *)
LEMMA HandlingIs ==
    ASSUME PipelineTypes, NEW f \in Fetchers, HasJob(f) \/ cut[f] # 0
    PROVE  /\ Handling(f) \in Refreshes
           /\ cut[f] = 0 => HasJob(f) /\ Handling(f) = JobOf(f)
           /\ cut[f] # 0 => Handling(f) = cut[f]
<1>1. CASE cut[f] = 0
  BY <1>1, CurrentJob DEF Handling, JobQueue!Current, JobOf
<1>2. CASE cut[f] # 0
  BY <1>2 DEF Handling, PipelineTypes
<1>3. QED  BY <1>1, <1>2

(* What is left over of a dead or cut off writer is of its result, or of   *)
(* the one after it.                                                       *)
LEMMA LeftOver ==
    ASSUME PipelineTypes, NEW w \in Writers, WriterDies(w)
    PROVE  \E m \in results, sent \in SUBSET Types :
             /\ m.body \in Results
             /\ late' = late \cup {[type |-> t, version |-> m.body.version] : t \in sent}
<1>1. HasResult(w) /\ left[w] \subseteq Types
  BY DEF WriterDies, ResultQueue!Working, HasResult, PipelineTypes
<1>2. CASE \E sent \in SUBSET left[w] :
             late' = late \cup {[type |-> t, version |-> ResultQueue!Current(w).version] : t \in sent}
  <2>1. Head(writing[w]) \in results /\ Head(writing[w]).body \in Results
    BY <1>1, CurrentResult DEF ResultOf
  <2>2. PICK sent \in SUBSET left[w] :
          late' = late \cup {[type |-> t, version |-> Head(writing[w]).body.version] : t \in sent}
    BY <1>2 DEF ResultQueue!Current
  <2>3. sent \in SUBSET Types
    BY <1>1
  <2>4. QED  BY <2>1, <2>2, <2>3
<1>3. CASE /\ Len(writing[w]) > 1
           /\ \E sent \in SUBSET Types :
                late' = late \cup {[type |-> t, version |-> ResultQueue!Following(w).version] : t \in sent}
  <2>1. writing[w][2] \in results /\ writing[w][2].body \in Results
    BY <1>3, FollowingResult
  <2>2. PICK sent \in SUBSET Types :
          late' = late \cup {[type |-> t, version |-> writing[w][2].body.version] : t \in sent}
    BY <1>3 DEF ResultQueue!Following
  <2>3. QED  BY <2>1, <2>2
<1>4. QED  BY <1>2, <1>3 DEF WriterDies

(* The broker's operations, on each of the queues.                         *)
LEMMA JobSent ==
    ASSUME JobsInv, NEW r \in Refreshes, JobQueue!Send(r)
    PROVE  /\ JobsInv' /\ fetching' = fetching
           /\ \E n \in Nat : jobs' = jobs \cup {[serial |-> n, body |-> r]}
<1>1. PICK last \in {0} \cup {m.serial : m \in jobs} :
        jobs' = jobs \cup {[serial |-> last + 1, body |-> r]}
  BY DEF JobQueue!Send
<1>2. \A m \in jobs : m.serial \in Nat
  BY DEF JobsInv, QueueInv, JobMessages
<1>3. last + 1 \in Nat
  BY <1>1, <1>2
<1>4. [serial |-> last + 1, body |-> r] \in JobMessages
  BY <1>3 DEF JobMessages
<1>5. fetching' = fetching
  BY DEF JobQueue!Send
<1>6. QED  BY <1>1, <1>3, <1>4, <1>5, LongerQueue, PricesAssumption DEF JobsInv

LEMMA ResultSent ==
    ASSUME ResultsInv, NEW r \in Results, ResultQueue!Send(r)
    PROVE  /\ ResultsInv' /\ writing' = writing
           /\ \E n \in Nat : results' = results \cup {[serial |-> n, body |-> r]}
<1>1. PICK last \in {0} \cup {m.serial : m \in results} :
        results' = results \cup {[serial |-> last + 1, body |-> r]}
  BY DEF ResultQueue!Send
<1>2. \A m \in results : m.serial \in Nat
  BY DEF ResultsInv, QueueInv, ResultMessages
<1>3. last + 1 \in Nat
  BY <1>1, <1>2
<1>4. [serial |-> last + 1, body |-> r] \in ResultMessages
  BY <1>3 DEF ResultMessages
<1>5. writing' = writing
  BY DEF ResultQueue!Send
<1>6. QED  BY <1>1, <1>3, <1>4, <1>5, LongerQueue, PricesAssumption DEF ResultsInv

LEMMA JobDelivered ==
    ASSUME JobsInv, NEW f \in Fetchers, JobQueue!Deliver(f)
    PROVE  /\ JobsInv' /\ jobs' = jobs
           /\ \A g \in Fetchers : HasJob(g) => HasJob(g)' /\ JobOf(g)' = JobOf(g)
<1>1. PICK m \in JobQueue!Oldest : fetching' = [fetching EXCEPT ![f] = Append(fetching[f], m)]
  BY DEF JobQueue!Deliver
<1>2. m \in jobs /\ \A g \in Fetchers : \A i \in DOMAIN fetching[g] : fetching[g][i] # m
  BY <1>1 DEF JobQueue!Oldest, JobQueue!Ready, JobQueue!Held
<1>3. \A g \in Fetchers : fetching[g] \in Seq(JobMessages) /\ DOMAIN fetching[g] = 1 .. Len(fetching[g])
  BY DEF JobsInv, QueueInv
<1>4. jobs' = jobs /\ Len(fetching[f]) < FetchPrefetch /\ FetchPrefetch \in Nat
  BY PricesAssumption DEF JobQueue!Deliver
<1>5. JobsInv'
  BY <1>1, <1>2, <1>3, <1>4, DeliveredQueue DEF JobsInv
<1>6. \A g \in Fetchers : fetching'[g] = IF g = f THEN Append(fetching[f], m) ELSE fetching[g]
  BY <1>1 DEF JobsInv, QueueInv
<1>7. fetching[f] # <<>> => Append(fetching[f], m) # <<>> /\ Head(Append(fetching[f], m)) = Head(fetching[f])
  BY <1>2, <1>3 DEF JobsInv, QueueInv
<1>8. QED  BY <1>4, <1>5, <1>6, <1>7 DEF HasJob, JobOf

LEMMA ResultDelivered ==
    ASSUME ResultsInv, NEW w \in Writers, ResultQueue!Deliver(w)
    PROVE  /\ ResultsInv' /\ results' = results
           /\ \A v \in Writers : HasResult(v) => HasResult(v)' /\ ResultOf(v)' = ResultOf(v)
<1>1. PICK m \in ResultQueue!Oldest : writing' = [writing EXCEPT ![w] = Append(writing[w], m)]
  BY DEF ResultQueue!Deliver
<1>2. m \in results /\ \A v \in Writers : \A i \in DOMAIN writing[v] : writing[v][i] # m
  BY <1>1 DEF ResultQueue!Oldest, ResultQueue!Ready, ResultQueue!Held
<1>3. \A v \in Writers : writing[v] \in Seq(ResultMessages) /\ DOMAIN writing[v] = 1 .. Len(writing[v])
  BY DEF ResultsInv, QueueInv
<1>4. results' = results /\ Len(writing[w]) < WritePrefetch /\ WritePrefetch \in Nat
  BY PricesAssumption DEF ResultQueue!Deliver
<1>5. ResultsInv'
  BY <1>1, <1>2, <1>3, <1>4, DeliveredQueue DEF ResultsInv
<1>6. \A v \in Writers : writing'[v] = IF v = w THEN Append(writing[w], m) ELSE writing[v]
  BY <1>1 DEF ResultsInv, QueueInv
<1>7. writing[w] # <<>> => Append(writing[w], m) # <<>> /\ Head(Append(writing[w], m)) = Head(writing[w])
  BY <1>2, <1>3 DEF ResultsInv, QueueInv
<1>8. QED  BY <1>4, <1>5, <1>6, <1>7 DEF HasResult, ResultOf

LEMMA JobAcked ==
    ASSUME JobsInv, NEW f \in Fetchers, JobQueue!Ack(f)
    PROVE  /\ JobsInv' /\ HasJob(f)
           /\ jobs' = jobs \ {Head(fetching[f])}
           /\ \A g \in Fetchers \ {f} : HasJob(g) => HasJob(g)' /\ JobOf(g)' = JobOf(g)
<1>1. /\ fetching[f] # <<>>
      /\ jobs' = jobs \ {Head(fetching[f])}
      /\ fetching' = [fetching EXCEPT ![f] = Tail(fetching[f])]
  BY DEF JobQueue!Ack, JobQueue!Working
<1>2. JobsInv'
  BY <1>1, AckedQueue, PricesAssumption DEF JobsInv
<1>3. \A g \in Fetchers \ {f} : fetching'[g] = fetching[g]
  BY <1>1 DEF JobsInv, QueueInv
<1>4. QED  BY <1>1, <1>2, <1>3 DEF HasJob, JobOf

LEMMA ResultAcked ==
    ASSUME ResultsInv, NEW w \in Writers, ResultQueue!Ack(w)
    PROVE  /\ ResultsInv' /\ HasResult(w)
           /\ results' = results \ {Head(writing[w])}
           /\ \A v \in Writers \ {w} : HasResult(v) => HasResult(v)' /\ ResultOf(v)' = ResultOf(v)
<1>1. /\ writing[w] # <<>>
      /\ results' = results \ {Head(writing[w])}
      /\ writing' = [writing EXCEPT ![w] = Tail(writing[w])]
  BY DEF ResultQueue!Ack, ResultQueue!Working
<1>2. ResultsInv'
  BY <1>1, AckedQueue, PricesAssumption DEF ResultsInv
<1>3. \A v \in Writers \ {w} : writing'[v] = writing[v]
  BY <1>1 DEF ResultsInv, QueueInv
<1>4. QED  BY <1>1, <1>2, <1>3 DEF HasResult, ResultOf

LEMMA JobRequeued ==
    ASSUME JobsInv, NEW f \in Fetchers, JobQueue!Requeue(f)
    PROVE  /\ JobsInv' /\ jobs' = jobs
           /\ \A g \in Fetchers \ {f} : HasJob(g) => HasJob(g)' /\ JobOf(g)' = JobOf(g)
<1>1. jobs' = jobs /\ fetching' = [fetching EXCEPT ![f] = <<>>]
  BY DEF JobQueue!Requeue
<1>2. JobsInv'
  BY <1>1, RequeuedQueue, PricesAssumption DEF JobsInv
<1>3. \A g \in Fetchers \ {f} : fetching'[g] = fetching[g]
  BY <1>1 DEF JobsInv, QueueInv
<1>4. QED  BY <1>1, <1>2, <1>3 DEF HasJob, JobOf

LEMMA ResultRequeued ==
    ASSUME ResultsInv, NEW w \in Writers, ResultQueue!Requeue(w)
    PROVE  /\ ResultsInv' /\ results' = results
           /\ \A v \in Writers \ {w} : HasResult(v) => HasResult(v)' /\ ResultOf(v)' = ResultOf(v)
<1>1. results' = results /\ writing' = [writing EXCEPT ![w] = <<>>]
  BY DEF ResultQueue!Requeue
<1>2. ResultsInv'
  BY <1>1, RequeuedQueue, PricesAssumption DEF ResultsInv
<1>3. \A v \in Writers \ {w} : writing'[v] = writing[v]
  BY <1>1 DEF ResultsInv, QueueInv
<1>4. QED  BY <1>1, <1>2, <1>3 DEF HasResult, ResultOf

(* Steps that leave a queue alone.                                         *)
LEMMA JobsAlone ==
    ASSUME JobsInv, UNCHANGED jobVars
    PROVE  JobsInv' /\ jobs' = jobs /\ \A g \in Fetchers : HasJob(g)' = HasJob(g) /\ JobOf(g)' = JobOf(g)
BY DEF jobVars, JobsInv, HasJob, JobOf

LEMMA ResultsAlone ==
    ASSUME ResultsInv, UNCHANGED resultVars
    PROVE  /\ ResultsInv' /\ results' = results
           /\ \A v \in Writers : HasResult(v)' = HasResult(v) /\ ResultOf(v)' = ResultOf(v)
BY DEF resultVars, ResultsInv, HasResult, ResultOf

-----------------------------------------------------------------------------
LEMMA FetcherTypes ==
    ASSUME PipelineTypes, NEW f \in Fetchers, FetcherStep(f) \/ FetcherFault(f)
    PROVE  PipelineTypes'
<1> USE DEF PipelineTypes
<1>1. CASE DeliverJob(f)
  BY <1>1, JobDelivered, ResultsAlone DEF DeliverJob, resultVars, fetchVars
<1>2. CASE Fetch(f)
  <2>1. /\ UNCHANGED <<jobVars, resultVars, published, cut, esi, left, late, prices, dispatched, faults, floor>>
        /\ fetched' = [fetched EXCEPT ![f] = esi]
        /\ HasJob(f) \/ cut[f] # 0
    BY <1>2 DEF Fetch, Busy, JobQueue!Working, HasJob
  <2>2. esi # 0
    BY DEF Versions
  <2>3. QED  BY <2>1, <2>2, JobsAlone, ResultsAlone
<1>3. CASE PublishResult(f)
  <2>1. /\ UNCHANGED <<jobVars, esi, fetched, cut, left, late, prices, dispatched, faults, floor>>
        /\ published' = published \cup {f}
        /\ fetched[f] # 0
        /\ ResultQueue!Send([refresh |-> Handling(f), version |-> fetched[f]])
    BY <1>3 DEF PublishResult
  <2>2. Handling(f) \in Refreshes
    BY <2>1, HandlingIs
  <2>3. [refresh |-> Handling(f), version |-> fetched[f]] \in Results
    BY <2>1, <2>2 DEF Results
  <2>4. ResultsInv' /\ writing' = writing
    BY <2>1, <2>3, ResultSent
  <2>5. \A w \in Writers : HasResult(w)' = HasResult(w)
    BY <2>4 DEF HasResult
  <2>6. QED  BY <2>1, <2>4, <2>5, JobsAlone
<1>4. CASE AckJob(f)
  <2>1. /\ UNCHANGED <<resultVars, cut, esi, left, late, prices, dispatched, faults, floor>>
        /\ fetched' = [fetched EXCEPT ![f] = 0]
        /\ published' = published \ {f}
        /\ JobQueue!Ack(f)
    BY <1>4 DEF AckJob
  <2>2. QED  BY <2>1, JobAcked, ResultsAlone
<1>5. CASE AckFails(f) \/ FetcherDies(f)
  <2>1. /\ UNCHANGED <<resultVars, esi, left, late, prices, dispatched, floor>>
        /\ fetched' = [fetched EXCEPT ![f] = 0]
        /\ published' = published \ {f}
        /\ cut' = [cut EXCEPT ![f] = 0]
        /\ JobQueue!Requeue(f)
    BY <1>5 DEF AckFails, FetcherDies, Restart
  <2>2. faults' = faults \/ (faults < MaxFaults /\ faults' = faults + 1)
    BY <1>5 DEF AckFails, FetcherDies
  <2>3. faults' \in 0 .. MaxFaults
    BY <2>2, PricesAssumption
  <2>4. QED  BY <2>1, <2>3, JobRequeued, ResultsAlone
<1>6. CASE ConnectionLost(f)
  <2>1. /\ UNCHANGED <<resultVars, esi, left, late, prices, dispatched, floor>>
        /\ JobQueue!Requeue(f) /\ HasJob(f)
        /\ faults < MaxFaults /\ faults' = faults + 1
    BY <1>6 DEF ConnectionLost, JobQueue!Working, HasJob
  <2>2. faults' \in 0 .. MaxFaults
    BY <2>1, PricesAssumption
  <2>3. /\ JobsInv'
        /\ \A g \in Fetchers \ {f} : HasJob(g) => HasJob(g)'
    BY <2>1, JobRequeued
  <2>4. 0 \notin Refreshes
    BY DEF Refreshes
  <2>5. CASE cut' = [cut EXCEPT ![f] = Handling(f)] /\ UNCHANGED <<fetched, published>>
    <3>1. Handling(f) \in Refreshes
      BY <2>1, HandlingIs
    <3>2. cut' \in [Fetchers -> Refreshes \cup {0}] /\ cut'[f] # 0
          /\ \A g \in Fetchers \ {f} : cut'[g] = cut[g]
      BY <2>4, <2>5, <3>1
    <3>3. \A g \in Fetchers : fetched'[g] # 0 => HasJob(g)' \/ cut'[g] # 0
      BY <2>3, <2>5, <3>2
    <3>4. QED  BY <2>1, <2>2, <2>3, <2>5, <3>2, <3>3, ResultsAlone
  <2>6. CASE /\ Len(fetching[f]) > 1
             /\ cut' = [cut EXCEPT ![f] = JobQueue!Following(f)]
             /\ fetched' = [fetched EXCEPT ![f] = 0]
             /\ published' = published \ {f}
    <3>1. JobQueue!Following(f) \in Refreshes
      BY <2>6, FollowingJob DEF JobQueue!Following
    <3>2. cut' \in [Fetchers -> Refreshes \cup {0}]
          /\ \A g \in Fetchers \ {f} : cut'[g] = cut[g]
      BY <2>6, <3>1
    <3>3. \A g \in Fetchers : fetched'[g] # 0 => HasJob(g)' \/ cut'[g] # 0
      BY <2>3, <2>6, <3>2
    <3>4. QED  BY <2>1, <2>2, <2>3, <2>6, <3>2, <3>3, ResultsAlone
  <2>7. QED  BY <1>6, <2>5, <2>6 DEF ConnectionLost
<1>7. QED  BY <1>1, <1>2, <1>3, <1>4, <1>5, <1>6 DEF FetcherStep, FetcherFault

LEMMA WriterTypes ==
    ASSUME PipelineTypes, NEW w \in Writers, WriterStep(w) \/ WriterDies(w)
    PROVE  PipelineTypes'
<1> USE DEF PipelineTypes
<1>1. CASE DeliverResult(w)
  BY <1>1, ResultDelivered, JobsAlone DEF DeliverResult, jobVars, fetchVars
<1>2. ASSUME NEW t \in Types, Upsert(w, t)
      PROVE  PipelineTypes'
  <2>1. /\ UNCHANGED <<jobVars, resultVars, fetched, published, cut, esi, late, dispatched, faults, floor>>
        /\ prices' = [prices EXCEPT ![t] = ResultOf(w).version]
        /\ left' = [left EXCEPT ![w] = left[w] \ {t}]
        /\ HasResult(w)
    BY <1>2 DEF Upsert, ResultQueue!Working, ResultQueue!Current, HasResult, ResultOf, fetchVars
  <2>2. ResultOf(w).version \in Versions
    BY <2>1, CurrentResult DEF Results
  <2>3. prices' \in [Types -> Versions \cup {0}] /\ left' \in [Writers -> SUBSET Types]
    BY <2>1, <2>2
  <2>4. \A v \in Writers : left'[v] # Types => HasResult(v)'
    BY <2>1, ResultsAlone
  <2>5. QED  BY <2>1, <2>3, <2>4, JobsAlone, ResultsAlone
<1>3. CASE AckResult(w)
  <2>1. /\ UNCHANGED <<jobVars, fetched, published, cut, esi, late, prices, dispatched, faults, floor>>
        /\ left' = [left EXCEPT ![w] = Types]
        /\ ResultQueue!Ack(w)
    BY <1>3 DEF AckResult, fetchVars
  <2>2. QED  BY <2>1, ResultAcked, JobsAlone
<1>4. CASE WriterDies(w)
  <2>1. PICK m \in results, sent \in SUBSET Types :
          /\ m.body \in Results
          /\ late' = late \cup {[type |-> t, version |-> m.body.version] : t \in sent}
    BY <1>4, LeftOver
  <2>2. /\ UNCHANGED <<jobVars, fetched, published, cut, esi, prices, dispatched, floor>>
        /\ left' = [left EXCEPT ![w] = Types]
        /\ ResultQueue!Requeue(w)
        /\ HasResult(w)
        /\ faults < MaxFaults /\ faults' = faults + 1
    BY <1>4 DEF WriterDies, fetchVars, ResultQueue!Working, HasResult
  <2>3. faults' \in 0 .. MaxFaults
    BY <2>2, PricesAssumption
  <2>4. m.body.version \in Versions
    BY <2>1 DEF Results
  <2>5. late' \subseteq [type : Types, version : Versions]
    BY <2>1, <2>4
  <2>6. QED  BY <2>2, <2>3, <2>5, ResultRequeued, JobsAlone
<1>5. QED  BY <1>1, <1>2, <1>3, <1>4 DEF WriterStep

LEMMA OtherTypes ==
    ASSUME PipelineTypes, EsiChanges \/ Dispatch \/ LateUpsert \/ UNCHANGED vars
    PROVE  PipelineTypes'
<1> USE DEF PipelineTypes
<1>1. CASE EsiChanges
  <2>1. esi' \in Versions /\ floor \in 0 .. esi'
    BY <1>1, PricesAssumption DEF EsiChanges, Versions
  <2>2. QED  BY <1>1, <2>1, JobsAlone, ResultsAlone DEF EsiChanges, fetchVars
<1>2. CASE Dispatch
  <2>1. /\ UNCHANGED <<resultVars, fetched, published, cut, esi, left, late, prices, faults>>
        /\ dispatched < MaxJobs /\ dispatched' = dispatched + 1
        /\ JobQueue!Send(dispatched + 1)
        /\ floor' \in {esi, floor}
    BY <1>2 DEF Dispatch, fetchVars
  <2>2. dispatched + 1 \in Refreshes /\ dispatched' \in 0 .. MaxJobs
    BY <2>1, PricesAssumption DEF Refreshes
  <2>3. floor' \in 0 .. esi
    BY <2>1, PricesAssumption DEF Versions
  <2>4. JobsInv' /\ fetching' = fetching
    BY <2>1, <2>2, JobSent
  <2>5. \A f \in Fetchers : HasJob(f)' = HasJob(f)
    BY <2>4 DEF HasJob
  <2>6. QED  BY <2>1, <2>2, <2>3, <2>4, <2>5, ResultsAlone
<1>3. CASE LateUpsert
  <2>1. PICK u \in late : /\ late' = late \ {u}
                          /\ prices' = [prices EXCEPT ![u.type] = u.version]
    BY <1>3 DEF LateUpsert
  <2>2. prices' \in [Types -> Versions \cup {0}]
    BY <2>1
  <2>3. QED  BY <1>3, <2>1, <2>2, JobsAlone, ResultsAlone DEF LateUpsert, fetchVars
<1>4. CASE UNCHANGED vars
  BY <1>4, JobsAlone, ResultsAlone DEF vars, fetchVars
<1>5. QED  BY <1>1, <1>2, <1>3, <1>4

LEMMA TypesStep == PipelineTypes /\ [Next]_vars => PipelineTypes'
BY FetcherTypes, WriterTypes, OtherTypes DEF Next, Finished

LEMMA TypesInvariant == Spec => []PipelineTypes
<1>1. Init => PipelineTypes
  <2> SUFFICES ASSUME Init PROVE PipelineTypes
    OBVIOUS
  <2>1. JobsInv
    BY EmptyQueue, PricesAssumption DEF Init, JobQueue!Init, JobsInv
  <2>2. ResultsInv
    BY EmptyQueue, PricesAssumption DEF Init, ResultQueue!Init, ResultsInv
  <2>3. esi \in Versions /\ floor \in 0 .. esi /\ dispatched \in 0 .. MaxJobs /\ faults \in 0 .. MaxFaults
    BY PricesAssumption DEF Init, Versions
  <2>4. QED  BY <2>1, <2>2, <2>3 DEF Init, PipelineTypes
<1>2. QED  BY <1>1, TypesStep, PTL DEF Spec

-----------------------------------------------------------------------------
(* Why no refresh gets lost between the queues: a worker that has          *)
(* published acknowledges a refresh that the next queue stands for, or one *)
(* that has been applied already; and only then is a result acknowledged.  *)
(* What a cut off worker is on has been applied, or is with others.        *)
InJobs == {m.body : m \in jobs}
InResults == {m.body.refresh : m \in results}

CutOff == \A f \in Fetchers : cut[f] # 0 => cut[f] \in Pending \cup applied

HandOver ==
    /\ Pending \cup applied \subseteq 1 .. dispatched
    /\ \A f \in published : cut[f] = 0 => JobOf(f) \in applied \cup InResults
    /\ \A w \in Writers : HasResult(w) /\ left[w] = {} => ResultOf(w).refresh \in applied
    /\ CutOff

HandOverStep == HandOver' /\ [Pipeline!Next]_<<Pending, applied>>

LEMMA PendingIs ==
    Pending = InJobs \cup InResults /\ Pending' = InJobs' \cup InResults'
BY DEF Pending, InJobs, InResults

(* No step of the abstract queue takes away a refresh that is not done.    *)
LEMMA CutOffKept ==
    ASSUME CutOff, [Pipeline!Next]_<<Pending, applied>>, UNCHANGED cut
    PROVE  CutOff'
<1>1. Pending \cup applied \subseteq Pending' \cup applied'
  BY DEF Pipeline!Next, Pipeline!Submit, Pipeline!Repeat, Pipeline!Do, Pipeline!Forget
<1>2. QED  BY <1>1 DEF CutOff

(* Steps that leave both queues' messages and what is applied alone.       *)
LEMMA NoHandOver ==
    ASSUME PipelineTypes, HandOver, jobs' = jobs, results' = results, applied' = applied,
           dispatched' = dispatched,
           \A f \in Fetchers : cut'[f] = cut[f] \/ cut'[f] \in Pending \cup {0},
           \A f \in published' : cut'[f] = 0
                                => f \in published /\ cut[f] = 0 /\ JobOf(f)' = JobOf(f),
           \A w \in Writers : HasResult(w)' /\ left'[w] = {}
                                => HasResult(w) /\ left[w] = {} /\ ResultOf(w)' = ResultOf(w)
    PROVE  HandOverStep
<1>1. Pending' = Pending /\ InResults' = InResults
  BY DEF Pending, InResults
<1>2. HandOver'
  BY <1>1 DEF HandOver, CutOff
<1>3. QED  BY <1>1, <1>2 DEF HandOverStep

LEMMA FetcherHandsOver ==
    ASSUME PipelineTypes, HandOver, NEW f \in Fetchers, FetcherStep(f) \/ FetcherFault(f)
    PROVE  HandOverStep
<1> USE PendingIs
<1>0. /\ published \subseteq Fetchers /\ cut \in [Fetchers -> Refreshes \cup {0}]
      /\ JobsInv /\ ResultsInv
      /\ \A g \in published : HasJob(g) \/ cut[g] # 0
  BY DEF PipelineTypes
<1>1. CASE DeliverJob(f)
  <2>1. /\ UNCHANGED <<resultVars, published, cut, applied, left, dispatched>>
        /\ JobQueue!Deliver(f)
    BY <1>1 DEF DeliverJob, fetchVars
  <2>2. jobs' = jobs /\ \A g \in Fetchers : HasJob(g) => JobOf(g)' = JobOf(g)
    BY <1>0, <2>1, JobDelivered
  <2>3. QED  BY <1>0, <2>1, <2>2, ResultsAlone, NoHandOver
<1>2. CASE Fetch(f)
  <2>1. UNCHANGED <<jobVars, resultVars, published, cut, applied, left, dispatched>>
    BY <1>2 DEF Fetch
  <2>2. QED  BY <1>0, <2>1, JobsAlone, ResultsAlone, NoHandOver
<1>3. CASE PublishResult(f)
  <2> DEFINE r == Handling(f)
             result == [refresh |-> r, version |-> fetched[f]]
  <2>1. /\ UNCHANGED <<jobVars, cut, applied, left, dispatched>>
        /\ published' = published \cup {f}
        /\ fetched[f] # 0 /\ (HasJob(f) \/ cut[f] # 0)
        /\ ResultQueue!Send(result)
    BY <1>3 DEF PublishResult, PipelineTypes
  <2>2. /\ r \in Refreshes
        /\ cut[f] = 0 => HasJob(f) /\ r = JobOf(f)
        /\ cut[f] # 0 => r = cut[f]
    BY <2>1, HandlingIs
  <2>3. result \in Results
    BY <2>1, <2>2 DEF Results, PipelineTypes
  <2>4. PICK n \in Nat : /\ results' = results \cup {[serial |-> n, body |-> result]}
                         /\ writing' = writing
    BY <2>3, <2>1, ResultSent DEF PipelineTypes
  <2>5. InResults' = InResults \cup {r}
    <3> DEFINE m == [serial |-> n, body |-> result]
    <3>1. m.body.refresh = r /\ results' = results \cup {m}
      BY <2>4
    <3> HIDE DEF m, r
    <3>2. QED  BY <3>1 DEF InResults
  <2>6. InJobs' = InJobs
    BY <2>1, JobsAlone DEF InJobs, PipelineTypes
  <2> HIDE DEF r
  <2>7. Pending' = Pending \cup {r}
    BY <2>5, <2>6
  <2>8. r \in Pending \cup applied
    <3>1. CASE cut[f] = 0
      <4>1. JobOf(f) \in InJobs
        BY <2>2, <3>1, CurrentJob DEF InJobs
      <4>2. QED  BY <2>2, <3>1, <4>1
    <3>2. CASE cut[f] # 0
      BY <2>2, <3>2 DEF HandOver, CutOff
    <3>3. QED  BY <3>1, <3>2
  <2>9. [Pipeline!Next]_<<Pending, applied>>
    <3>1. CASE r \in Pending
      BY <2>1, <2>7, <3>1
    <3>2. CASE r \in applied
      BY <2>1, <2>2, <2>7, <3>2 DEF Pipeline!Next, Pipeline!Repeat
    <3>3. QED  BY <2>8, <3>1, <3>2
  <2>10. \A g \in Fetchers : JobOf(g)' = JobOf(g)
    BY <2>1, JobsAlone DEF PipelineTypes
  <2>11. \A w \in Writers : HasResult(w)' = HasResult(w) /\ ResultOf(w)' = ResultOf(w)
    BY <2>4 DEF HasResult, ResultOf
  <2>12. \A g \in published' : cut'[g] = 0 => JobOf(g)' \in applied' \cup InResults'
    <3> TAKE g \in published'
    <3>1. g \in Fetchers /\ cut' = cut
      BY <1>0, <2>1
    <3>2. CASE g = f
      BY <2>2, <2>5, <2>10, <3>1, <3>2
    <3>3. CASE g # f
      BY <2>1, <2>5, <2>10, <3>1, <3>3 DEF HandOver
    <3>4. QED  BY <3>2, <3>3
  <2>13. CutOff'
    BY <2>1, <2>9, CutOffKept DEF HandOver
  <2>14. (Pending \cup applied)' \subseteq 1 .. dispatched'
    BY <2>1, <2>7, <2>8 DEF HandOver
  <2>15. \A w \in Writers : HasResult(w)' /\ left'[w] = {} => ResultOf(w)'.refresh \in applied'
    BY <2>1, <2>11 DEF HandOver
  <2>16. HandOver'
    BY <2>12, <2>13, <2>14, <2>15 DEF HandOver
  <2>17. QED  BY <2>9, <2>16 DEF HandOverStep
<1>4. CASE AckJob(f)
  <2> DEFINE r == JobOf(f)
  <2>1. /\ UNCHANGED <<resultVars, cut, applied, left, dispatched>>
        /\ published' = published \ {f}
        /\ f \in published /\ cut[f] = 0
        /\ JobQueue!Ack(f)
    BY <1>4 DEF AckJob
  <2>2. /\ HasJob(f) /\ jobs' = jobs \ {Head(fetching[f])}
        /\ \A g \in Fetchers \ {f} : HasJob(g) => HasJob(g)' /\ JobOf(g)' = JobOf(g)
    BY <2>1, JobAcked DEF PipelineTypes
  <2>3. InJobs' \subseteq InJobs /\ InJobs \subseteq InJobs' \cup {r}
    BY <2>2 DEF InJobs, JobOf
  <2>4. InResults' = InResults
    BY <2>1, ResultsAlone DEF InResults, PipelineTypes
  <2>5. \A w \in Writers : HasResult(w)' = HasResult(w) /\ ResultOf(w)' = ResultOf(w)
    BY <2>1, ResultsAlone DEF PipelineTypes
  <2>6. r \in Refreshes /\ r \in InJobs
    BY <2>2, CurrentJob DEF InJobs
  <2>7. r \in applied \cup InResults
    BY <2>1 DEF HandOver
  <2> HIDE DEF r
  <2>8. Pending' = Pending \/ (Pending' = Pending \ {r} /\ r \in Pending \cap applied)
    BY <2>3, <2>4, <2>6, <2>7
  <2>9. [Pipeline!Next]_<<Pending, applied>>
    BY <2>1, <2>6, <2>8 DEF Pipeline!Next, Pipeline!Forget
  <2>10. \A g \in published' : cut'[g] = 0 => JobOf(g)' \in applied' \cup InResults'
    <3> TAKE g \in published'
    <3>1. g \in Fetchers \ {f} /\ g \in published /\ cut' = cut
      BY <1>0, <2>1
    <3>2. cut[g] = 0 => JobOf(g)' = JobOf(g)
      BY <1>0, <2>2, <3>1
    <3>3. QED  BY <2>1, <2>4, <3>1, <3>2 DEF HandOver
  <2>11. CutOff'
    BY <2>1, <2>9, CutOffKept DEF HandOver
  <2>12. HandOver'
    BY <2>1, <2>5, <2>8, <2>10, <2>11 DEF HandOver
  <2>13. QED  BY <2>9, <2>12 DEF HandOverStep
<1>5. CASE AckFails(f) \/ FetcherFault(f)
  <2>1. /\ UNCHANGED <<resultVars, applied, left, dispatched>>
        /\ JobQueue!Requeue(f)
        /\ \A g \in Fetchers \ {f} : cut'[g] = cut[g]
        /\ published' \subseteq published
    BY <1>0, <1>5 DEF AckFails, FetcherFault, FetcherDies, Restart, ConnectionLost
  <2>2. cut'[f] # 0 \/ f \notin published'
    <3>1. CASE AckFails(f) \/ FetcherDies(f)
      BY <3>1 DEF AckFails, FetcherDies, Restart
    <3>2. CASE ConnectionLost(f)
      <4>1. HasJob(f) \/ cut[f] # 0
        BY <3>2 DEF ConnectionLost, JobQueue!Working, HasJob
      <4>2. Handling(f) # 0
        BY <4>1, HandlingIs DEF Refreshes
      <4>3. QED  BY <1>0, <3>2, <4>2 DEF ConnectionLost
    <3>3. QED  BY <1>5, <3>1, <3>2 DEF FetcherFault
  <2>3. cut'[f] = cut[f] \/ cut'[f] \in Pending \cup {0}
    <3>1. CASE AckFails(f) \/ FetcherDies(f)
      BY <1>0, <3>1 DEF AckFails, FetcherDies, Restart
    <3>2. CASE /\ ConnectionLost(f)
               /\ cut' = [cut EXCEPT ![f] = Handling(f)]
      <4>1. HasJob(f)
        BY <3>2 DEF ConnectionLost, JobQueue!Working, HasJob
      <4>2. cut[f] = 0 => Handling(f) \in InJobs
        BY <4>1, HandlingIs, CurrentJob DEF InJobs
      <4>3. cut[f] # 0 => Handling(f) = cut[f]
        BY <4>1, HandlingIs
      <4>4. QED  BY <1>0, <3>2, <4>2, <4>3
    <3>3. CASE /\ Len(fetching[f]) > 1
               /\ cut' = [cut EXCEPT ![f] = JobQueue!Following(f)]
      <4>1. JobQueue!Following(f) \in InJobs
        BY <3>3, FollowingJob DEF JobQueue!Following, InJobs
      <4>2. QED  BY <1>0, <3>3, <4>1
    <3>4. QED  BY <1>5, <3>1, <3>2, <3>3 DEF FetcherFault, ConnectionLost
  <2>4. jobs' = jobs /\ \A g \in Fetchers \ {f} : HasJob(g) => JobOf(g)' = JobOf(g)
    BY <1>0, <2>1, JobRequeued
  <2>5. results' = results /\ \A w \in Writers : HasResult(w)' = HasResult(w) /\ ResultOf(w)' = ResultOf(w)
    BY <1>0, <2>1, ResultsAlone
  <2>6. \A g \in Fetchers : cut'[g] = cut[g] \/ cut'[g] \in Pending \cup {0}
    BY <2>1, <2>3
  <2>7. \A g \in published' : cut'[g] = 0
                               => g \in published /\ cut[g] = 0 /\ JobOf(g)' = JobOf(g)
    BY <1>0, <2>1, <2>2, <2>4
  <2>8. \A w \in Writers : HasResult(w)' /\ left'[w] = {}
                             => HasResult(w) /\ left[w] = {} /\ ResultOf(w)' = ResultOf(w)
    BY <2>1, <2>5
  <2>9. QED  BY <2>1, <2>4, <2>5, <2>6, <2>7, <2>8, NoHandOver
<1>6. QED  BY <1>1, <1>2, <1>3, <1>4, <1>5 DEF FetcherStep

LEMMA WriterHandsOver ==
    ASSUME PipelineTypes, HandOver, NEW w \in Writers, WriterStep(w) \/ WriterDies(w)
    PROVE  HandOverStep
<1>0. published \subseteq Fetchers /\ left \in [Writers -> SUBSET Types]
      /\ (\A v \in Writers : left[v] # Types => HasResult(v)) /\ JobsInv /\ ResultsInv
      /\ Types # {}
  BY PricesAssumption DEF PipelineTypes
<1>1. CASE DeliverResult(w)
  <2>1. /\ UNCHANGED <<jobVars, published, cut, applied, left, dispatched>>
        /\ ResultQueue!Deliver(w)
    BY <1>1 DEF DeliverResult, fetchVars
  <2>2. results' = results /\ \A v \in Writers : HasResult(v) => HasResult(v)' /\ ResultOf(v)' = ResultOf(v)
    BY <1>0, <2>1, ResultDelivered
  <2>3. jobs' = jobs /\ \A f \in Fetchers : JobOf(f)' = JobOf(f)
    BY <1>0, <2>1, JobsAlone
  <2>4. \A v \in Writers : HasResult(v)' /\ left'[v] = {}
                             => HasResult(v) /\ left[v] = {} /\ ResultOf(v)' = ResultOf(v)
    BY <1>0, <2>1, <2>2
  <2>5. \A f \in published' : cut'[f] = 0
                               => f \in published /\ cut[f] = 0 /\ JobOf(f)' = JobOf(f)
    BY <1>0, <2>1, <2>3
  <2>6. QED  BY <2>1, <2>2, <2>3, <2>4, <2>5, NoHandOver
<1>2. ASSUME NEW t \in Types, Upsert(w, t)
      PROVE  HandOverStep
  <2> DEFINE r == ResultOf(w).refresh
  <2>1. /\ UNCHANGED <<jobVars, resultVars, published, cut, dispatched>>
        /\ HasResult(w) /\ t \in left[w]
        /\ left' = [left EXCEPT ![w] = left[w] \ {t}]
        /\ applied' = IF left[w] = {t} THEN applied \cup {r} ELSE applied
    BY <1>2 DEF Upsert, fetchVars, ResultQueue!Working, ResultQueue!Current, HasResult, ResultOf
  <2>2. /\ jobs' = jobs /\ results' = results
        /\ \A f \in Fetchers : JobOf(f)' = JobOf(f)
        /\ \A v \in Writers : HasResult(v)' = HasResult(v) /\ ResultOf(v)' = ResultOf(v)
    BY <1>0, <2>1, JobsAlone, ResultsAlone
  <2>3. Pending' = Pending /\ InResults' = InResults
    BY <2>2 DEF Pending, InResults
  <2>4. r \in Refreshes /\ r \in Pending
    BY <2>1, CurrentResult DEF Results, Pending
  <2> HIDE DEF r
  <2>5. [Pipeline!Next]_<<Pending, applied>>
    BY <2>1, <2>3, <2>4 DEF Pipeline!Next, Pipeline!Do
  <2>6. (Pending \cup applied)' \subseteq 1 .. dispatched'
    BY <2>1, <2>3, <2>4 DEF HandOver
  <2>7. \A f \in published' : cut'[f] = 0 => JobOf(f)' \in applied' \cup InResults'
    BY <1>0, <2>1, <2>2, <2>3 DEF HandOver
  <2>8. ASSUME NEW v \in Writers, HasResult(v)', left'[v] = {}
        PROVE  ResultOf(v)'.refresh \in applied'
    <3>1. CASE v = w
      BY <1>0, <2>1, <2>2, <2>8, <3>1 DEF r
    <3>2. CASE v # w
      <4>1. left[v] = {} /\ HasResult(v) /\ ResultOf(v)' = ResultOf(v)
        BY <1>0, <2>1, <2>2, <2>8, <3>2
      <4>2. QED  BY <2>1, <4>1 DEF HandOver
    <3>3. QED  BY <3>1, <3>2
  <2>9. HandOver'
    BY <2>1, <2>5, <2>6, <2>7, <2>8, CutOffKept DEF HandOver
  <2>10. QED  BY <2>5, <2>9 DEF HandOverStep
<1>3. CASE AckResult(w)
  <2> DEFINE r == ResultOf(w).refresh
  <2>1. /\ UNCHANGED <<jobVars, published, cut, applied, dispatched>>
        /\ left[w] = {} /\ left' = [left EXCEPT ![w] = Types]
        /\ ResultQueue!Ack(w)
    BY <1>3 DEF AckResult, fetchVars
  <2>2. /\ HasResult(w) /\ results' = results \ {Head(writing[w])}
        /\ \A v \in Writers \ {w} : HasResult(v) => HasResult(v)' /\ ResultOf(v)' = ResultOf(v)
    BY <1>0, <2>1, ResultAcked
  <2>3. InResults' \subseteq InResults /\ InResults \subseteq InResults' \cup {r}
    BY <2>2 DEF InResults, ResultOf
  <2>4. jobs' = jobs /\ InJobs' = InJobs /\ \A f \in Fetchers : JobOf(f)' = JobOf(f)
    BY <1>0, <2>1, JobsAlone DEF InJobs
  <2>5. r \in Refreshes /\ r \in InResults /\ r \in applied
    BY <2>1, <2>2, CurrentResult DEF Results, InResults, HandOver
  <2> HIDE DEF r
  <2>6. Pending' = Pending \/ (Pending' = Pending \ {r} /\ r \in Pending \cap applied)
    BY <2>3, <2>4, <2>5, PendingIs
  <2>7. [Pipeline!Next]_<<Pending, applied>>
    BY <2>1, <2>5, <2>6 DEF Pipeline!Next, Pipeline!Forget
  <2>8. \A f \in published' : cut'[f] = 0 => JobOf(f)' \in applied' \cup InResults'
    BY <1>0, <2>1, <2>3, <2>4, <2>5 DEF HandOver
  <2>9. ASSUME NEW v \in Writers, HasResult(v)', left'[v] = {}
        PROVE  ResultOf(v)'.refresh \in applied'
    <3>1. v # w /\ left[v] = {}
      BY <1>0, <2>1, <2>9
    <3>2. HasResult(v) /\ ResultOf(v)' = ResultOf(v)
      BY <1>0, <2>2, <3>1
    <3>3. QED  BY <2>1, <3>1, <3>2 DEF HandOver
  <2>10. HandOver'
    BY <2>1, <2>6, <2>7, <2>8, <2>9, CutOffKept DEF HandOver
  <2>11. QED  BY <2>7, <2>10 DEF HandOverStep
<1>4. CASE WriterDies(w)
  <2>1. /\ UNCHANGED <<jobVars, published, cut, applied, dispatched>>
        /\ left' = [left EXCEPT ![w] = Types]
        /\ ResultQueue!Requeue(w)
    BY <1>4 DEF WriterDies, fetchVars
  <2>2. /\ results' = results
        /\ \A v \in Writers \ {w} : HasResult(v) => HasResult(v)' /\ ResultOf(v)' = ResultOf(v)
    BY <1>0, <2>1, ResultRequeued
  <2>3. jobs' = jobs /\ \A f \in Fetchers : JobOf(f)' = JobOf(f)
    BY <1>0, <2>1, JobsAlone
  <2>4. \A v \in Writers : HasResult(v)' /\ left'[v] = {}
                             => HasResult(v) /\ left[v] = {} /\ ResultOf(v)' = ResultOf(v)
    BY <1>0, <2>1, <2>2
  <2>5. \A f \in published' : cut'[f] = 0
                               => f \in published /\ cut[f] = 0 /\ JobOf(f)' = JobOf(f)
    BY <1>0, <2>1, <2>3
  <2>6. QED  BY <2>1, <2>2, <2>3, <2>4, <2>5, NoHandOver
<1>5. QED  BY <1>1, <1>2, <1>3, <1>4 DEF WriterStep

LEMMA OtherHandsOver ==
    ASSUME PipelineTypes, HandOver, EsiChanges \/ Dispatch \/ LateUpsert \/ UNCHANGED vars
    PROVE  HandOverStep
<1>0. JobsInv /\ ResultsInv /\ published \subseteq Fetchers
  BY DEF PipelineTypes
<1>1. CASE EsiChanges \/ LateUpsert \/ UNCHANGED vars
  <2>1. UNCHANGED <<jobVars, resultVars, published, cut, applied, left, dispatched>>
    BY <1>1 DEF EsiChanges, LateUpsert, vars, fetchVars
  <2>2. jobs' = jobs /\ \A f \in Fetchers : JobOf(f)' = JobOf(f)
    BY <1>0, <2>1, JobsAlone
  <2>3. results' = results /\ \A w \in Writers : HasResult(w)' = HasResult(w) /\ ResultOf(w)' = ResultOf(w)
    BY <1>0, <2>1, ResultsAlone
  <2>4. QED  BY <1>0, <2>1, <2>2, <2>3, NoHandOver
<1>2. CASE Dispatch
  <2> DEFINE r == dispatched + 1
  <2>1. /\ UNCHANGED <<resultVars, published, cut, applied, left>>
        /\ dispatched < MaxJobs /\ dispatched' = r
        /\ JobQueue!Send(r)
    BY <1>2 DEF Dispatch, fetchVars
  <2>2. r \in Refreshes /\ r \in 1 .. r /\ r \notin 1 .. dispatched /\ 1 .. dispatched \subseteq 1 .. r
    BY <2>1, PricesAssumption DEF Refreshes, PipelineTypes
  <2>3. PICK n \in Nat : jobs' = jobs \cup {[serial |-> n, body |-> r]}
    BY <1>0, <2>1, <2>2, JobSent
  <2>4. fetching' = fetching
    BY <1>0, <2>1, <2>2, JobSent
  <2>5. results' = results /\ \A w \in Writers : HasResult(w)' = HasResult(w) /\ ResultOf(w)' = ResultOf(w)
    BY <1>0, <2>1, ResultsAlone
  <2>6. InResults' = InResults
    BY <2>5 DEF InResults
  <2> HIDE DEF r
  <2>7. InJobs' = InJobs \cup {r}
    <3> DEFINE m == [serial |-> n, body |-> r]
    <3>1. m.body = r /\ jobs' = jobs \cup {m}
      BY <2>3
    <3> HIDE DEF m
    <3>2. QED  BY <3>1 DEF InJobs
  <2>8. Pending' = Pending \cup {r}
    BY <2>6, <2>7, PendingIs
  <2>9. r \notin Pending \cup applied
    BY <2>2 DEF HandOver
  <2>10. [Pipeline!Next]_<<Pending, applied>>
    BY <2>1, <2>2, <2>8, <2>9 DEF Pipeline!Next, Pipeline!Submit
  <2>11. \A f \in published' : cut'[f] = 0 => JobOf(f)' \in applied' \cup InResults'
    BY <2>1, <2>4, <2>6 DEF HandOver, JobOf
  <2>12. HandOver'
    BY <2>1, <2>2, <2>5, <2>8, <2>10, <2>11, CutOffKept DEF HandOver
  <2>13. QED  BY <2>10, <2>12 DEF HandOverStep
<1>3. QED  BY <1>1, <1>2

LEMMA EveryHandOver ==
    ASSUME PipelineTypes, HandOver, [Next]_vars
    PROVE  HandOverStep
BY FetcherHandsOver, WriterHandsOver, OtherHandsOver DEF Next, Finished

LEMMA HandOverInitially ==
    ASSUME Init PROVE HandOver /\ Pipeline!Init
<1>1. jobs = {} /\ results = {} /\ published = {} /\ applied = {} /\ left = [w \in Writers |-> Types]
      /\ cut = [f \in Fetchers |-> 0]
  BY DEF Init, JobQueue!Init, ResultQueue!Init
<1>2. Pending = {}
  BY <1>1 DEF Pending
<1>3. QED  BY <1>1, <1>2, PricesAssumption DEF HandOver, CutOff, Pipeline!Init

LEMMA HandOverInvariant == Spec => []HandOver
<1>1. PipelineTypes /\ HandOver /\ [Next]_vars => HandOver'
  BY EveryHandOver DEF HandOverStep
<1>2. QED  BY <1>1, HandOverInitially, TypesInvariant, PTL DEF Spec

(* The two queues between the CronJob and the database implement a work    *)
(* queue that does each refresh at least once: whatever dies or is cut off *)
(* between a publish and an acknowledgement (market_prices.py's workers    *)
(* publish the result first), a refresh is pending until its list has been *)
(* upserted.  Only one that has been may become pending again: by the list *)
(* of a worker that went on after it had lost its connection.              *)
THEOREM PricesAtLeastOnce == Spec => AtLeastOnce
<1>1. PipelineTypes /\ HandOver /\ [Next]_vars => [Pipeline!Next]_<<Pending, applied>>
  BY EveryHandOver DEF HandOverStep
<1>2. QED
  BY <1>1, HandOverInitially, TypesInvariant, HandOverInvariant, PTL
     DEF Spec, AtLeastOnce, Pipeline!Spec, Pipeline!vars

-----------------------------------------------------------------------------
(* A queue that is as it should be is one as Broker types it.              *)
HeldBy(h, w) == {h[w][i] : i \in DOMAIN h[w]}

LEMMA HeldOnce ==
    ASSUME NEW W, NEW p \in Nat, NEW ms, NEW q, NEW h, QueueInv(W, p, ms, q, h),
           NEW v \in W, NEW w \in W
    PROVE  /\ HeldBy(h, w) \subseteq q
           /\ v # w => HeldBy(h, v) \cap HeldBy(h, w) = {}
<1>1. /\ h[v] \in Seq(ms) /\ DOMAIN h[v] = 1 .. Len(h[v])
      /\ h[w] \in Seq(ms) /\ DOMAIN h[w] = 1 .. Len(h[w])
  BY DEF QueueInv
<1>2. \A i \in DOMAIN h[w] : h[w][i] \in q
  BY <1>1 DEF QueueInv
<1>3. \A i \in DOMAIN h[v], j \in DOMAIN h[w] : h[v][i] = h[w][j] => v = w
  BY <1>1 DEF QueueInv
<1>4. QED  BY <1>2, <1>3 DEF HeldBy

(* The state keeps its types: queues of whole messages, of which none is   *)
(* delivered to two workers, prices and lists with versions ESI had, and   *)
(* only dispatched refreshes applied.                                      *)
THEOREM TypeCorrect == Spec => []TypeOK
<1>1. PipelineTypes /\ HandOver => TypeOK
  <2> SUFFICES ASSUME PipelineTypes, HandOver PROVE TypeOK
    OBVIOUS
  <2>1. JobsInv /\ ResultsInv /\ FetchPrefetch \in Nat /\ WritePrefetch \in Nat
    BY PricesAssumption DEF PipelineTypes
  <2>2. JobQueue!BrokerTypeOK(Refreshes)
    <3>1. jobs \subseteq JobQueue!Message(Refreshes) /\ \A f \in Fetchers : Len(fetching[f]) =< FetchPrefetch
      BY <2>1 DEF JobsInv, QueueInv, JobMessages, JobQueue!Message
    <3>2. \A g \in Fetchers : JobQueue!Held(g) = HeldBy(fetching, g)
      BY DEF JobQueue!Held, HeldBy
    <3>3. \A f, g \in Fetchers :
            /\ HeldBy(fetching, g) \subseteq jobs
            /\ f # g => HeldBy(fetching, f) \cap HeldBy(fetching, g) = {}
      BY <2>1, HeldOnce DEF JobsInv
    <3>4. QED  BY <3>1, <3>2, <3>3 DEF JobQueue!BrokerTypeOK
  <2>3. ResultQueue!BrokerTypeOK(Results)
    <3>1. results \subseteq ResultQueue!Message(Results) /\ \A w \in Writers : Len(writing[w]) =< WritePrefetch
      BY <2>1 DEF ResultsInv, QueueInv, ResultMessages, ResultQueue!Message
    <3>2. \A w \in Writers : ResultQueue!Held(w) = HeldBy(writing, w)
      BY DEF ResultQueue!Held, HeldBy
    <3>3. \A v, w \in Writers :
            /\ HeldBy(writing, w) \subseteq results
            /\ v # w => HeldBy(writing, v) \cap HeldBy(writing, w) = {}
      BY <2>1, HeldOnce DEF ResultsInv
    <3>4. QED  BY <3>1, <3>2, <3>3 DEF ResultQueue!BrokerTypeOK
  <2>4. /\ \A f \in Fetchers : fetched[f] # 0 => Busy(f)
        /\ \A w \in Writers : left[w] # Types => ResultQueue!Working(w)
    BY DEF PipelineTypes, HasJob, HasResult, Busy, JobQueue!Working, ResultQueue!Working
  <2>5. applied \subseteq 1 .. dispatched
    BY DEF HandOver
  <2>6. QED  BY <2>2, <2>3, <2>4, <2>5 DEF TypeOK, PipelineTypes
<1>2. QED  BY <1>1, TypesInvariant, HandOverInvariant, PTL

-----------------------------------------------------------------------------
(* Every price list under way is at least as recent as the floor, what a   *)
(* writer has written of one is, and unless there is a refresh under way   *)
(* that has not been applied, all prices are.                              *)
Written == \A t \in Types : prices[t] >= floor

FreshInv ==
    /\ \A m \in results : m.body.version >= floor
    /\ \A u \in late : u.version >= floor
    /\ \A f \in Fetchers : fetched[f] # 0 => fetched[f] >= floor
    /\ \A w \in Writers : \A t \in Types \ left[w] : prices[t] >= floor
    /\ Pending \subseteq applied => Written

(* Steps that leave prices, floor and what a write worker has left alone,  *)
(* or give it a list of prices anew.                                       *)
LEMMA FreshKept ==
    ASSUME FreshInv, UNCHANGED <<prices, floor>>,
           \A m \in results' : m \in results \/ m.body.version >= floor,
           \A u \in late' : u \in late \/ u.version >= floor,
           \A f \in Fetchers : fetched'[f] # 0 => fetched'[f] = fetched[f] \/ fetched'[f] >= floor,
           \A w \in Writers : left'[w] \in {left[w], Types},
           Pending' \subseteq applied' => Pending \subseteq applied
    PROVE  FreshInv'
<1>1. \A w \in Writers : \A t \in Types \ left'[w] : prices'[t] >= floor'
  BY DEF FreshInv
<1>2. Written' = Written
  BY DEF Written
<1>3. \A m \in results' : m.body.version >= floor'
  BY DEF FreshInv
<1>4. \A u \in late' : u.version >= floor'
  BY DEF FreshInv
<1>5. \A f \in Fetchers : fetched'[f] # 0 => fetched'[f] >= floor'
  BY DEF FreshInv
<1>6. QED  BY <1>1, <1>2, <1>3, <1>4, <1>5 DEF FreshInv

(* Of a step of the abstract queue, only Do brings the refreshes applied   *)
(* closer to those pending.                                                *)
LEMMA NoneCaughtUp ==
    ASSUME [Pipeline!Next]_<<Pending, applied>>, applied' = applied, Pending' \subseteq applied'
    PROVE  Pending \subseteq applied
BY DEF Pipeline!Next, Pipeline!Submit, Pipeline!Repeat, Pipeline!Do, Pipeline!Forget

LEMMA FetcherKeepsFresh ==
    ASSUME PipelineTypes, HandOver, HandOverStep, FreshInv, NEW f \in Fetchers,
           FetcherStep(f) \/ FetcherFault(f)
    PROVE  FreshInv'
<1>1. UNCHANGED <<prices, floor, late, left, applied>>
  BY DEF FetcherStep, DeliverJob, Fetch, PublishResult, AckJob, AckFails, FetcherFault, FetcherDies, ConnectionLost, Restart
<1>2. Pending' \subseteq applied' => Pending \subseteq applied
  BY <1>1, NoneCaughtUp DEF HandOverStep
<1>3. \A g \in Fetchers : fetched'[g] # 0 => fetched'[g] = fetched[g] \/ fetched'[g] >= floor
  <2>1. fetched' = fetched \/ fetched' = [fetched EXCEPT ![f] = esi] \/ fetched' = [fetched EXCEPT ![f] = 0]
    BY DEF FetcherStep, DeliverJob, Fetch, PublishResult, AckJob, AckFails, FetcherFault, FetcherDies, ConnectionLost, Restart, fetchVars
  <2>2. esi >= floor
    BY DEF PipelineTypes, Versions
  <2>3. fetched \in [Fetchers -> Versions \cup {0}]
    BY DEF PipelineTypes
  <2>4. QED  BY <2>1, <2>2, <2>3
<1>4. \A m \in results' : m \in results \/ m.body.version >= floor
  <2>1. CASE PublishResult(f)
    <3> DEFINE result == [refresh |-> Handling(f), version |-> fetched[f]]
    <3>1. fetched[f] # 0 /\ ResultQueue!Send(result)
      BY <2>1 DEF PublishResult
    <3>2. result \in Results
      BY <3>1, HandlingIs DEF Results, PipelineTypes
    <3>3. PICK n \in Nat : results' = results \cup {[serial |-> n, body |-> result]}
      BY <3>1, <3>2, ResultSent DEF PipelineTypes
    <3>4. fetched[f] >= floor
      BY <3>1 DEF FreshInv
    <3>5. QED  BY <3>3, <3>4
  <2>2. CASE ~ PublishResult(f)
    BY <2>2 DEF FetcherStep, DeliverJob, Fetch, AckJob, AckFails, FetcherFault, FetcherDies, ConnectionLost, Restart, resultVars
  <2>3. QED  BY <2>1, <2>2
<1>5. QED  BY <1>1, <1>2, <1>3, <1>4, FreshKept

LEMMA WriterKeepsFresh ==
    ASSUME PipelineTypes, HandOver, HandOverStep, FreshInv, NEW w \in Writers,
           WriterStep(w) \/ WriterDies(w)
    PROVE  FreshInv'
<1>0. /\ left \in [Writers -> SUBSET Types] /\ prices \in [Types -> Versions \cup {0}]
      /\ ResultsInv /\ JobsInv /\ floor \in Nat
      /\ HasResult(w) => ResultOf(w).version >= floor /\ ResultOf(w).version \in Nat
  <2>1. HasResult(w) => ResultOf(w).version >= floor
    BY CurrentResult DEF FreshInv
  <2>2. HasResult(w) => ResultOf(w).version \in Nat
    BY CurrentResult DEF Results, Versions
  <2>3. QED  BY <2>1, <2>2 DEF PipelineTypes, Versions
<1>1. ASSUME NEW t \in Types, Upsert(w, t)
      PROVE  FreshInv'
  <2> DEFINE v == ResultOf(w).version
  <2>1. /\ UNCHANGED <<jobVars, resultVars, fetched, late, floor>>
        /\ HasResult(w) /\ t \in left[w]
        /\ prices' = [prices EXCEPT ![t] = v]
        /\ left' = [left EXCEPT ![w] = left[w] \ {t}]
        /\ applied' = applied \/ left[w] = {t}
    BY <1>1 DEF Upsert, fetchVars, ResultQueue!Working, ResultQueue!Current, HasResult, ResultOf
  <2>2. v >= floor
    BY <1>0, <2>1
  <2> HIDE DEF v
  <2>3. \A s \in Types : prices'[s] = IF s = t THEN v ELSE prices[s]
    BY <1>0, <2>1
  <2>4. \A s \in Types : prices[s] >= floor => prices'[s] >= floor'
    BY <2>1, <2>2, <2>3
  <2>5. prices'[t] >= floor'
    BY <2>1, <2>2, <2>3
  <2>6. \A u \in Writers : \A s \in Types \ left'[u] : s = t \/ s \in Types \ left[u]
    BY <1>0, <2>1
  <2>7. \A u \in Writers : \A s \in Types \ left'[u] : prices'[s] >= floor'
    BY <2>4, <2>5, <2>6 DEF FreshInv
  <2>8. jobs' = jobs /\ results' = results
    BY <1>0, <2>1, JobsAlone, ResultsAlone
  <2>9. Pending' = Pending
    BY <2>8 DEF Pending
  <2>10. ASSUME Pending' \subseteq applied' PROVE Written'
    <3>1. CASE applied' = applied
      <4>1. Written
        BY <2>9, <2>10, <3>1 DEF FreshInv
      <4>2. QED  BY <4>1, <2>4 DEF Written
    <3>2. CASE left[w] = {t}
      <4>1. \A s \in Types \ {t} : prices[s] >= floor
        BY <3>2 DEF FreshInv
      <4>2. QED  BY <4>1, <2>4, <2>5 DEF Written
    <3>3. QED  BY <2>1, <3>1, <3>2
  <2>11. QED  BY <2>1, <2>7, <2>8, <2>10 DEF FreshInv
<1>2. CASE DeliverResult(w) \/ AckResult(w) \/ WriterDies(w)
  <2>1. UNCHANGED <<prices, floor, fetched, applied>>
    BY <1>2 DEF DeliverResult, AckResult, WriterDies, fetchVars
  <2>2. Pending' \subseteq applied' => Pending \subseteq applied
    BY <2>1, NoneCaughtUp DEF HandOverStep
  <2>3. results' \subseteq results
    BY <1>0, <1>2, ResultDelivered, ResultAcked, ResultRequeued DEF DeliverResult, AckResult, WriterDies
  <2>4. \A v \in Writers : left'[v] \in {left[v], Types}
    BY <1>0, <1>2 DEF DeliverResult, AckResult, WriterDies
  <2>5. \A u \in late' : u \in late \/ u.version >= floor
    <3>1. CASE WriterDies(w)
      <4>1. PICK m \in results, sent \in SUBSET Types :
              late' = late \cup {[type |-> t, version |-> m.body.version] : t \in sent}
        BY <3>1, LeftOver
      <4>2. m.body.version >= floor
        BY DEF FreshInv
      <4>3. QED  BY <4>1, <4>2
    <3>2. CASE DeliverResult(w) \/ AckResult(w)
      BY <3>2 DEF DeliverResult, AckResult
    <3>3. QED  BY <1>2, <3>1, <3>2
  <2>6. QED  BY <2>1, <2>2, <2>3, <2>4, <2>5, FreshKept
<1>3. QED  BY <1>1, <1>2 DEF WriterStep

LEMMA OtherKeepsFresh ==
    ASSUME PipelineTypes, HandOver, HandOverStep, FreshInv,
           EsiChanges \/ Dispatch \/ LateUpsert \/ UNCHANGED vars
    PROVE  FreshInv'
<1>0. /\ left \in [Writers -> SUBSET Types] /\ prices \in [Types -> Versions \cup {0}]
      /\ late \subseteq [type : Types, version : Versions]
      /\ ResultsInv /\ JobsInv
  BY DEF PipelineTypes
<1>1. CASE EsiChanges \/ UNCHANGED vars
  <2>1. UNCHANGED <<jobVars, resultVars, fetched, late, prices, floor, left, applied>>
    BY <1>1 DEF EsiChanges, vars, fetchVars
  <2>2. Pending' = Pending
    BY <2>1 DEF Pending, jobVars, resultVars
  <2>3. results' = results
    BY <2>1 DEF resultVars
  <2>4. QED  BY <2>1, <2>2, <2>3, FreshKept
<1>2. CASE LateUpsert
  <2>1. PICK u \in late : /\ late' = late \ {u}
                          /\ prices' = [prices EXCEPT ![u.type] = u.version]
    BY <1>2 DEF LateUpsert
  <2>2. UNCHANGED <<jobVars, resultVars, fetched, floor, left, applied>>
    BY <1>2 DEF LateUpsert, fetchVars
  <2>3. u.version >= floor /\ u.type \in Types
    BY <1>0 DEF FreshInv
  <2>4. \A s \in Types : prices'[s] = IF s = u.type THEN u.version ELSE prices[s]
    BY <1>0, <2>1
  <2>5. \A s \in Types : prices[s] >= floor => prices'[s] >= floor'
    BY <2>2, <2>3, <2>4
  <2>6. Pending' = Pending /\ results' = results
    BY <2>2 DEF Pending, jobVars, resultVars
  <2>7. Written => Written'
    BY <2>5 DEF Written
  <2>8. \A w \in Writers : \A t \in Types \ left'[w] : prices'[t] >= floor'
    BY <2>2, <2>5 DEF FreshInv
  <2>9. QED  BY <2>1, <2>2, <2>6, <2>7, <2>8 DEF FreshInv
<1>3. CASE Dispatch
  <2>1. /\ UNCHANGED <<resultVars, fetched, late, prices, left, applied>>
        /\ dispatched < MaxJobs /\ dispatched' = dispatched + 1
        /\ JobQueue!Send(dispatched + 1)
        /\ floor' = IF AtRest THEN esi ELSE floor
    BY <1>3 DEF Dispatch, fetchVars
  <2>2. dispatched + 1 \in Refreshes /\ dispatched + 1 \notin 1 .. dispatched
    BY <2>1, PricesAssumption DEF Refreshes, PipelineTypes
  <2>3. dispatched + 1 \in Pending'
    <3>1. PICK n \in Nat : jobs' = jobs \cup {[serial |-> n, body |-> dispatched + 1]}
      BY <1>0, <2>1, <2>2, JobSent
    <3> DEFINE m == [serial |-> n, body |-> dispatched + 1]
    <3>2. m \in jobs' /\ m.body = dispatched + 1
      BY <3>1
    <3>3. QED  BY <3>2 DEF Pending
  <2>4. ~ (Pending' \subseteq applied')
    BY <2>1, <2>2, <2>3 DEF HandOver
  <2>5. results' = results
    BY <2>1 DEF resultVars
  <2>6. CASE AtRest
    <3>1. jobs = {} /\ results = {} /\ late = {} /\ \A f \in Fetchers : cut[f] = 0
      BY <2>6 DEF AtRest, Idle
    <3>2. \A f \in Fetchers : fetched[f] = 0
      BY <3>1, CurrentJob DEF PipelineTypes
    <3>3. \A w \in Writers : left[w] = Types
      BY <3>1, CurrentResult DEF PipelineTypes
    <3>4. QED  BY <2>1, <2>4, <2>5, <3>1, <3>2, <3>3 DEF FreshInv
  <2>7. CASE ~ AtRest
    BY <2>1, <2>4, <2>5, <2>7, FreshKept
  <2>8. QED  BY <2>6, <2>7
<1>4. QED  BY <1>1, <1>2, <1>3

LEMMA FreshInvariant == Spec => []FreshInv
<1>1. Init => FreshInv
  <2> SUFFICES ASSUME Init PROVE FreshInv
    OBVIOUS
  <2>1. results = {} /\ late = {} /\ floor = 0 /\ left = [w \in Writers |-> Types]
        /\ fetched = [f \in Fetchers |-> 0] /\ prices = [t \in Types |-> 0]
    BY DEF Init, ResultQueue!Init
  <2>2. QED  BY <2>1 DEF FreshInv, Written
<1>2. PipelineTypes /\ HandOver /\ FreshInv /\ [Next]_vars => FreshInv'
  BY EveryHandOver, FetcherKeepsFresh, WriterKeepsFresh, OtherKeepsFresh DEF Next, Finished
<1>3. QED  BY <1>1, <1>2, TypesInvariant, HandOverInvariant, PTL DEF Spec

(* Lists may be applied in any order, twice, in part, or by a worker that  *)
(* is dead; but when nothing is under way every price is at least as       *)
(* recent as ESI's list was at the last dispatch from rest: the workers    *)
(* never read ESI ahead of a job, and a list that was cut short is         *)
(* written again as a whole before its message goes.  A dispatch while a   *)
(* fetch worker goes on with a job it has lost is not one from rest: that  *)
(* worker may have read ESI before, and its list may be applied last.      *)
THEOREM RestIsFresh == Spec => []IdleMeansFresh
<1>1. FreshInv => IdleMeansFresh
  BY DEF FreshInv, IdleMeansFresh, Idle, Pending, Written
<1>2. QED  BY <1>1, FreshInvariant, PTL
=============================================================================
