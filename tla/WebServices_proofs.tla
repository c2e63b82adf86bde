-------------------------- MODULE WebServices_proofs --------------------------
(***************************************************************************)
(* What WebServices guarantees for any set of callers, any bound of the    *)
(* semaphore and any number of retries.                                    *)
(***************************************************************************)
EXTENDS WebServices, SequenceTheorems, FiniteSetTheorems, TLAPS

-----------------------------------------------------------------------------
(* Sequences without repetition.                                           *)

\* Who joins a queue is in it once.
LEMMA JoinQueue ==
    ASSUME NEW S, NEW q \in Seq(S), NEW c \in S, IsInjective(q), c \notin ToSet(q)
    PROVE  /\ Append(q, c) \in Seq(S)
           /\ ToSet(Append(q, c)) = ToSet(q) \cup {c}
           /\ IsInjective(Append(q, c))
BY SMT DEF ToSet, IsInjective

\* Who leaves a queue, from wherever it stood, is not in it any more.
LEMMA LeaveQueue ==
    ASSUME NEW S, NEW q \in Seq(S), NEW i \in DOMAIN q, IsInjective(q)
    PROVE  /\ RemoveAt(q, i) \in Seq(S)
           /\ ToSet(RemoveAt(q, i)) = ToSet(q) \ {q[i]}
           /\ IsInjective(RemoveAt(q, i))
<1> DEFINE n == Len(q)
           a == SubSeq(q, 1, i - 1)
           b == SubSeq(q, i + 1, n)
           r == RemoveAt(q, i)
<1>1. n \in Nat /\ DOMAIN q = 1 .. n /\ i \in 1 .. n /\ \A k \in 1 .. n : q[k] \in S
  OBVIOUS
<1>2. /\ a \in Seq(S) /\ Len(a) = i - 1
      /\ \A k \in 1 .. i - 1 : a[k] = q[k]
  <2>1. \A k \in 1 .. i - 1 : q[k] \in S
    BY <1>1
  <2>2. /\ a \in Seq(S)
        /\ Len(a) = IF 1 <= i - 1 THEN (i - 1) - 1 + 1 ELSE 0
        /\ \A k \in 1 .. (i - 1) - 1 + 1 : a[k] = q[1 + k - 1]
    BY <1>1, <2>1, SubSeqProperties, 1 \in Int, i - 1 \in Int
  <2> QED
    BY <1>1, <2>2
<1>3. /\ b \in Seq(S) /\ Len(b) = n - i
      /\ \A k \in 1 .. n - i : b[k] = q[i + k]
  <2>1. \A k \in i + 1 .. n : q[k] \in S
    BY <1>1
  <2>2. /\ b \in Seq(S)
        /\ Len(b) = IF i + 1 <= n THEN n - (i + 1) + 1 ELSE 0
        /\ \A k \in 1 .. n - (i + 1) + 1 : b[k] = q[(i + 1) + k - 1]
    BY <1>1, <2>1, SubSeqProperties, n \in Int, i + 1 \in Int
  <2>3. Len(b) = n - i
    BY <1>1, <2>2
  <2>4. ASSUME NEW k \in 1 .. n - i PROVE b[k] = q[i + k]
    <3>1. k \in 1 .. n - (i + 1) + 1 /\ (i + 1) + k - 1 = i + k
      BY <1>1
    <3> HIDE DEF b, n
    <3> QED
      BY <2>2, <3>1
  <2> QED
    BY <2>2, <2>3, <2>4
<1>4. r = a \o b
  BY DEF RemoveAt
<1> HIDE DEF a, b, r, n
<1>5. /\ r \in Seq(S) /\ Len(r) = n - 1
      /\ \A k \in 1 .. n - 1 : r[k] = IF k <= i - 1 THEN q[k] ELSE q[k + 1]
  <2>1. /\ r \in Seq(S) /\ Len(r) = Len(a) + Len(b)
        /\ \A k \in 1 .. Len(a) + Len(b) : r[k] = IF k <= Len(a) THEN a[k] ELSE b[k - Len(a)]
    BY <1>2, <1>3, <1>4, ConcatProperties
  <2>2. Len(a) + Len(b) = n - 1
    BY <1>1, <1>2, <1>3
  <2>3. ASSUME NEW k \in 1 .. n - 1
        PROVE  r[k] = IF k <= i - 1 THEN q[k] ELSE q[k + 1]
    <3>1. CASE k <= i - 1
      BY <1>1, <1>2, <2>1, <2>2, <3>1
    <3>2. CASE ~(k <= i - 1)
      <4>1. k - (i - 1) \in 1 .. n - i /\ i + (k - (i - 1)) = k + 1
        BY <1>1, <3>2
      <4>2. r[k] = b[k - (i - 1)]
        BY <1>1, <1>2, <2>1, <2>2, <3>2
      <4>3. b[k - (i - 1)] = q[i + (k - (i - 1))]
        BY <1>3, <4>1
      <4> QED
        BY <3>2, <4>1, <4>2, <4>3
    <3> QED
      BY <3>1, <3>2
  <2> QED
    BY <2>1, <2>2, <2>3
<1>6. DOMAIN r = 1 .. n - 1
  BY <1>5
<1>7. ToSet(r) = ToSet(q) \ {q[i]}
  <2>1. ASSUME NEW x \in ToSet(r) PROVE x \in ToSet(q) \ {q[i]}
    <3>1. PICK k \in 1 .. n - 1 : x = r[k]
      BY <1>6 DEF ToSet
    <3>2. PICK m \in 1 .. n : x = q[m] /\ m # i
      <4>1. CASE k <= i - 1
        BY <1>1, <1>5, <3>1, <4>1
      <4>2. CASE ~(k <= i - 1)
        <5>1. k + 1 \in 1 .. n /\ k + 1 # i
          BY <1>1, <4>2
        <5> QED
          BY <1>5, <3>1, <4>2, <5>1
      <4> QED
        BY <4>1, <4>2
    <3> QED
      BY <1>1, <3>2 DEF ToSet, IsInjective
  <2>2. ASSUME NEW x \in ToSet(q) \ {q[i]} PROVE x \in ToSet(r)
    <3>1. PICK m \in 1 .. n : x = q[m]
      BY <1>1 DEF ToSet
    <3>2. m # i
      BY <3>1
    <3>3. \E k \in 1 .. n - 1 : x = r[k]
      <4>1. CASE m < i
        <5>1. m \in 1 .. n - 1 /\ m <= i - 1
          BY <1>1, <4>1
        <5> QED
          BY <1>5, <3>1, <5>1
      <4>2. CASE m > i
        <5>1. m - 1 \in 1 .. n - 1 /\ ~(m - 1 <= i - 1) /\ (m - 1) + 1 = m
          BY <1>1, <4>2
        <5> QED
          BY <1>5, <3>1, <5>1
      <4> QED
        BY <1>1, <3>2, <4>1, <4>2
    <3> QED
      BY <1>6, <3>3 DEF ToSet
  <2> QED
    BY <2>1, <2>2
<1>8. IsInjective(r)
  <2> SUFFICES ASSUME NEW k \in 1 .. n - 1, NEW m \in 1 .. n - 1, r[k] = r[m]
               PROVE  k = m
    BY <1>6 DEF IsInjective
  <2> DEFINE at(l) == IF l <= i - 1 THEN l ELSE l + 1
  <2>1. at(k) \in 1 .. n /\ at(m) \in 1 .. n
    BY <1>1
  <2>2. r[k] = q[at(k)] /\ r[m] = q[at(m)]
    BY <1>5
  <2>3. at(k) = at(m)
    BY <1>1, <2>1, <2>2 DEF IsInjective
  <2> QED
    BY <1>1, <2>3
<1> QED
  BY <1>5, <1>7, <1>8 DEF r

\* The head of a queue leaves it.
LEMMA HeadLeaves ==
    ASSUME NEW S, NEW q \in Seq(S), IsInjective(q), q # <<>>
    PROVE  /\ Tail(q) \in Seq(S)
           /\ Head(q) \in S
           /\ Head(q) \in ToSet(q)
           /\ ToSet(Tail(q)) = ToSet(q) \ {Head(q)}
           /\ IsInjective(Tail(q))
<1>1. Len(q) \in Nat \ {0} /\ DOMAIN q = 1 .. Len(q)
  BY EmptySeq
<1>2. /\ Tail(q) \in Seq(S) /\ Len(Tail(q)) = Len(q) - 1
      /\ \A k \in 1 .. Len(q) - 1 : Tail(q)[k] = q[k + 1]
      /\ DOMAIN Tail(q) = 1 .. Len(q) - 1
  BY <1>1, HeadTailProperties
<1>3. Head(q) = q[1] /\ q[1] \in S /\ 1 \in DOMAIN q
  BY <1>1
<1>4. ToSet(Tail(q)) = ToSet(q) \ {q[1]}
  <2>1. ASSUME NEW x \in ToSet(Tail(q)) PROVE x \in ToSet(q) \ {q[1]}
    <3>1. PICK k \in 1 .. Len(q) - 1 : x = q[k + 1]
      BY <1>2 DEF ToSet
    <3>2. k + 1 \in DOMAIN q /\ k + 1 # 1
      BY <1>1
    <3> QED
      BY <1>3, <3>1, <3>2 DEF ToSet, IsInjective
  <2>2. ASSUME NEW x \in ToSet(q) \ {q[1]} PROVE x \in ToSet(Tail(q))
    <3>1. PICK m \in 1 .. Len(q) : x = q[m]
      BY <1>1 DEF ToSet
    <3>2. m - 1 \in 1 .. Len(q) - 1 /\ (m - 1) + 1 = m
      BY <1>1, <3>1
    <3> QED
      BY <1>2, <3>1, <3>2 DEF ToSet
  <2> QED
    BY <2>1, <2>2
<1>5. IsInjective(Tail(q))
  <2> SUFFICES ASSUME NEW k \in 1 .. Len(q) - 1, NEW m \in 1 .. Len(q) - 1,
                      Tail(q)[k] = Tail(q)[m]
               PROVE  k = m
    BY <1>2 DEF IsInjective
  <2> QED
    BY <1>1, <1>2 DEF IsInjective
<1> QED
  BY <1>2, <1>3, <1>4, <1>5 DEF ToSet

-----------------------------------------------------------------------------
(* The inductive invariant.                                                *)

\* Attempts that wait for the limiter or for an answer.
UnderWay == {c \in Caller : thread[c] \in {"limited", "sending"}}

\* Calls whose last attempt has failed, told so or about to be.
Lost == {c \in Caller : call[c] = "failed" \/ (call[c] = "fetching" /\ thread[c] = "raised")}

\* Calls that have an answer, or that an answer waits for.
Won ==
    {c \in Caller : \/ call[c] \in {"answered", "unsaved"}
                    \/ call[c] = "fetching" /\ thread[c] = "returned"}

\* Attempts that failed and are, or will be, followed by another: what the
\* counter of retries counts, as a set of pairs within a product.
Retried ==
    {p \in Caller \X (0 .. MaxRetries) :
        \/ p[2] < attempt[p[1]]
        \/ p[2] = attempt[p[1]] /\ thread[p[1]] = "backoff"}

\* A thread works for a call that waits for it or was cancelled, and a call that
\* waits for its thread has one.
Jobs ==
    \A c \in Caller :
        /\ thread[c] # "none" => call[c] \in {"fetching", "cancelled"}
        /\ call[c] = "fetching" => thread[c] # "none"
        /\ thread[c] = "backoff" => attempt[c] < MaxRetries

Waiting == ToSet(queue) = In("queued") /\ IsInjective(queue)

Permits == permits + Cardinality(In("fetching")) = MaxConcurrency

Places ==
    \A c \in Caller :
        thread[c] = "limited" =>
            /\ delay[c] < nextAllowed
            /\ \A d \in Caller : thread[d] = "limited" /\ delay[c] = delay[d] => c = d

Books ==
    /\ metrics["requests"] = metrics["successes"] + metrics["failures"] + Cardinality(UnderWay)
    /\ metrics["failures"] = metrics["retries"] + metrics["terminal_failures"]
    /\ metrics["terminal_failures"] >= Cardinality(Lost)
    /\ metrics["retries"] = Cardinality(Retried)

Answers == metrics["successes"] + metrics["cache_hits"] >= Cardinality(Won)

IInv == TypeOK /\ Jobs /\ Waiting /\ Permits /\ Places /\ Books /\ Answers

-----------------------------------------------------------------------------
LEMMA InitInv == Init => IInv
<1> SUFFICES ASSUME Init PROVE IInv
  OBVIOUS
<1>1. TypeOK
  BY ConstantsAssumption, SMT DEF Init, TypeOK, CallState, ThreadState, Over, Ended
<1>2. Jobs /\ Places
  BY DEF Init, Jobs, Places
<1>3. Waiting
  <2>1. In("queued") = {}
    BY DEF Init, In
  <2> QED
    BY <2>1 DEF Init, Waiting, ToSet, IsInjective
<1>4. Permits
  <2>1. In("fetching") = {}
    BY DEF Init, In
  <2>2. permits = MaxConcurrency /\ Cardinality(In("fetching")) = 0
    BY <2>1, FS_EmptySet DEF Init
  <2> QED
    BY <2>2, ConstantsAssumption DEF Permits
<1>5. Books
  <2>1. UnderWay = {} /\ Lost = {}
    BY DEF Init, UnderWay, Lost
  <2>2. Retried = {}
    BY ConstantsAssumption DEF Init, Retried
  <2> QED
    BY <2>1, <2>2, FS_EmptySet DEF Init, Books, Counter
<1>6. Answers
  <2>1. Won = {}
    BY DEF Init, Won
  <2> QED
    BY <2>1, FS_EmptySet DEF Init, Answers, Counter
<1> QED
  BY <1>1, <1>2, <1>3, <1>4, <1>5, <1>6 DEF IInv

-----------------------------------------------------------------------------
\* What an addition to the counters does to each of them.
LEMMA AddCounts ==
    ASSUME metrics \in [Counter -> Nat], NEW k \in Counter, Add(k)
    PROVE  /\ metrics' \in [Counter -> Nat]
           /\ metrics'[k] = metrics[k] + 1
           /\ \A l \in Counter \ {k} : metrics'[l] = metrics[l]
BY DEF Add

LEMMA Add2Counts ==
    ASSUME metrics \in [Counter -> Nat], NEW k \in Counter, NEW m \in Counter \ {k}, Add2(k, m)
    PROVE  /\ metrics' \in [Counter -> Nat]
           /\ metrics'[k] = metrics[k] + 1
           /\ metrics'[m] = metrics[m] + 1
           /\ \A l \in Counter \ {k, m} : metrics'[l] = metrics[l]
BY DEF Add2

LEMMA CounterNames ==
    {"requests", "successes", "failures", "terminal_failures", "retries", "cache_hits"} = Counter
BY DEF Counter

LEMMA BackoffType == \A n \in Nat : Backoff(n) \in Nat /\ Backoff(n) <= 8
<1> SUFFICES ASSUME NEW n \in Nat PROVE Backoff(n) \in Nat /\ Backoff(n) <= 8
  OBVIOUS
<1>1. CASE n < 3
  <2>1. n = 0 \/ n = 1 \/ n = 2
    BY <1>1
  <2> QED
    BY <2>1 DEF Backoff
<1>2. CASE ~(n < 3)
  BY <1>2 DEF Backoff
<1> QED
  BY <1>1, <1>2

LEMMA TypeStep == TypeOK /\ Jobs /\ Waiting /\ [Next]_vars => TypeOK'
<1> SUFFICES ASSUME TypeOK, Jobs, Waiting, [Next]_vars PROVE TypeOK'
  OBVIOUS
<1> USE ConstantsAssumption DEF TypeOK, CallState, ThreadState, Over, Ended
<1>1. ASSUME NEW c \in Caller, Hit(c) PROVE TypeOK'
  <2>1. metrics' \in [Counter -> Nat]
    BY <1>1, AddCounts, CounterNames DEF Hit
  <2> QED
    BY <1>1, <2>1 DEF Hit
<1>2. ASSUME NEW c \in Caller, Miss(c) \/ Reject(c) \/ Refuse(c) PROVE TypeOK'
  <2>1. CASE Miss(c)
    BY <2>1 DEF Miss
  <2>2. CASE Reject(c)
    BY <2>2 DEF Reject
  <2>3. CASE Refuse(c)
    BY <2>3 DEF Refuse
  <2> QED
    BY <1>2, <2>1, <2>2, <2>3
<1>3. ASSUME NEW c \in Caller, Finish(c) PROVE TypeOK'
  <2>1. PICK end \in Over : /\ call' = [call EXCEPT ![c] = end]
                            /\ cached' \in {cached, cached \cup {KeyOf[c]}}
    BY <1>3 DEF Finish, Ended
  <2>2. call' \in [Caller -> CallState] /\ cached' \subseteq {KeyOf[d] : d \in Caller}
    BY <2>1
  <2> QED
    BY <1>3, <2>2 DEF Finish
<1>4. ASSUME NEW c \in Caller, Cancel(c) PROVE TypeOK'
  <2>1. queue' \in Seq(Caller)
    <3>1. CASE UNCHANGED queue
      BY <3>1
    <3>2. CASE Leave(c)
      BY <3>2, LeaveQueue DEF Leave, Waiting
    <3> QED
      BY <1>4, <3>1, <3>2 DEF Cancel
  <2> QED
    BY <1>4, <2>1 DEF Cancel
<1>5. ASSUME NEW c \in Caller, Begin(c) PROVE TypeOK'
  <2>1. metrics' \in [Counter -> Nat]
    BY <1>5, AddCounts, CounterNames DEF Begin
  <2> QED
    BY <1>5, <2>1 DEF Begin, Reserve
<1>6. ASSUME NEW c \in Caller, Send(c) PROVE TypeOK'
  BY <1>6 DEF Send
<1>7. ASSUME NEW c \in Caller, SendCandidate(c) PROVE TypeOK'
  BY <1>7 DEF SendCandidate
<1>8. ASSUME NEW c \in Caller, Succeed(c) PROVE TypeOK'
  <2>1. metrics' \in [Counter -> Nat]
    BY <1>8, AddCounts, CounterNames DEF Succeed
  <2> QED
    BY <1>8, <2>1 DEF Succeed
<1>9. ASSUME NEW c \in Caller, Fail(c) PROVE TypeOK'
  <2>1. metrics' \in [Counter -> Nat]
    BY <1>9, Add2Counts, CounterNames DEF Fail
  <2>2. Backoff(attempt[c]) \in Nat
    BY BackoffType
  <2> QED
    BY <1>9, <2>1, <2>2 DEF Fail
<1>10. ASSUME NEW c \in Caller, Retry(c) PROVE TypeOK'
  BY <1>10 DEF Retry, Jobs
<1>11. ASSUME NEW c \in Caller, Discard(c) PROVE TypeOK'
  BY <1>11 DEF Discard, Ended
<1>12. ASSUME Acquire PROVE TypeOK'
  BY <1>12, HeadTailProperties DEF Acquire
<1>13. ASSUME Tick PROVE TypeOK'
  BY <1>13 DEF Tick, Asleep
<1>14. ASSUME UNCHANGED vars PROVE TypeOK'
  BY <1>14 DEF vars
<1> QED
  BY <1>1, <1>2, <1>3, <1>4, <1>5, <1>6, <1>7, <1>8, <1>9, <1>10, <1>11, <1>12, <1>13, <1>14
     DEF Next, Loop, Work

LEMMA JobsStep == TypeOK /\ Jobs /\ [Next]_vars => Jobs'
<1> SUFFICES ASSUME TypeOK, Jobs, [Next]_vars PROVE Jobs'
  OBVIOUS
<1> USE ConstantsAssumption DEF TypeOK, CallState, ThreadState, Over, Ended, Jobs
<1>1. ASSUME NEW c \in Caller, Hit(c) PROVE Jobs'
  BY <1>1 DEF Hit
<1>2. ASSUME NEW c \in Caller, Miss(c) \/ Reject(c) \/ Refuse(c) PROVE Jobs'
  BY <1>2 DEF Miss, Reject, Refuse
<1>3. ASSUME NEW c \in Caller, Finish(c) PROVE Jobs'
  BY <1>3 DEF Finish, Ended
<1>4. ASSUME NEW c \in Caller, Cancel(c) PROVE Jobs'
  BY <1>4 DEF Cancel
<1>5. ASSUME NEW c \in Caller, Begin(c) PROVE Jobs'
  BY <1>5 DEF Begin
<1>6. ASSUME NEW c \in Caller, Send(c) PROVE Jobs'
  BY <1>6 DEF Send
<1>7. ASSUME NEW c \in Caller, SendCandidate(c) PROVE Jobs'
  BY <1>7 DEF SendCandidate
<1>8. ASSUME NEW c \in Caller, Succeed(c) PROVE Jobs'
  BY <1>8 DEF Succeed
<1>9. ASSUME NEW c \in Caller, Fail(c) PROVE Jobs'
  BY <1>9 DEF Fail
<1>10. ASSUME NEW c \in Caller, Retry(c) PROVE Jobs'
  BY <1>10 DEF Retry
<1>11. ASSUME NEW c \in Caller, Discard(c) PROVE Jobs'
  BY <1>11 DEF Discard, Ended
<1>12. ASSUME Acquire PROVE Jobs'
  BY <1>12 DEF Acquire
<1>13. ASSUME Tick PROVE Jobs'
  BY <1>13 DEF Tick
<1>14. ASSUME UNCHANGED vars PROVE Jobs'
  BY <1>14 DEF vars
<1> QED
  BY <1>1, <1>2, <1>3, <1>4, <1>5, <1>6, <1>7, <1>8, <1>9, <1>10, <1>11, <1>12, <1>13, <1>14
     DEF Next, Loop, Work

LEMMA WaitingStep == TypeOK /\ Waiting /\ [Next]_vars => Waiting'
<1> SUFFICES ASSUME TypeOK, Waiting, [Next]_vars PROVE Waiting'
  OBVIOUS
<1>0. queue \in Seq(Caller) /\ call \in [Caller -> CallState] /\ IsInjective(queue)
  BY DEF TypeOK, Waiting
<1>1. ASSUME NEW c \in Caller, Hit(c) \/ Reject(c) PROVE Waiting'
  <2>1. In("queued")' = In("queued")
    BY <1>0, <1>1 DEF Hit, Reject, In
  <2> QED
    BY <1>1, <2>1 DEF Hit, Reject, Waiting
<1>2. ASSUME NEW c \in Caller, Miss(c) PROVE Waiting'
  <2>1. In("queued")' = In("queued") \cup {c} /\ c \notin In("queued")
    BY <1>0, <1>2 DEF Miss, In, CallState, Over
  <2>2. queue' = Append(queue, c) /\ c \notin ToSet(queue)
    BY <1>2, <2>1 DEF Miss, Waiting
  <2>3. ToSet(queue') = ToSet(queue) \cup {c} /\ IsInjective(queue')
    BY <1>0, <2>2, JoinQueue
  <2> QED
    BY <2>1, <2>3 DEF Waiting
<1>3. ASSUME NEW c \in Caller, Finish(c) PROVE Waiting'
  <2>1. In("queued")' = In("queued")
    BY <1>0, <1>3 DEF Finish, Ended, In
  <2> QED
    BY <1>3, <2>1 DEF Finish, Ended, Waiting
<1>4. ASSUME NEW c \in Caller, Cancel(c) PROVE Waiting'
  <2>1. CASE call[c] = "queued" /\ Leave(c)
    <3>1. In("queued")' = In("queued") \ {c}
      BY <1>0, <1>4 DEF Cancel, In
    <3>2. PICK i \in DOMAIN queue : queue[i] = c /\ queue' = RemoveAt(queue, i)
      BY <2>1 DEF Leave
    <3>3. ToSet(queue') = ToSet(queue) \ {c} /\ IsInjective(queue')
      BY <1>0, <3>2, LeaveQueue
    <3> QED
      BY <3>1, <3>3 DEF Waiting
  <2>2. CASE call[c] = "fetching" /\ UNCHANGED queue
    <3>1. In("queued")' = In("queued")
      BY <1>0, <1>4, <2>2 DEF Cancel, In
    <3> QED
      BY <2>2, <3>1 DEF Waiting
  <2> QED
    BY <1>4, <2>1, <2>2 DEF Cancel
<1>5. ASSUME NEW c \in Caller, Work(c) PROVE Waiting'
  <2>1. UNCHANGED <<call, queue>>
    BY <1>5 DEF Work, Refuse, Begin, Send, SendCandidate, Succeed, Fail, Retry, Discard, Ended
  <2> QED
    BY <2>1 DEF Waiting, In
<1>6. ASSUME Acquire PROVE Waiting'
  <2> DEFINE h == Head(queue)
  <2>1. h \in ToSet(queue) /\ h \in Caller
    BY <1>0, <1>6, HeadLeaves DEF Acquire
  <2>2. In("queued")' = In("queued") \ {h}
    BY <1>0, <1>6, <2>1 DEF Acquire, In
  <2> QED
    BY <1>0, <1>6, <2>2, HeadLeaves DEF Waiting, Acquire
<1>7. ASSUME Tick \/ UNCHANGED vars PROVE Waiting'
  BY <1>7 DEF Tick, vars, Waiting, In
<1> QED
  BY <1>1, <1>2, <1>3, <1>4, <1>5, <1>6, <1>7 DEF Next, Loop

LEMMA PermitsStep == TypeOK /\ Waiting /\ Permits /\ [Next]_vars => Permits'
<1> SUFFICES ASSUME TypeOK, Waiting, Permits, [Next]_vars PROVE Permits'
  OBVIOUS
<1> DEFINE F == In("fetching")
<1>0. /\ call \in [Caller -> CallState] /\ permits \in Nat
      /\ IsFiniteSet(F) /\ Cardinality(F) \in Nat
      /\ permits + Cardinality(F) = MaxConcurrency /\ MaxConcurrency \in Nat
  <2>1. F \subseteq Caller
    BY DEF In
  <2>2. IsFiniteSet(F)
    BY <2>1, ConstantsAssumption, FS_Subset
  <2> QED
    BY <2>2, ConstantsAssumption, FS_CardinalityType DEF TypeOK, Permits
<1>1. ASSUME NEW c \in Caller, Hit(c) \/ Reject(c) \/ Miss(c) \/ Work(c) PROVE Permits'
  <2>1. UNCHANGED permits /\ F' = F
    <3>1. CASE Hit(c) \/ Reject(c)
      BY <1>0, <3>1 DEF Hit, Reject, In
    <3>2. CASE Miss(c)
      BY <1>0, <3>2 DEF Miss, In
    <3>3. CASE Work(c)
      BY <3>3 DEF Work, Refuse, Begin, Send, SendCandidate, Succeed, Fail, Retry, Discard, Ended, In
    <3> QED
      BY <1>1, <3>1, <3>2, <3>3
  <2> QED
    BY <1>0, <2>1 DEF Permits
<1>2. ASSUME NEW c \in Caller, permits' = permits + 1, F' = F \ {c}, c \in F
      PROVE  Permits'
  <2>1. Cardinality(F') = Cardinality(F) - 1
    BY <1>0, <1>2, FS_RemoveElement
  <2> HIDE DEF F
  <2>2. permits' + Cardinality(F') = MaxConcurrency
    BY <1>0, <1>2, <2>1
  <2> QED
    BY <2>2 DEF Permits, F
<1>3. ASSUME NEW c \in Caller, Finish(c) PROVE Permits'
  <2>1. F' = F \ {c} /\ c \in F /\ permits' = permits + 1
    BY <1>0, <1>3 DEF Finish, Ended, In
  <2> QED
    BY <1>2, <2>1
<1>4. ASSUME NEW c \in Caller, Cancel(c) PROVE Permits'
  <2>1. CASE call[c] = "queued" /\ UNCHANGED permits
    <3>1. F' = F
      BY <1>0, <1>4, <2>1 DEF Cancel, In
    <3> QED
      BY <1>0, <2>1, <3>1 DEF Permits
  <2>2. CASE call[c] = "fetching" /\ permits' = permits + 1
    <3>1. F' = F \ {c} /\ c \in F
      BY <1>0, <1>4, <2>2 DEF Cancel, In
    <3> QED
      BY <1>2, <2>2, <3>1
  <2> QED
    BY <1>4, <2>1, <2>2 DEF Cancel
<1>5. ASSUME Acquire PROVE Permits'
  <2>1. Head(queue) \in Caller /\ Head(queue) \in In("queued")
    BY <1>5, HeadLeaves DEF Acquire, Waiting, TypeOK
  <2>2. F' = F \cup {Head(queue)} /\ Head(queue) \notin F
    BY <1>0, <1>5, <2>1 DEF Acquire, In
  <2>3. Cardinality(F') = Cardinality(F) + 1
    BY <1>0, <2>2, FS_AddElement
  <2>4. permits' = permits - 1
    BY <1>5 DEF Acquire
  <2> HIDE DEF F
  <2>5. permits' + Cardinality(F') = MaxConcurrency
    BY <1>0, <2>3, <2>4
  <2> QED
    BY <2>5 DEF Permits, F
<1>6. ASSUME Tick \/ UNCHANGED vars PROVE Permits'
  BY <1>6 DEF Tick, vars, Permits, In
<1> QED
  BY <1>1, <1>3, <1>4, <1>5, <1>6 DEF Next, Loop

LEMMA PlacesStep == TypeOK /\ Jobs /\ Waiting /\ Places /\ [Next]_vars => Places'
<1> SUFFICES ASSUME TypeOK, Jobs, Waiting, Places, [Next]_vars PROVE Places'
  OBVIOUS
<1>0. /\ thread \in [Caller -> ThreadState] /\ delay \in [Caller -> Nat] /\ nextAllowed \in Nat
  BY DEF TypeOK
<1>1. ASSUME NEW c \in Caller, thread' = thread \/ (thread' = [thread EXCEPT ![c] = thread'[c]] /\ thread'[c] # "limited"),
             delay' = delay \/ (delay' = [delay EXCEPT ![c] = delay'[c]] /\ thread'[c] # "limited"),
             nextAllowed' = nextAllowed
      PROVE  Places'
  BY <1>0, <1>1 DEF Places
<1>2. ASSUME NEW c \in Caller, Begin(c) PROVE Places'
  BY <1>0, <1>2 DEF Begin, Reserve, Places
<1>3. ASSUME NEW c \in Caller, Loop(c) \/ Cancel(c) PROVE Places'
  BY <1>0, <1>1, <1>3 DEF Loop, Hit, Reject, Miss, Finish, Ended, Cancel
<1>4. ASSUME NEW c \in Caller, Work(c), ~Begin(c) PROVE Places'
  <2>1. nextAllowed' = nextAllowed
    BY <1>4 DEF Work, Refuse, Send, SendCandidate, Succeed, Fail, Retry, Discard, Ended
  <2>2. CASE Fail(c)
    BY <1>0, <1>1, <2>1, <2>2 DEF Fail
  <2>3. CASE ~Fail(c)
    BY <1>0, <1>1, <1>4, <2>1, <2>3 DEF Work, Refuse, Send, SendCandidate, Succeed, Retry, Discard, Ended
  <2> QED
    BY <2>2, <2>3
<1>5. ASSUME Acquire PROVE Places'
  <2>1. Head(queue) \in Caller
    BY <1>5, HeadLeaves DEF Acquire, Waiting, TypeOK
  <2> QED
    BY <1>0, <1>1, <1>5, <2>1 DEF Acquire
<1>6. ASSUME Tick PROVE Places'
  BY <1>0, <1>6 DEF Tick, Asleep, Places
<1>7. ASSUME UNCHANGED vars PROVE Places'
  BY <1>7 DEF vars, Places
<1> QED
  BY <1>2, <1>3, <1>4, <1>5, <1>6, <1>7 DEF Next

\* The sets that are counted are finite.
LEMMA SetsFinite ==
    /\ IsFiniteSet(UnderWay) /\ Cardinality(UnderWay) \in Nat
    /\ IsFiniteSet(Lost) /\ Cardinality(Lost) \in Nat
    /\ IsFiniteSet(Retried) /\ Cardinality(Retried) \in Nat
<1>1. UnderWay \subseteq Caller /\ Lost \subseteq Caller
  BY DEF UnderWay, Lost
<1>2. IsFiniteSet(Caller \X (0 .. MaxRetries))
  <2>1. IsFiniteSet(0 .. MaxRetries)
    BY ConstantsAssumption, FS_Interval, 0 \in Int, MaxRetries \in Int
  <2> QED
    BY <2>1, ConstantsAssumption, FS_Product
<1>3. Retried \subseteq Caller \X (0 .. MaxRetries)
  BY DEF Retried
<1>4. IsFiniteSet(UnderWay) /\ IsFiniteSet(Lost) /\ IsFiniteSet(Retried)
  BY <1>1, <1>2, <1>3, ConstantsAssumption, FS_Subset
<1> QED
  BY <1>4, FS_CardinalityType

LEMMA BooksStep == TypeOK /\ Jobs /\ Waiting /\ Books /\ [Next]_vars => Books'
<1> SUFFICES ASSUME TypeOK, Jobs, Waiting, Books, [Next]_vars PROVE Books'
  OBVIOUS
<1>0. /\ call \in [Caller -> CallState] /\ thread \in [Caller -> ThreadState]
      /\ attempt \in [Caller -> 0 .. MaxRetries] /\ MaxRetries \in Nat
      /\ metrics \in [Counter -> Nat]
  BY ConstantsAssumption DEF TypeOK
<1>t. \A k \in Counter : metrics[k] \in Nat
  BY <1>0
<1>s. ASSUME UnderWay' = UnderWay, Lost' \subseteq Lost, Retried' = Retried,
             \A k \in Counter \ {"cache_hits"} : metrics'[k] = metrics[k]
      PROVE  Books'
  <2>1. Cardinality(Lost') \in Nat /\ Cardinality(Lost') <= Cardinality(Lost)
    BY <1>s, SetsFinite, FS_Subset, FS_CardinalityType
  <2>2. /\ metrics'["requests"] = metrics["requests"]
        /\ metrics'["successes"] = metrics["successes"]
        /\ metrics'["failures"] = metrics["failures"]
        /\ metrics'["terminal_failures"] = metrics["terminal_failures"]
        /\ metrics'["retries"] = metrics["retries"]
    BY <1>s, CounterNames
  <2>3. metrics["terminal_failures"] >= Cardinality(Lost')
    BY <1>t, <2>1, SetsFinite, CounterNames DEF Books
  <2> QED
    BY <1>s, <2>2, <2>3 DEF Books
<1>1. ASSUME NEW c \in Caller, Hit(c) PROVE Books'
  <2>1. UnderWay' = UnderWay /\ Retried' = Retried
    BY <1>1 DEF Hit, UnderWay, Retried
  <2>2. Lost' \subseteq Lost
    BY <1>0, <1>1 DEF Hit, Lost
  <2>3. \A k \in Counter \ {"cache_hits"} : metrics'[k] = metrics[k]
    BY <1>0, <1>1, AddCounts, CounterNames DEF Hit
  <2> QED
    BY <1>s, <2>1, <2>2, <2>3
<1>2. ASSUME NEW c \in Caller, Reject(c) \/ Miss(c) \/ Finish(c) \/ Cancel(c) \/ Refuse(c)
      PROVE  Books'
  <2> USE DEF Reject, Miss, Finish, Cancel, Refuse, Ended
  <2>1. UnderWay' = UnderWay
    BY <1>0, <1>2 DEF UnderWay
  <2>2. Retried' = Retried
    <3>1. /\ attempt' = attempt
          /\ \A d \in Caller : thread'[d] = "backoff" <=> thread[d] = "backoff"
      BY <1>0, <1>2
    <3> QED
      BY <3>1 DEF Retried
  <2>3. Lost' \subseteq Lost
    BY <1>0, <1>2 DEF Lost
  <2>4. metrics' = metrics
    BY <1>2
  <2> QED
    BY <1>s, <2>1, <2>2, <2>3, <2>4
<1>3. ASSUME NEW c \in Caller, Begin(c) PROVE Books'
  <2>1. UnderWay' = UnderWay \cup {c} /\ c \notin UnderWay
    BY <1>0, <1>3 DEF Begin, UnderWay
  <2>2. Lost' = Lost
    BY <1>0, <1>3 DEF Begin, Lost
  <2>3. Retried' = Retried
    <3>1. /\ attempt' = attempt
          /\ \A d \in Caller : thread'[d] = "backoff" <=> thread[d] = "backoff"
      BY <1>0, <1>3 DEF Begin
    <3> QED
      BY <3>1 DEF Retried
  <2>4. /\ metrics'["requests"] = metrics["requests"] + 1
        /\ \A k \in Counter \ {"requests"} : metrics'[k] = metrics[k]
    BY <1>0, <1>3, AddCounts, CounterNames DEF Begin
  <2>5. /\ metrics'["successes"] = metrics["successes"]
        /\ metrics'["failures"] = metrics["failures"]
        /\ metrics'["terminal_failures"] = metrics["terminal_failures"]
        /\ metrics'["retries"] = metrics["retries"]
    BY <2>4, CounterNames
  <2>6. Cardinality(UnderWay') = Cardinality(UnderWay) + 1
    BY <2>1, SetsFinite, FS_AddElement
  <2>7. metrics'["requests"] = metrics["successes"] + metrics["failures"] + Cardinality(UnderWay')
    BY <1>t, <2>4, <2>6, SetsFinite, CounterNames DEF Books
  <2> QED
    BY <2>2, <2>3, <2>5, <2>7 DEF Books
<1>4. ASSUME NEW c \in Caller, Send(c) \/ SendCandidate(c) \/ Discard(c) PROVE Books'
  <2>1. UnderWay' = UnderWay
    BY <1>0, <1>4 DEF Send, SendCandidate, Discard, Ended, UnderWay
  <2>2. Lost' \subseteq Lost
    BY <1>0, <1>4 DEF Send, SendCandidate, Discard, Ended, Lost
  <2>3. Retried' = Retried
    <3>1. /\ attempt' = attempt
          /\ \A d \in Caller : thread'[d] = "backoff" <=> thread[d] = "backoff"
      BY <1>0, <1>4 DEF Send, SendCandidate, Discard, Ended
    <3> QED
      BY <3>1 DEF Retried
  <2>4. metrics' = metrics
    BY <1>4 DEF Send, SendCandidate, Discard, Ended
  <2> QED
    BY <1>s, <2>1, <2>2, <2>3, <2>4
<1>5. ASSUME NEW c \in Caller, Succeed(c) PROVE Books'
  <2>1. UnderWay' = UnderWay \ {c} /\ c \in UnderWay
    BY <1>0, <1>5 DEF Succeed, UnderWay
  <2>2. Lost' = Lost
    BY <1>0, <1>5 DEF Succeed, Lost
  <2>3. Retried' = Retried
    <3>1. /\ attempt' = attempt
          /\ \A d \in Caller : thread'[d] = "backoff" <=> thread[d] = "backoff"
      BY <1>0, <1>5 DEF Succeed
    <3> QED
      BY <3>1 DEF Retried
  <2>4. /\ metrics'["successes"] = metrics["successes"] + 1
        /\ \A k \in Counter \ {"successes"} : metrics'[k] = metrics[k]
    BY <1>0, <1>5, AddCounts, CounterNames DEF Succeed
  <2>5. /\ metrics'["requests"] = metrics["requests"]
        /\ metrics'["failures"] = metrics["failures"]
        /\ metrics'["terminal_failures"] = metrics["terminal_failures"]
        /\ metrics'["retries"] = metrics["retries"]
    BY <2>4, CounterNames
  <2>6. Cardinality(UnderWay') = Cardinality(UnderWay) - 1
    BY <2>1, SetsFinite, FS_RemoveElement
  <2>7. metrics["requests"] = metrics'["successes"] + metrics["failures"] + Cardinality(UnderWay')
    BY <1>t, <2>4, <2>6, SetsFinite, CounterNames DEF Books
  <2> QED
    BY <2>2, <2>3, <2>5, <2>7 DEF Books
<1>6. ASSUME NEW c \in Caller, Fail(c) PROVE Books'
  <2>1. UnderWay' = UnderWay \ {c} /\ c \in UnderWay
    BY <1>0, <1>6 DEF Fail, UnderWay
  <2>2. Cardinality(UnderWay') = Cardinality(UnderWay) - 1
    BY <2>1, SetsFinite, FS_RemoveElement
  <2>3. CASE attempt[c] < MaxRetries
    <3>1. /\ metrics'["failures"] = metrics["failures"] + 1
          /\ metrics'["retries"] = metrics["retries"] + 1
          /\ \A k \in Counter \ {"failures", "retries"} : metrics'[k] = metrics[k]
      BY <1>0, <1>6, <2>3, Add2Counts, CounterNames DEF Fail
    <3>2. /\ metrics'["requests"] = metrics["requests"]
          /\ metrics'["successes"] = metrics["successes"]
          /\ metrics'["terminal_failures"] = metrics["terminal_failures"]
      BY <3>1, CounterNames
    <3>3. Lost' = Lost
      BY <1>0, <1>6, <2>3 DEF Fail, Lost
    <3>4. Retried' = Retried \cup {<<c, attempt[c]>>} /\ <<c, attempt[c]>> \notin Retried
      <4>1. /\ attempt' = attempt
            /\ thread[c] = "sending" /\ thread'[c] = "backoff"
            /\ \A d \in Caller \ {c} : thread'[d] = thread[d]
        BY <1>0, <1>6, <2>3 DEF Fail
      <4>2. <<c, attempt[c]>> \in Caller \X (0 .. MaxRetries)
        BY <1>0
      <4>3. <<c, attempt[c]>> \notin Retried
        BY <1>0, <4>1 DEF Retried
      <4>4. ASSUME NEW p \in Caller \X (0 .. MaxRetries)
            PROVE  p \in Retried' <=> p \in Retried \/ p = <<c, attempt[c]>>
        <5>1. CASE p[1] = c
          <6>1. p \in Retried' <=> p[2] < attempt[c] \/ p[2] = attempt[c]
            BY <4>1, <5>1 DEF Retried
          <6>2. p \in Retried <=> p[2] < attempt[c]
            BY <4>1, <5>1 DEF Retried
          <6>3. p = <<c, attempt[c]>> <=> p[2] = attempt[c]
            BY <5>1
          <6> QED
            BY <6>1, <6>2, <6>3
        <5>2. CASE p[1] # c
          BY <4>1, <5>2 DEF Retried
        <5> QED
          BY <5>1, <5>2
      <4>5. Retried \subseteq Caller \X (0 .. MaxRetries) /\ Retried' \subseteq Caller \X (0 .. MaxRetries)
        BY DEF Retried
      <4> QED
        BY <4>2, <4>3, <4>4, <4>5
    <3>5. Cardinality(Retried') = Cardinality(Retried) + 1
      BY <3>4, SetsFinite, FS_AddElement
    <3>6. /\ metrics["requests"] = metrics["successes"] + metrics'["failures"] + Cardinality(UnderWay')
          /\ metrics'["failures"] = metrics'["retries"] + metrics["terminal_failures"]
          /\ metrics'["retries"] = Cardinality(Retried')
      BY <1>t, <2>2, <3>1, <3>5, SetsFinite, CounterNames DEF Books
    <3> QED
      BY <3>2, <3>3, <3>6 DEF Books
  <2>4. CASE ~(attempt[c] < MaxRetries)
    <3>1. /\ metrics'["failures"] = metrics["failures"] + 1
          /\ metrics'["terminal_failures"] = metrics["terminal_failures"] + 1
          /\ \A k \in Counter \ {"failures", "terminal_failures"} : metrics'[k] = metrics[k]
      BY <1>0, <1>6, <2>4, Add2Counts, CounterNames DEF Fail
    <3>2. /\ metrics'["requests"] = metrics["requests"]
          /\ metrics'["successes"] = metrics["successes"]
          /\ metrics'["retries"] = metrics["retries"]
      BY <3>1, CounterNames
    <3>3. Lost' \subseteq Lost \cup {c}
      BY <1>0, <1>6, <2>4 DEF Fail, Lost
    <3>4. Cardinality(Lost') \in Nat /\ Cardinality(Lost') <= Cardinality(Lost) + 1
      <4>1. /\ IsFiniteSet(Lost \cup {c})
            /\ Cardinality(Lost \cup {c}) \in Nat
            /\ Cardinality(Lost \cup {c}) <= Cardinality(Lost) + 1
        BY SetsFinite, FS_AddElement
      <4>2. IsFiniteSet(Lost') /\ Cardinality(Lost') <= Cardinality(Lost \cup {c})
        BY <3>3, <4>1, FS_Subset
      <4>3. Cardinality(Lost') \in Nat
        BY <4>2, FS_CardinalityType
      <4> QED
        BY <4>1, <4>2, <4>3, SetsFinite
    <3>5. Retried' = Retried
      <4>1. /\ attempt' = attempt
            /\ \A d \in Caller : thread'[d] = "backoff" <=> thread[d] = "backoff"
        BY <1>0, <1>6, <2>4 DEF Fail
      <4> QED
        BY <4>1 DEF Retried
    <3>6. /\ metrics["requests"] = metrics["successes"] + metrics'["failures"] + Cardinality(UnderWay')
          /\ metrics'["failures"] = metrics["retries"] + metrics'["terminal_failures"]
          /\ metrics'["terminal_failures"] >= Cardinality(Lost')
      BY <1>t, <2>2, <3>1, <3>4, SetsFinite, CounterNames DEF Books
    <3> QED
      BY <3>2, <3>5, <3>6 DEF Books
  <2> QED
    BY <2>3, <2>4
<1>7. ASSUME NEW c \in Caller, Retry(c) PROVE Books'
  <2>1. UnderWay' = UnderWay
    BY <1>0, <1>7 DEF Retry, UnderWay
  <2>2. Lost' \subseteq Lost
    BY <1>0, <1>7 DEF Retry, Lost
  <2>3. Retried' = Retried
    <3>1. /\ thread[c] = "backoff" /\ thread'[c] = "starting"
          /\ attempt'[c] = attempt[c] + 1
          /\ \A d \in Caller \ {c} : thread'[d] = thread[d] /\ attempt'[d] = attempt[d]
      BY <1>0, <1>7 DEF Retry
    <3>2. ASSUME NEW p \in Caller \X (0 .. MaxRetries)
          PROVE  p \in Retried' <=> p \in Retried
      <4>1. CASE p[1] = c
        <5>1. p \in Retried' <=> p[2] < attempt[c] + 1
          BY <3>1, <4>1 DEF Retried
        <5>2. p \in Retried <=> p[2] < attempt[c] \/ p[2] = attempt[c]
          BY <3>1, <4>1 DEF Retried
        <5>3. p[2] \in Nat /\ attempt[c] \in Nat
          BY <1>0
        <5> QED
          BY <5>1, <5>2, <5>3
      <4>2. CASE p[1] # c
        BY <3>1, <4>2 DEF Retried
      <4> QED
        BY <4>1, <4>2
    <3>3. Retried \subseteq Caller \X (0 .. MaxRetries) /\ Retried' \subseteq Caller \X (0 .. MaxRetries)
      BY DEF Retried
    <3> QED
      BY <3>2, <3>3
  <2>4. metrics' = metrics
    BY <1>7 DEF Retry
  <2> QED
    BY <1>s, <2>1, <2>2, <2>3, <2>4
<1>8. ASSUME Acquire PROVE Books'
  <2> DEFINE h == Head(queue)
  <2>1. h \in Caller /\ call[h] = "queued" /\ thread[h] = "none"
    <3>1. h \in Caller /\ h \in In("queued")
      BY <1>8, HeadLeaves DEF Acquire, Waiting, TypeOK
    <3> QED
      BY <3>1 DEF In, Jobs
  <2>2. /\ call' = [call EXCEPT ![h] = "fetching"] /\ thread' = [thread EXCEPT ![h] = "starting"]
        /\ attempt' = attempt /\ metrics' = metrics
    BY <1>8 DEF Acquire
  <2> HIDE DEF h
  <2>3. UnderWay' = UnderWay
    BY <1>0, <2>1, <2>2 DEF UnderWay
  <2>4. Lost' \subseteq Lost
    BY <1>0, <2>1, <2>2 DEF Lost
  <2>5. Retried' = Retried
    <3>1. \A d \in Caller : thread'[d] = "backoff" <=> thread[d] = "backoff"
      BY <1>0, <2>1, <2>2
    <3> QED
      BY <2>2, <3>1 DEF Retried
  <2> QED
    BY <1>s, <2>2, <2>3, <2>4, <2>5
<1>9. ASSUME Tick \/ UNCHANGED vars PROVE Books'
  <2>1. UNCHANGED <<call, thread, attempt, metrics>>
    BY <1>9 DEF Tick, vars
  <2>2. UnderWay' = UnderWay /\ Lost' = Lost /\ Retried' = Retried
    BY <2>1 DEF UnderWay, Lost, Retried
  <2> QED
    BY <1>s, <2>1, <2>2
<1> QED
  BY <1>1, <1>2, <1>3, <1>4, <1>5, <1>6, <1>7, <1>8, <1>9 DEF Next, Loop, Work

\* Whoever gets an answer, from the service or from the cache, is counted then.
LEMMA AnswersStep == TypeOK /\ Jobs /\ Waiting /\ Answers /\ [Next]_vars => Answers'
<1> SUFFICES ASSUME TypeOK, Jobs, Waiting, Answers, [Next]_vars PROVE Answers'
  OBVIOUS
<1> DEFINE counted == metrics["successes"] + metrics["cache_hits"]
<1>0. /\ call \in [Caller -> CallState] /\ thread \in [Caller -> ThreadState]
      /\ metrics \in [Counter -> Nat]
      /\ metrics["successes"] \in Nat /\ metrics["cache_hits"] \in Nat
  BY CounterNames DEF TypeOK
<1>w. IsFiniteSet(Won) /\ Cardinality(Won) \in Nat
  <2>1. Won \subseteq Caller
    BY DEF Won
  <2> QED
    BY <2>1, ConstantsAssumption, FS_Subset, FS_CardinalityType
<1>s. ASSUME Won' \subseteq Won, counted' \in Nat, counted' >= counted PROVE Answers'
  <2>1. Cardinality(Won') \in Nat /\ Cardinality(Won') <= Cardinality(Won)
    BY <1>s, <1>w, FS_Subset, FS_CardinalityType
  <2> QED
    BY <1>0, <1>s, <1>w, <2>1 DEF Answers
<1>g. ASSUME NEW c \in Caller, Won' \subseteq Won \cup {c}, counted' = counted + 1 PROVE Answers'
  <2>1. /\ IsFiniteSet(Won \cup {c})
        /\ Cardinality(Won \cup {c}) \in Nat
        /\ Cardinality(Won \cup {c}) <= Cardinality(Won) + 1
    BY <1>w, FS_AddElement
  <2>2. Cardinality(Won') \in Nat /\ Cardinality(Won') <= Cardinality(Won \cup {c})
    BY <1>g, <2>1, FS_Subset, FS_CardinalityType
  <2> QED
    BY <1>0, <1>g, <1>w, <2>1, <2>2 DEF Answers
<1>1. ASSUME NEW c \in Caller, Hit(c) PROVE Answers'
  <2>1. Won' \subseteq Won \cup {c}
    BY <1>0, <1>1 DEF Hit, Won
  <2>2. counted' = counted + 1
    BY <1>0, <1>1, AddCounts, CounterNames DEF Hit
  <2> QED
    BY <1>g, <2>1, <2>2
<1>2. ASSUME NEW c \in Caller, Succeed(c) PROVE Answers'
  <2>1. Won' \subseteq Won \cup {c}
    BY <1>0, <1>2 DEF Succeed, Won
  <2>2. counted' = counted + 1
    BY <1>0, <1>2, AddCounts, CounterNames DEF Succeed
  <2> QED
    BY <1>g, <2>1, <2>2
<1>3. ASSUME NEW c \in Caller, Begin(c) \/ Fail(c) PROVE Answers'
  <2>1. Won' \subseteq Won
    BY <1>0, <1>3 DEF Begin, Fail, Won
  <2>2. counted' = counted
    <3>1. CASE Begin(c)
      BY <1>0, <3>1, AddCounts, CounterNames DEF Begin
    <3>2. CASE Fail(c)
      <4>1. PICK k \in {"retries", "terminal_failures"} : Add2("failures", k)
        BY <3>2 DEF Fail
      <4>2. k \in Counter \ {"failures"} /\ "failures" \in Counter
        BY CounterNames
      <4> QED
        BY <1>0, <4>1, <4>2, Add2Counts, CounterNames
    <3> QED
      BY <1>3, <3>1, <3>2
  <2> QED
    BY <1>0, <1>s, <2>1, <2>2
<1>4. ASSUME NEW c \in Caller,
             \/ Reject(c) \/ Miss(c) \/ Finish(c) \/ Cancel(c) \/ Refuse(c)
             \/ Send(c) \/ SendCandidate(c) \/ Retry(c) \/ Discard(c)
      PROVE  Answers'
  <2> USE DEF Reject, Miss, Finish, Cancel, Refuse, Send, SendCandidate, Retry, Discard, Ended
  <2>1. Won' \subseteq Won
    BY <1>0, <1>4 DEF Won
  <2>2. counted' = counted
    BY <1>4
  <2> QED
    BY <1>0, <1>s, <2>1, <2>2
<1>5. ASSUME Acquire PROVE Answers'
  <2> DEFINE h == Head(queue)
  <2>1. h \in Caller
    BY <1>5, HeadLeaves DEF Acquire, Waiting, TypeOK
  <2>2. /\ call' = [call EXCEPT ![h] = "fetching"] /\ thread' = [thread EXCEPT ![h] = "starting"]
        /\ metrics' = metrics
    BY <1>5 DEF Acquire
  <2> HIDE DEF h
  <2>3. Won' \subseteq Won
    BY <1>0, <2>1, <2>2 DEF Won
  <2> QED
    BY <1>0, <1>s, <2>2, <2>3
<1>6. ASSUME Tick \/ UNCHANGED vars PROVE Answers'
  <2>1. UNCHANGED <<call, thread, metrics>>
    BY <1>6 DEF Tick, vars
  <2> QED
    BY <1>0, <1>s, <2>1 DEF Won
<1> QED
  BY <1>1, <1>2, <1>3, <1>4, <1>5, <1>6 DEF Next, Loop, Work

-----------------------------------------------------------------------------
(* The theorems.                                                           *)

\* The invariant holds in every history of calls, cancellations and failures.
THEOREM Consistency == Spec => []IInv
<1>1. IInv /\ [Next]_vars => IInv'
  BY TypeStep, JobsStep, WaitingStep, PermitsStep, PlacesStep, BooksStep, AnswersStep DEF IInv
<1> QED
  BY InitInv, <1>1, PTL DEF Spec

\* Calls, threads, delays and counters have their types: no permit goes below
\* zero and no attempt beyond max_retries.
THEOREM TypeCorrect == Spec => []TypeOK
<1>1. IInv => TypeOK
  BY DEF IInv
<1> QED
  BY Consistency, <1>1, PTL

\* No cancellation loses or adds a permit of the semaphore, so no more calls
\* are served at a time than max_concurrency; whoever waits is queued once.
THEOREM SemaphoreHolds == Spec => []ConcurrencyBound
<1>1. IInv => ConcurrencyBound
  <2> SUFFICES ASSUME IInv PROVE ConcurrencyBound
    OBVIOUS
  <2>1. Running \ In("cancelled") \subseteq In("fetching")
    BY DEF IInv, Jobs, Running, In
  <2>2. IsFiniteSet(In("fetching"))
    <3>1. In("fetching") \subseteq Caller
      BY DEF In
    <3> QED
      BY <3>1, ConstantsAssumption, FS_Subset
  <2>3. /\ Cardinality(Running \ In("cancelled")) \in Nat
        /\ Cardinality(Running \ In("cancelled")) <= Cardinality(In("fetching"))
    BY <2>1, <2>2, FS_Subset, FS_CardinalityType
  <2>4. /\ permits \in Nat /\ Cardinality(In("fetching")) \in Nat /\ MaxConcurrency \in Nat
        /\ permits + Cardinality(In("fetching")) = MaxConcurrency
    BY <2>2, FS_CardinalityType, ConstantsAssumption DEF IInv, TypeOK, Permits
  <2>5. Cardinality(Running \ In("cancelled")) <= MaxConcurrency
    BY <2>3, <2>4
  <2> QED
    BY <2>4, <2>5 DEF IInv, Waiting, ConcurrencyBound
<1> QED
  BY Consistency, <1>1, PTL

\* The rate limiter gives each attempt a place of its own.
THEOREM OnePlaceEach == Spec => []PlacesDiffer
<1>1. IInv => PlacesDiffer
  BY DEF IInv, Places, PlacesDiffer
<1> QED
  BY Consistency, <1>1, PTL

\* The service counters add up, nobody is answered or fails its last attempt
\* without being counted, and there are no more retries than allowed.
THEOREM CountersBalance == Spec => []CountersAddUp
<1>1. IInv => CountersAddUp
  <2> SUFFICES ASSUME IInv PROVE CountersAddUp
    OBVIOUS
  <2>0. metrics["terminal_failures"] \in Nat /\ metrics["retries"] \in Nat
    BY CounterNames DEF IInv, TypeOK
  <2>1. metrics["terminal_failures"] >= Cardinality(In("failed"))
    <3>1. In("failed") \subseteq Lost
      BY DEF In, Lost
    <3>2. Cardinality(In("failed")) \in Nat /\ Cardinality(In("failed")) <= Cardinality(Lost)
      BY <3>1, SetsFinite, FS_Subset, FS_CardinalityType
    <3> QED
      BY <2>0, <3>2, SetsFinite DEF IInv, Books
  <2>2. metrics["retries"] <= Cardinality(Caller) * MaxRetries
    <3> DEFINE P == Caller \X (0 .. MaxRetries - 1)
    <3>1. Retried \subseteq P
      <4> SUFFICES ASSUME NEW p \in Retried PROVE p \in P
        OBVIOUS
      <4>1. p \in Caller \X (0 .. MaxRetries)
        BY DEF Retried
      <4>2. p[1] \in Caller /\ p[2] \in Nat /\ attempt[p[1]] \in 0 .. MaxRetries /\ MaxRetries \in Nat
        BY <4>1, ConstantsAssumption DEF IInv, TypeOK
      <4>3. p[2] < MaxRetries
        <5>1. CASE p[2] < attempt[p[1]]
          BY <4>2, <5>1
        <5>2. CASE p[2] = attempt[p[1]] /\ thread[p[1]] = "backoff"
          BY <4>2, <5>2 DEF IInv, Jobs
        <5> QED
          BY <5>1, <5>2 DEF Retried
      <4>4. p = <<p[1], p[2]>> /\ p[2] \in 0 .. MaxRetries - 1
        BY <4>1, <4>2, <4>3
      <4> QED
        BY <4>2, <4>4
    <3>2. IsFiniteSet(0 .. MaxRetries - 1) /\ Cardinality(0 .. MaxRetries - 1) = MaxRetries
      <4>1. MaxRetries \in Nat /\ 0 \in Int /\ MaxRetries - 1 \in Int
        BY ConstantsAssumption
      <4>2. /\ IsFiniteSet(0 .. MaxRetries - 1)
            /\ Cardinality(0 .. MaxRetries - 1)
                = IF 0 > MaxRetries - 1 THEN 0 ELSE (MaxRetries - 1) - 0 + 1
        BY <4>1, FS_Interval
      <4> QED
        BY <4>1, <4>2
    <3>3. IsFiniteSet(P) /\ Cardinality(P) = Cardinality(Caller) * MaxRetries
      BY <3>2, ConstantsAssumption, FS_Product
    <3>4. Cardinality(Retried) <= Cardinality(P)
      BY <3>1, <3>3, FS_Subset
    <3> QED
      BY <3>3, <3>4 DEF IInv, Books
  <2>3. metrics["successes"] + metrics["cache_hits"] >= Cardinality(In("answered") \cup In("unsaved"))
    <3> DEFINE A == In("answered") \cup In("unsaved")
    <3>1. A \subseteq Won /\ Won \subseteq Caller
      BY DEF In, Won
    <3>2. /\ Cardinality(A) \in Nat /\ Cardinality(Won) \in Nat
          /\ Cardinality(A) <= Cardinality(Won)
      BY <3>1, ConstantsAssumption, FS_Subset, FS_CardinalityType
    <3>3. metrics["successes"] \in Nat /\ metrics["cache_hits"] \in Nat
      BY CounterNames DEF IInv, TypeOK
    <3> QED
      BY <3>2, <3>3 DEF IInv, Answers
  <2> QED
    BY <2>1, <2>2, <2>3 DEF IInv, Books, CountersAddUp, UnderWay
<1> QED
  BY Consistency, <1>1, PTL
-----------------------------------------------------------------------------
(* Every call can come to its end.                                         *)

\* The loop, a thread, the semaphore or the clock: what c waits for can happen.
LoopCanMove(c) == call[c] = "idle" \/ (call[c] = "fetching" /\ thread[c] \in Ended)

ThreadCanMove(c) == thread[c] \in {"starting", "sending"} \/ (Asleep(c) /\ delay[c] = 0)

SemaphoreCanMove == queue # <<>> /\ permits > 0

\* A call that is not over can go on itself, sleeps, or stands in the queue; then
\* there is a permit for its head, or each permit is with a call that is served
\* and whose thread can move or sleeps (deepdive.py:205-222).
GoesOn ==
    \A c \in Caller : call[c] \notin Over =>
        \/ LoopCanMove(c) \/ SemaphoreCanMove
        \/ \E d \in In("fetching") :
            /\ call[c] = "queued" \/ d = c
            /\ LoopCanMove(d) \/ ThreadCanMove(d) \/ (Asleep(d) /\ delay[d] > 0)


\* No call of the tools waits for one that cannot end.
THEOREM NeverStuck == Spec => []GoesOn
<1>1. IInv => GoesOn
  <2> SUFFICES ASSUME IInv, NEW c \in Caller, call[c] \notin Over,
                      ~LoopCanMove(c), ~SemaphoreCanMove
               PROVE  \E d \in In("fetching") :
                         /\ call[c] = "queued" \/ d = c
                         /\ LoopCanMove(d) \/ ThreadCanMove(d) \/ (Asleep(d) /\ delay[d] > 0)
    BY DEF GoesOn
  <2>1. ASSUME NEW d \in In("fetching")
        PROVE  LoopCanMove(d) \/ ThreadCanMove(d) \/ (Asleep(d) /\ delay[d] > 0)
    <3>1. /\ d \in Caller /\ call[d] = "fetching" /\ delay[d] \in Nat
          /\ thread[d] \in ThreadState \ {"none"}
      BY DEF In, IInv, TypeOK, Jobs
    <3> QED
      BY <3>1 DEF LoopCanMove, ThreadCanMove, Asleep, ThreadState
  <2>2. CASE call[c] = "fetching"
    BY <2>1, <2>2 DEF In
  <2>3. CASE call[c] = "queued"
    <3>1. c \in ToSet(queue)
      BY <2>3 DEF In, IInv, Waiting
    <3>2. queue # <<>>
      BY <3>1 DEF ToSet
    <3>3. permits = 0
      BY <3>2 DEF SemaphoreCanMove, IInv, TypeOK
    <3>4. In("fetching") # {}
      <4>1. CASE In("fetching") = {}
        BY <3>3, <4>1, FS_EmptySet, ConstantsAssumption DEF IInv, Permits
      <4> QED
        BY <4>1
    <3> QED
      BY <2>1, <2>3, <3>4
  <2> QED
    BY <2>2, <2>3 DEF IInv, TypeOK, CallState, Over, LoopCanMove
<1> QED
  BY Consistency, <1>1, PTL

\* The steps of an attempt: the limiter, each query, its outcome.
Cost == Candidates + 4

\* How far an attempt has come.
Progress(t, q) ==
    CASE t = "starting" -> 0
      [] t = "limited" -> 1
      [] t = "sending" -> 2 + q
      [] OTHER -> 3 + Candidates

\* What has been done for a call in state s whose thread is in state t, at its
\* attempt a and query q: by the loop, and by the thread.
LoopEffort(s) ==
    CASE s = "idle" -> 0
      [] s = "queued" -> 1
      [] s = "fetching" -> 2
      [] OTHER -> 3

ThreadEffort(s, t, a, q) ==
    CASE t # "none" -> 1 + a * Cost + Progress(t, q)
      [] t = "none" /\ s \in {"idle", "queued"} -> 0
      [] OTHER -> 1 + (MaxRetries + 1) * Cost

EffortOf(s, t, a, q) == LoopEffort(s) + ThreadEffort(s, t, a, q)

Effort(c) == EffortOf(call[c], thread[c], attempt[c], query[c])

\* What the pauses are bounded by.
Pauses ==
    /\ nextAllowed <= metrics["requests"]
    /\ \A c \in Caller : thread[c] = "backoff" => delay[c] <= 8

LEMMA PausesStep == IInv /\ Pauses /\ [Next]_vars => Pauses'
<1> SUFFICES ASSUME IInv, Pauses, [Next]_vars PROVE Pauses'
  OBVIOUS
<1>0. /\ thread \in [Caller -> ThreadState] /\ delay \in [Caller -> Nat] /\ nextAllowed \in Nat
      /\ metrics \in [Counter -> Nat] /\ metrics["requests"] \in Nat
  BY CounterNames DEF IInv, TypeOK
<1>1. ASSUME nextAllowed' = nextAllowed, metrics'["requests"] \in Nat,
             metrics'["requests"] >= metrics["requests"],
             \A c \in Caller : thread'[c] = "backoff" =>
                delay'[c] <= 8 \/ (thread[c] = "backoff" /\ delay'[c] = delay[c])
      PROVE  Pauses'
  BY <1>0, <1>1 DEF Pauses
<1>2. ASSUME NEW k \in Counter, Add(k)
      PROVE  metrics'["requests"] \in Nat /\ metrics'["requests"] >= metrics["requests"]
  BY <1>0, <1>2, AddCounts, CounterNames
<1>3. ASSUME NEW c \in Caller, Loop(c) \/ Refuse(c) \/ Cancel(c) PROVE Pauses'
  <2>1. CASE Hit(c)
    <3>1. Add("cache_hits") /\ "cache_hits" \in Counter
      BY <2>1, CounterNames DEF Hit
    <3> QED
      BY <1>1, <1>2, <2>1, <3>1 DEF Hit
  <2>2. CASE ~Hit(c)
    BY <1>0, <1>1, <1>3, <2>2 DEF Loop, Reject, Miss, Finish, Ended, Refuse, Cancel
  <2> QED
    BY <2>1, <2>2
<1>4. ASSUME NEW c \in Caller, Begin(c) PROVE Pauses'
  <2>1. metrics'["requests"] = metrics["requests"] + 1
    BY <1>0, <1>4, AddCounts, CounterNames DEF Begin
  <2> QED
    BY <1>0, <1>4, <2>1 DEF Begin, Reserve, Pauses
<1>5. ASSUME NEW c \in Caller, Send(c) \/ SendCandidate(c) \/ Retry(c) \/ Discard(c) PROVE Pauses'
  BY <1>0, <1>1, <1>5 DEF Send, SendCandidate, Retry, Discard, Ended
<1>6. ASSUME NEW c \in Caller, Succeed(c) PROVE Pauses'
  <2>1. Add("successes") /\ "successes" \in Counter
    BY <1>6, CounterNames DEF Succeed
  <2> QED
    BY <1>0, <1>1, <1>2, <1>6, <2>1 DEF Succeed
<1>7. ASSUME NEW c \in Caller, Fail(c) PROVE Pauses'
  <2>1. metrics'["requests"] = metrics["requests"]
    BY <1>0, <1>7, Add2Counts, CounterNames DEF Fail
  <2>2. Backoff(attempt[c]) <= 8
    BY BackoffType DEF IInv, TypeOK
  <2>3. \A d \in Caller : thread'[d] = "backoff" =>
          delay'[d] <= 8 \/ (thread[d] = "backoff" /\ delay'[d] = delay[d])
    BY <1>0, <1>7, <2>2 DEF Fail
  <2> QED
    BY <1>0, <1>1, <1>7, <2>1, <2>3 DEF Fail
<1>8. CASE Acquire
  BY <1>0, <1>1, <1>8 DEF Acquire
<1>9. CASE Tick
  BY <1>0, <1>9 DEF Tick, Asleep, Pauses
<1>10. CASE UNCHANGED vars
  BY <1>10 DEF vars, Pauses
<1> QED
  BY <1>3, <1>4, <1>5, <1>6, <1>7, <1>8, <1>9, <1>10 DEF Next, Loop, Work

LEMMA PausesHold == Spec => []Pauses
<1>1. Init => Pauses
  BY CounterNames DEF Init, Pauses
<1> QED
  BY <1>1, PausesStep, Consistency, PTL DEF Spec

\* What attempts cost, all together.
LEMMA CostFacts ==
    /\ Candidates \in Nat /\ MaxRetries \in Nat /\ Cost \in Nat
    /\ \A k \in Nat : k * Cost \in Nat /\ (k + 1) * Cost = k * Cost + Cost
    /\ \A k \in 0 .. MaxRetries : k * Cost <= MaxRetries * Cost
<1>1. Candidates \in Nat /\ MaxRetries \in Nat /\ Cost \in Nat
  BY ConstantsAssumption DEF Cost
<1> HIDE DEF Cost
<1>2. \A k \in Nat : k * Cost \in Nat /\ (k + 1) * Cost = k * Cost + Cost
  BY <1>1
<1>3. \A k \in 0 .. MaxRetries : k * Cost <= MaxRetries * Cost
  BY <1>1
<1> QED
  BY <1>1, <1>2, <1>3

\* The efforts are numbers, and a thread's is less than what a call has that is over.
LEMMA EffortFacts ==
    ASSUME NEW s \in CallState, NEW t \in ThreadState,
           NEW a \in 0 .. MaxRetries, NEW q \in 0 .. Candidates
    PROVE  /\ LoopEffort(s) \in 0 .. 3
           /\ ThreadEffort(s, t, a, q) \in Nat
           /\ t # "none" => ThreadEffort(s, t, a, q) <= (MaxRetries + 1) * Cost
           /\ ThreadEffort(s, t, a, q) <= 1 + (MaxRetries + 1) * Cost
           /\ (MaxRetries + 1) * Cost \in Nat
<1>1. LoopEffort(s) \in 0 .. 3
  BY DEF LoopEffort, CallState
<1>2. Progress(t, q) \in 0 .. 3 + Candidates
  BY CostFacts DEF Progress
<1>3. /\ a * Cost \in Nat /\ a * Cost <= MaxRetries * Cost
      /\ (MaxRetries + 1) * Cost \in Nat /\ MaxRetries * Cost \in Nat
      /\ (MaxRetries + 1) * Cost = MaxRetries * Cost + Cost
      /\ Cost = Candidates + 4
  <2>1. a \in Nat /\ MaxRetries + 1 \in Nat
    BY CostFacts
  <2> QED
    BY <2>1, CostFacts DEF Cost
<1> DEFINE w == a * Cost
           m == MaxRetries * Cost
           top == (MaxRetries + 1) * Cost
<1>4. w \in Nat /\ m \in Nat /\ w <= m /\ top = m + Candidates + 4 /\ Candidates \in Nat
  BY <1>3, CostFacts
<1>5. ThreadEffort(s, t, a, q) = IF t # "none" THEN 1 + w + Progress(t, q)
                                 ELSE IF s \in {"idle", "queued"} THEN 0 ELSE 1 + top
  BY DEF ThreadEffort
<1> HIDE DEF w, m, top
<1>6. /\ ThreadEffort(s, t, a, q) \in Nat /\ ThreadEffort(s, t, a, q) <= 1 + top
      /\ t # "none" => ThreadEffort(s, t, a, q) <= top
      /\ top \in Nat
  BY <1>2, <1>4, <1>5
<1> QED
  BY <1>1, <1>6 DEF top

\* No call makes more work than its retries and queries allow, and no thread
\* sleeps longer than the longest pause between attempts or one interval for
\* each attempt begun so far (deepdive.py:80-87, 226-277).
EffortLimit ==
    \A c \in Caller :
        /\ Effort(c) <= 4 + (MaxRetries + 1) * Cost
        /\ Asleep(c) => delay[c] <= 8 \/ delay[c] < metrics["requests"]

\* Calls, attempts and pauses are bounded by the constants of the service.
THEOREM CallsAreBounded == Spec => []EffortLimit
<1>1. IInv /\ Pauses => EffortLimit
  <2> SUFFICES ASSUME IInv, Pauses, NEW c \in Caller
               PROVE  /\ Effort(c) <= 4 + (MaxRetries + 1) * Cost
                      /\ Asleep(c) => delay[c] <= 8 \/ delay[c] < metrics["requests"]
    BY DEF EffortLimit
  <2>1. Effort(c) <= 4 + (MaxRetries + 1) * Cost
    <3>1. /\ call[c] \in CallState /\ thread[c] \in ThreadState
          /\ attempt[c] \in 0 .. MaxRetries /\ query[c] \in 0 .. Candidates
      BY DEF IInv, TypeOK
    <3> QED
      BY <3>1, EffortFacts DEF Effort, EffortOf
  <2>2. ASSUME thread[c] = "limited" PROVE delay[c] < metrics["requests"]
    BY <2>2, CounterNames DEF IInv, TypeOK, Places, Pauses
  <2> QED
    BY <2>1, <2>2 DEF Asleep, Pauses
<1> QED
  BY <1>1, Consistency, PausesHold, PTL

\* What the loop does for a call: it moves it on, gives it a thread or takes that away.
LEMMA LoopGains ==
    ASSUME NEW s \in CallState, NEW t \in ThreadState,
           NEW a \in 0 .. MaxRetries, NEW q \in 0 .. Candidates,
           NEW s2 \in CallState, NEW t2 \in ThreadState,
           \/ s \in {"idle", "queued", "fetching"} /\ s2 \in Over /\ t2 = t
           \/ s = "idle" /\ s2 = "queued" /\ t2 = t
           \/ s = "queued" /\ s2 = "fetching" /\ t = "none" /\ t2 = "starting"
           \/ s \in {"fetching", "cancelled"} /\ s2 \in Over /\ t # "none" /\ t2 = "none"
    PROVE  EffortOf(s2, t2, a, q) > EffortOf(s, t, a, q)
<1> DEFINE before == ThreadEffort(s, t, a, q)
           after == ThreadEffort(s2, t2, a, q)
           top == (MaxRetries + 1) * Cost
<1>1. /\ LoopEffort(s) \in 0 .. 3 /\ LoopEffort(s2) \in 0 .. 3
      /\ before \in Nat /\ after \in Nat /\ top \in Nat
      /\ before <= 1 + top /\ (t # "none" => before <= top)
  BY EffortFacts
<1>2. /\ s2 \in Over /\ t2 = "none" => after = 1 + top
      /\ s \in {"idle", "queued"} /\ t = "none" => before = 0
      /\ t # "none" /\ t2 = t => after = before
  BY DEF ThreadEffort, Over
<1>3. LoopEffort(s2) >= LoopEffort(s) /\ (s # s2 /\ s # "cancelled" => LoopEffort(s2) > LoopEffort(s))
  BY DEF LoopEffort, CallState, Over
<1>4. after >= before /\ (t # "none" /\ t2 = "none" => after > before)
  <2> HIDE DEF before, after, top
  <2> QED
    BY <1>1, <1>2
<1> HIDE DEF before, after, top
<1>5. LoopEffort(s2) + after > LoopEffort(s) + before
  BY <1>1, <1>3, <1>4 DEF Over
<1> QED
  BY <1>5 DEF EffortOf, before, after

\* What a thread does: it goes on with its attempt, or begins another.
LEMMA ThreadGains ==
    ASSUME NEW s \in CallState, NEW t \in ThreadState \ {"none"},
           NEW a \in 0 .. MaxRetries, NEW q \in 0 .. Candidates,
           NEW t2 \in ThreadState \ {"none"},
           NEW a2 \in 0 .. MaxRetries, NEW q2 \in 0 .. Candidates,
           \/ a2 = a /\ Progress(t2, q2) > Progress(t, q)
           \/ a2 = a + 1 /\ t2 = "starting"
    PROVE  EffortOf(s, t2, a2, q2) > EffortOf(s, t, a, q)
<1>1. /\ Progress(t, q) \in 0 .. 3 + Candidates /\ Progress(t2, q2) \in 0 .. 3 + Candidates
      /\ Candidates \in Nat
  BY CostFacts DEF Progress
<1>2. /\ a * Cost \in Nat /\ a2 * Cost \in Nat
      /\ a2 = a + 1 => a2 * Cost = a * Cost + Candidates + 4
  BY CostFacts DEF Cost
<1>3. /\ ThreadEffort(s, t, a, q) = 1 + a * Cost + Progress(t, q)
      /\ ThreadEffort(s, t2, a2, q2) = 1 + a2 * Cost + Progress(t2, q2)
  BY DEF ThreadEffort
<1>4. LoopEffort(s) \in 0 .. 3
  BY EffortFacts
<1> DEFINE w == a * Cost
           v == a2 * Cost
<1>5. w \in Nat /\ v \in Nat /\ (a2 = a + 1 => v = w + Candidates + 4) /\ (a2 = a => v = w)
  BY <1>2
<1> HIDE DEF w, v
<1>6. 1 + v + Progress(t2, q2) > 1 + w + Progress(t, q)
  BY <1>1, <1>5
<1> QED
  BY <1>1, <1>3, <1>4, <1>5, <1>6 DEF EffortOf, w, v

\* Nothing done for a call is undone, by whomever it is cancelled; every step is
\* something done for some call, or the clock's, which shortens every sleep.
StepsGain ==
    [][ /\ \A c \in Caller : Effort(c)' >= Effort(c)
        /\ \/ \E c \in Caller : Effort(c)' > Effort(c)
           \/ Tick /\ \A c \in Caller : Asleep(c) => delay'[c] = delay[c] - 1 ]_vars

LEMMA EffortTypes ==
    /\ TypeOK => \A c \in Caller : Effort(c) \in Nat
    /\ TypeOK' => \A c \in Caller : Effort(c)' \in Nat
<1>1. ASSUME NEW s \in CallState, NEW t \in ThreadState,
             NEW a \in 0 .. MaxRetries, NEW q \in 0 .. Candidates
      PROVE  EffortOf(s, t, a, q) \in Nat
  BY EffortFacts DEF EffortOf
<1>2. TypeOK => \A c \in Caller : Effort(c) \in Nat
  BY <1>1 DEF TypeOK, Effort
<1>3. TypeOK' => \A c \in Caller : Effort(c)' \in Nat
  BY <1>1 DEF TypeOK, Effort
<1> QED
  BY <1>2, <1>3

\* A step that does something for a call and nothing for the others.
LEMMA OneGains ==
    ASSUME TypeOK, TypeOK', NEW c \in Caller,
           EffortOf(call'[c], thread'[c], attempt'[c], query'[c])
               > EffortOf(call[c], thread[c], attempt[c], query[c]),
           \A d \in Caller \ {c} :
               /\ call'[d] = call[d] /\ thread'[d] = thread[d]
               /\ attempt'[d] = attempt[d] /\ query'[d] = query[d]
    PROVE  /\ \A d \in Caller : Effort(d)' >= Effort(d)
           /\ \E d \in Caller : Effort(d)' > Effort(d)
<1>1. Effort(c)' > Effort(c)
  BY DEF Effort
<1>2. \A d \in Caller \ {c} : Effort(d)' = Effort(d)
  BY DEF Effort
<1>3. \A d \in Caller : Effort(d) \in Nat /\ Effort(d)' \in Nat
  BY EffortTypes
<1> QED
  BY <1>1, <1>2, <1>3

\* The steps of calls and threads go forward only, and between them time passes.
THEOREM Advances == Spec => StepsGain
<1> DEFINE Gain == /\ \A c \in Caller : Effort(c)' >= Effort(c)
                   /\ \E c \in Caller : Effort(c)' > Effort(c)
<1>1. ASSUME IInv, TypeOK', NEW c \in Caller, Loop(c) \/ Cancel(c) PROVE Gain
  <2>0. /\ call[c] \in CallState /\ thread[c] \in ThreadState /\ TypeOK
        /\ attempt[c] \in 0 .. MaxRetries /\ query[c] \in 0 .. Candidates
        /\ thread[c] # "none" => call[c] \in {"fetching", "cancelled"}
        /\ call \in [Caller -> CallState] /\ thread \in [Caller -> ThreadState]
    BY <1>1 DEF IInv, TypeOK, Jobs
  <2>1. /\ UNCHANGED <<attempt, query>>
        /\ call' = [call EXCEPT ![c] = call'[c]] /\ thread' = [thread EXCEPT ![c] = thread'[c]]
        /\ \/ call[c] \in {"idle", "queued", "fetching"} /\ call'[c] \in Over /\ thread'[c] = thread[c]
           \/ call[c] = "idle" /\ call'[c] = "queued" /\ thread'[c] = thread[c]
           \/ /\ call[c] \in {"fetching", "cancelled"} /\ call'[c] \in Over
              /\ thread[c] # "none" /\ thread'[c] = "none"
    BY <1>1, <2>0 DEF Loop, Hit, Reject, Miss, Finish, Ended, Cancel, Over
  <2>2. call'[c] \in CallState /\ thread'[c] \in ThreadState
    BY <1>1 DEF TypeOK
  <2>3. EffortOf(call'[c], thread'[c], attempt[c], query[c])
            > EffortOf(call[c], thread[c], attempt[c], query[c])
    BY <2>0, <2>1, <2>2, LoopGains
  <2> QED
    BY <1>1, <2>0, <2>1, <2>3, OneGains
<1>2. ASSUME IInv, TypeOK', NEW c \in Caller, Work(c) PROVE Gain
  <2>0. /\ call[c] \in CallState /\ thread[c] \in ThreadState /\ TypeOK
        /\ attempt[c] \in 0 .. MaxRetries /\ query[c] \in 0 .. Candidates
        /\ thread \in [Caller -> ThreadState] /\ attempt \in [Caller -> 0 .. MaxRetries]
        /\ query \in [Caller -> 0 .. Candidates] /\ Candidates \in Nat
        /\ thread'[c] \in ThreadState
        /\ attempt'[c] \in 0 .. MaxRetries /\ query'[c] \in 0 .. Candidates
    BY <1>2, CostFacts DEF IInv, TypeOK
  <2>1. /\ UNCHANGED call
        /\ \A d \in Caller \ {c} : /\ thread'[d] = thread[d] /\ attempt'[d] = attempt[d]
                                   /\ query'[d] = query[d]
    BY <1>2, <2>0 DEF Work, Refuse, Begin, Send, SendCandidate, Succeed, Fail, Retry, Discard, Ended
  <2>2. CASE Discard(c)
    <3>1. /\ call[c] = "cancelled" /\ thread[c] # "none" /\ thread'[c] = "none"
          /\ UNCHANGED <<attempt, query>>
      BY <2>0, <2>2 DEF Discard, Ended
    <3>2. EffortOf(call[c], thread'[c], attempt[c], query[c])
              > EffortOf(call[c], thread[c], attempt[c], query[c])
      BY <2>0, <3>1, LoopGains DEF Over
    <3> QED
      BY <1>2, <2>0, <2>1, <3>1, <3>2, OneGains
  <2>3. CASE ~Discard(c)
    <3>1. /\ thread[c] # "none" /\ thread'[c] # "none"
          /\ \/ /\ attempt'[c] = attempt[c]
                /\ Progress(thread'[c], query'[c]) > Progress(thread[c], query[c])
             \/ attempt'[c] = attempt[c] + 1 /\ thread'[c] = "starting"
      <4>0. CASE Refuse(c)
        BY <2>0, <4>0 DEF Refuse, Progress
      <4>1. CASE Begin(c)
        BY <2>0, <4>1 DEF Begin, Progress
      <4>2. CASE Send(c)
        BY <2>0, <4>2 DEF Send, Progress
      <4>3. CASE SendCandidate(c)
        BY <2>0, <4>3 DEF SendCandidate, Progress
      <4>4. CASE Succeed(c)
        BY <2>0, <4>4 DEF Succeed, Progress
      <4>5. CASE Fail(c)
        BY <2>0, <4>5 DEF Fail, Progress
      <4>6. CASE Retry(c)
        BY <2>0, <4>6 DEF Retry
      <4> QED
        BY <1>2, <2>3, <4>0, <4>1, <4>2, <4>3, <4>4, <4>5, <4>6 DEF Work
    <3>2. EffortOf(call[c], thread'[c], attempt'[c], query'[c])
              > EffortOf(call[c], thread[c], attempt[c], query[c])
      BY <2>0, <3>1, ThreadGains
    <3> QED
      BY <1>2, <2>0, <2>1, <3>2, OneGains
  <2> QED
    BY <2>2, <2>3
<1>3. ASSUME IInv, TypeOK', Acquire PROVE Gain
  <2> DEFINE h == Head(queue)
  <2>1. h \in Caller /\ call[h] = "queued" /\ thread[h] = "none" /\ TypeOK
    <3>1. h \in Caller /\ call[h] = "queued"
      BY <1>3, HeadLeaves DEF Acquire, IInv, Waiting, TypeOK, In
    <3> QED
      BY <1>3, <3>1 DEF IInv, Jobs
  <2>2. /\ call' = [call EXCEPT ![h] = "fetching"] /\ thread' = [thread EXCEPT ![h] = "starting"]
        /\ UNCHANGED <<attempt, query>>
    BY <1>3 DEF Acquire
  <2> HIDE DEF h
  <2>3. /\ call'[h] = "fetching" /\ thread'[h] = "starting"
        /\ attempt[h] \in 0 .. MaxRetries /\ query[h] \in 0 .. Candidates
    BY <2>1, <2>2 DEF TypeOK
  <2>4. EffortOf(call'[h], thread'[h], attempt[h], query[h])
            > EffortOf(call[h], thread[h], attempt[h], query[h])
    BY <2>1, <2>3, LoopGains DEF CallState, ThreadState, Over, Ended
  <2> QED
    BY <1>3, <2>1, <2>2, <2>4, OneGains
<1>4. ASSUME IInv, TypeOK', Tick
      PROVE  /\ \A c \in Caller : Effort(c)' >= Effort(c)
             /\ \A c \in Caller : Asleep(c) => delay'[c] = delay[c] - 1
  <2>1. \A c \in Caller : Effort(c)' = Effort(c) /\ Effort(c) \in Nat
    BY <1>4, EffortTypes DEF Tick, Effort, IInv
  <2> QED
    BY <1>4, <2>1 DEF Tick
<1>5. IInv /\ TypeOK' /\ [Next]_vars =>
        [/\ \A c \in Caller : Effort(c)' >= Effort(c)
         /\ \/ \E c \in Caller : Effort(c)' > Effort(c)
            \/ Tick /\ \A c \in Caller : Asleep(c) => delay'[c] = delay[c] - 1]_vars
  BY <1>1, <1>2, <1>3, <1>4 DEF Next
<1> QED
  BY <1>5, Consistency, TypeCorrect, PTL DEF Spec, StepsGain

=============================================================================
