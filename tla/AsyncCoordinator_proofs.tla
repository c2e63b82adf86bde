---------------------- MODULE AsyncCoordinator_proofs ----------------------
(***************************************************************************)
(* Proofs about AsyncCoordinator, for every set of groups, queue size and  *)
(* staleness limit.                                                        *)
(***************************************************************************)
EXTENDS AsyncCoordinator, FiniteSetTheorems, TLAPS

-----------------------------------------------------------------------------
(* The inductive invariant *)

\* The queue holds each group that waits in it, once.
QueueOfGroups ==
  /\ \A g \in Group : group[g] = "queued" => \E i \in DOMAIN queue : queue[i] = g
  /\ \A i \in DOMAIN queue : queue[i] \in Group => group[queue[i]] = "queued"
  /\ \A i, j \in DOMAIN queue : queue[i] = queue[j] => i = j

\* Whatever is behind Closed was put there late.
BehindClosed ==
  /\ \A i, j \in DOMAIN queue : queue[i] = Closed /\ i < j => queue[j] \in late
  /\ \A i \in DOMAIN queue : queue[i] = Closed => closing = "closed"
  /\ consumer = "returned" =>
       /\ closing = "closed"
       /\ \A i \in DOMAIN queue : queue[i] \in late

\* The group run() holds, and the only one that is accepted and not optimized.
Holding ==
  /\ \A g \in Group : behavior[g] <= version
  /\ Busy => /\ current \in Group
             /\ group[current] = "accepted"
  /\ \A g \in Group : group[g] = "accepted" =>
       consumer \in {"compiling", "optimizing", "raised"} /\ g = current

At(state) == {g \in Group : group[g] = state}

\* Each group that is settled was counted, once; the group run() holds, or held
\* when it raised, is counted as accepted only.
Counted ==
  /\ \A k \in {"optimized", "rejected"} : IsFiniteSet(At(k)) /\ stats[k] = Cardinality(At(k))
  /\ stats["accepted"] =
       stats["optimized"] + (IF Busy \/ consumer = "raised" THEN 1 ELSE 0)

IInv == TypeOK /\ QueueOfGroups /\ BehindClosed /\ Holding /\ Counted

-----------------------------------------------------------------------------
LEMMA InitInv == Init => IInv
<1> SUFFICES ASSUME Init PROVE IInv  OBVIOUS
<1> USE ConstantsAssumption DEF Init
<1>1. TypeOK  BY DEF TypeOK, GroupState
<1>2. QueueOfGroups /\ BehindClosed /\ Holding
  BY DEF QueueOfGroups, BehindClosed, Holding, Busy
<1>3. At("optimized") = {} /\ At("rejected") = {}  BY DEF At
<1>4. Counted
  <2>1. /\ stats["accepted"] = 0 /\ stats["rejected"] = 0 /\ stats["optimized"] = 0
        /\ consumer = "waiting"
    BY DEF Counter
  <2>2. \A k \in {"optimized", "rejected"} : IsFiniteSet(At(k)) /\ Cardinality(At(k)) = 0
    BY <1>3, FS_EmptySet
  <2>3. ~Busy /\ consumer # "raised"  BY <2>1 DEF Busy
  <2> QED  BY <2>1, <2>2, <2>3 DEF Counted
<1> QED  BY <1>1, <1>2, <1>4 DEF IInv

LEMMA TypeStep == ASSUME TypeOK, Holding, [Next]_vars PROVE TypeOK'
<1> USE ConstantsAssumption DEF TypeOK, GroupState
<1>0. ASSUME NEW k \in Counter, Count(k) PROVE stats' \in [Counter -> Nat]
  BY <1>0 DEF Count
<1>1. ASSUME NEW g \in Group, Collect(g) PROVE TypeOK'  BY <1>1 DEF Collect
<1>2. ASSUME NEW g \in Group, Submit(g) PROVE TypeOK'  BY <1>2 DEF Submit
<1>3. ASSUME NEW g \in Group, Block(g) PROVE TypeOK'  BY <1>3 DEF Block
<1>4. CASE Close  BY <1>4 DEF Close
<1>5. CASE BlockClose  BY <1>5 DEF BlockClose
<1>6. CASE End  BY <1>6 DEF End
<1>7. CASE Reject
  <2>1. Head(queue) \in Group /\ Tail(queue) \in Seq(Group \cup {Closed})  BY <1>7 DEF Reject
  <2> QED  BY <1>0, <1>7, <2>1 DEF Reject, Counter
<1>8. CASE Accept
  <2>1. Head(queue) \in Group /\ Tail(queue) \in Seq(Group \cup {Closed})  BY <1>8 DEF Accept
  <2>2. Staleness(Head(queue)) \in Nat  BY <2>1 DEF Staleness, Holding
  <2> QED  BY <1>0, <1>8, <2>1, <2>2 DEF Accept, Counter
<1>9. CASE Compiled  BY <1>9 DEF Compiled
<1>10. CASE Optimized
  <2> QED  BY <1>0, <1>10 DEF Optimized, Counter
<1>11. CASE Raise  BY <1>11 DEF Raise
<1>12. CASE UNCHANGED vars  BY <1>12 DEF vars
<1>13. CASE Publish  BY <1>13 DEF Publish
<1> QED
  BY <1>1, <1>2, <1>3, <1>4, <1>5, <1>6, <1>7, <1>8, <1>9, <1>10, <1>11, <1>12, <1>13
  DEF Next, Produce, Consume

\* What a put does to the queue, and what a get does.
LEMMA PutIndices ==
  ASSUME NEW S, NEW s \in Seq(S), NEW e \in S
  PROVE  /\ DOMAIN Append(s, e) = 1 .. Len(s) + 1
         /\ Append(s, e)[Len(s) + 1] = e
         /\ \A i \in DOMAIN s : Append(s, e)[i] = s[i]
OBVIOUS

LEMMA GetIndices ==
  ASSUME NEW S, NEW s \in Seq(S), s # << >>
  PROVE  /\ Head(s) = s[1] /\ 1 \in DOMAIN s
         /\ DOMAIN Tail(s) = 1 .. Len(s) - 1
         /\ \A i \in DOMAIN Tail(s) : i + 1 \in DOMAIN s /\ Tail(s)[i] = s[i + 1]
         /\ \A i \in DOMAIN s \ {1} : i - 1 \in DOMAIN Tail(s) /\ Tail(s)[i - 1] = s[i]
OBVIOUS

LEMMA QueueStep ==
  ASSUME TypeOK, QueueOfGroups, BehindClosed, Holding, [Next]_vars
  PROVE  QueueOfGroups' /\ BehindClosed'
<1> USE ConstantsAssumption
<1> DEFINE S == Group \cup {Closed}
<1>0. /\ queue \in Seq(S) /\ DOMAIN queue = 1 .. Len(queue) /\ Len(queue) \in Nat
      /\ group \in [Group -> GroupState]
      /\ late \subseteq Group
      /\ \A i \in DOMAIN queue : queue[i] \in S
  BY DEF TypeOK
<1> HIDE DEF S
<1>1. ASSUME NEW g \in Group, Collect(g) PROVE QueueOfGroups' /\ BehindClosed'
  BY <1>1, <1>0 DEF Collect, QueueOfGroups, BehindClosed
<1>2. ASSUME NEW g \in Group, Submit(g) PROVE QueueOfGroups' /\ BehindClosed'
  <2>1. /\ DOMAIN queue' = 1 .. Len(queue) + 1
        /\ queue'[Len(queue) + 1] = g
        /\ \A i \in DOMAIN queue : queue'[i] = queue[i]
    BY <1>2, <1>0, PutIndices DEF Submit, S
  <2>2. \A i \in DOMAIN queue : queue[i] # g
    BY <1>2, <1>0 DEF Submit, QueueOfGroups
  <2>3. QueueOfGroups'
    BY <1>2, <1>0, <2>1, <2>2 DEF Submit, QueueOfGroups
  <2>4. BehindClosed'
    BY <1>2, <1>0, <2>1, <2>2 DEF Submit, BehindClosed
  <2> QED  BY <2>3, <2>4
<1>3. ASSUME NEW g \in Group, Block(g) PROVE QueueOfGroups' /\ BehindClosed'
  BY <1>3, <1>0 DEF Block, QueueOfGroups, BehindClosed
<1>4. CASE Close
  <2>1. /\ DOMAIN queue' = 1 .. Len(queue) + 1
        /\ queue'[Len(queue) + 1] = Closed
        /\ \A i \in DOMAIN queue : queue'[i] = queue[i]
    BY <1>4, <1>0, PutIndices DEF Close, S
  <2>2. \A i \in DOMAIN queue : queue[i] # Closed
    BY <1>4, <1>0 DEF Close, BehindClosed
  <2>3. consumer # "returned"  BY <1>4 DEF Close, BehindClosed
  <2>4. QueueOfGroups'
    BY <1>4, <1>0, <2>1, <2>2 DEF Close, QueueOfGroups
  <2>5. BehindClosed'
    BY <1>4, <1>0, <2>1, <2>2, <2>3 DEF Close, BehindClosed
  <2> QED  BY <2>4, <2>5
<1>5. CASE BlockClose  BY <1>5 DEF BlockClose, QueueOfGroups, BehindClosed
<1>6. ASSUME queue # << >>, queue' = Tail(queue), consumer = "waiting",
             UNCHANGED << closing, late >>,
             \/ Head(queue) = Closed /\ UNCHANGED group /\ consumer' = "returned"
             \/ /\ Head(queue) # Closed /\ consumer' # "returned"
                /\ \E s \in {"rejected", "accepted"} :
                     group' = [group EXCEPT ![Head(queue)] = s]
      PROVE  QueueOfGroups' /\ BehindClosed'
  <2>1. /\ Head(queue) = queue[1] /\ 1 \in DOMAIN queue
        /\ DOMAIN queue' = 1 .. Len(queue) - 1
        /\ \A i \in DOMAIN queue' : i + 1 \in DOMAIN queue /\ queue'[i] = queue[i + 1]
        /\ \A i \in DOMAIN queue \ {1} : i - 1 \in DOMAIN queue' /\ queue'[i - 1] = queue[i]
    BY <1>6, <1>0, GetIndices
  <2>2. \A i \in DOMAIN queue' : queue'[i] # queue[1]
    BY <1>0, <2>1 DEF QueueOfGroups
  <2>3. QueueOfGroups'
    <3>1. ASSUME NEW g \in Group, group'[g] = "queued" PROVE \E i \in DOMAIN queue' : queue'[i] = g
      <4>1. group[g] = "queued" /\ g # queue[1]  BY <1>6, <1>0, <2>1, <3>1
      <4>2. PICK i \in DOMAIN queue : queue[i] = g  BY <4>1 DEF QueueOfGroups
      <4> QED  BY <4>1, <4>2, <2>1
    <3>2. ASSUME NEW i \in DOMAIN queue', queue'[i] \in Group PROVE group'[queue'[i]] = "queued"
      <4>1. group[queue'[i]] = "queued"  BY <2>1, <3>2 DEF QueueOfGroups
      <4>2. queue'[i] # Head(queue)  BY <2>1, <2>2
      <4> QED  BY <1>6, <1>0, <4>1, <4>2, <3>2
    <3>3. \A i, j \in DOMAIN queue' : queue'[i] = queue'[j] => i = j
      BY <1>0, <2>1 DEF QueueOfGroups
    <3> QED  BY <3>1, <3>2, <3>3 DEF QueueOfGroups
  <2>4. BehindClosed'
    <3>1. \A i, j \in DOMAIN queue' : queue'[i] = Closed /\ i < j => queue'[j] \in late'
      BY <1>6, <1>0, <2>1 DEF BehindClosed
    <3>2. \A i \in DOMAIN queue' : queue'[i] = Closed => closing' = "closed"
      BY <1>6, <2>1 DEF BehindClosed
    <3>3. ASSUME consumer' = "returned"
          PROVE  closing' = "closed" /\ \A i \in DOMAIN queue' : queue'[i] \in late'
      <4>1. queue[1] = Closed  BY <1>6, <2>1, <3>3
      <4>2. closing = "closed"  BY <4>1, <2>1 DEF BehindClosed
      <4>3. \A i \in DOMAIN queue' : 1 < i + 1  BY <2>1, <1>0
      <4> QED  BY <1>6, <4>1, <4>2, <4>3, <2>1 DEF BehindClosed
    <3> QED  BY <3>1, <3>2, <3>3 DEF BehindClosed
  <2> QED  BY <2>3, <2>4
<1>7. CASE End  BY <1>6, <1>7 DEF End
<1>8. CASE Reject  BY <1>6, <1>8 DEF Reject
<1>9. CASE Accept  BY <1>6, <1>9 DEF Accept
<1>10. CASE Compiled
  BY <1>10 DEF Compiled, QueueOfGroups, BehindClosed
<1>11. CASE Optimized
  <2>1. current \in Group /\ group[current] = "accepted"  BY <1>11 DEF Optimized, Holding, Busy
  <2>2. \A g \in Group : group'[g] = "queued" <=> group[g] = "queued"
    BY <1>11, <1>0, <2>1 DEF Optimized
  <2> QED  BY <1>11, <2>2 DEF Optimized, QueueOfGroups, BehindClosed
<1>12. CASE Raise  BY <1>12 DEF Raise, QueueOfGroups, BehindClosed
<1>13. CASE UNCHANGED vars  BY <1>13 DEF vars, QueueOfGroups, BehindClosed
<1>14. CASE Publish  BY <1>14 DEF Publish, QueueOfGroups, BehindClosed
<1> QED
  BY <1>1, <1>2, <1>3, <1>4, <1>5, <1>7, <1>8, <1>9, <1>10, <1>11, <1>12, <1>13, <1>14
  DEF Next, Produce, Consume

LEMMA HoldingStep ==
  ASSUME TypeOK, Holding, QueueOfGroups, [Next]_vars PROVE Holding'
<1> USE ConstantsAssumption DEF Holding, Busy
<1>0. /\ version \in Nat /\ behavior \in [Group -> Nat]
      /\ group \in [Group -> GroupState]
      /\ consumer \in {"waiting", "compiling", "optimizing", "returned", "raised"}
  BY DEF TypeOK
<1>1. ASSUME NEW g \in Group, Collect(g) PROVE Holding'  BY <1>1, <1>0 DEF Collect
<1>2. ASSUME NEW g \in Group, Submit(g) PROVE Holding'  BY <1>2, <1>0 DEF Submit
<1>3. ASSUME NEW g \in Group, Block(g) PROVE Holding'  BY <1>3, <1>0 DEF Block
<1>4. CASE Close  BY <1>4 DEF Close
<1>5. CASE BlockClose  BY <1>5 DEF BlockClose
<1>6. CASE End  BY <1>6 DEF End
<1>7. CASE Reject
  <2>1. Head(queue) \in Group  BY <1>7 DEF Reject, TypeOK
  <2> QED  BY <1>7, <1>0, <2>1 DEF Reject
<1>8. CASE Accept
  <2>1. Head(queue) \in Group  BY <1>8 DEF Accept, TypeOK
  <2> QED  BY <1>8, <1>0, <2>1 DEF Accept
<1>9. CASE Compiled  BY <1>9 DEF Compiled
<1>10. CASE Optimized  BY <1>10, <1>0 DEF Optimized
<1>11. CASE Raise  BY <1>11 DEF Raise
<1>12. CASE UNCHANGED vars  BY <1>12 DEF vars
<1>13. CASE Publish  BY <1>13, <1>0 DEF Publish
<1> QED
  BY <1>1, <1>2, <1>3, <1>4, <1>5, <1>6, <1>7, <1>8, <1>9, <1>10, <1>11, <1>12, <1>13
  DEF Next, Produce, Consume

LEMMA CountedStep ==
  ASSUME TypeOK, Holding, QueueOfGroups, Counted, [Next]_vars PROVE Counted'
<1> USE ConstantsAssumption
<1>0. /\ group \in [Group -> GroupState] /\ stats \in [Counter -> Nat]
      /\ stats["accepted"] \in Nat /\ stats["rejected"] \in Nat /\ stats["optimized"] \in Nat
      /\ consumer \in {"waiting", "compiling", "optimizing", "returned", "raised"}
  BY DEF TypeOK, Counter
<1>1. ASSUME NEW g \in Group, NEW k \in {"optimized", "rejected"}, group[g] # k,
             group' = [group EXCEPT ![g] = k]
      PROVE  IsFiniteSet(At(k)') /\ Cardinality(At(k)') = Cardinality(At(k)) + 1
  <2>1. At(k)' = At(k) \cup {g} /\ g \notin At(k)  BY <1>0, <1>1 DEF At
  <2> QED  BY <1>1, <2>1, FS_AddElement DEF Counted
<1>2. ASSUME NEW k \in {"optimized", "rejected"},
             \A g \in Group : group'[g] = k <=> group[g] = k
      PROVE  At(k)' = At(k)
  BY <1>2 DEF At
<1>3. CASE Optimized
  <2>1. current \in Group /\ group[current] = "accepted"  BY <1>3 DEF Optimized, Holding, Busy
  <2>2. /\ IsFiniteSet(At("optimized")')
        /\ Cardinality(At("optimized")') = Cardinality(At("optimized")) + 1
    BY <1>1, <1>3, <2>1 DEF Optimized
  <2>3. At("rejected")' = At("rejected")  BY <1>0, <1>2, <1>3, <2>1 DEF Optimized
  <2>4. /\ stats'["optimized"] = stats["optimized"] + 1
        /\ stats'["accepted"] = stats["accepted"] /\ stats'["rejected"] = stats["rejected"]
    <3>1. stats' = [stats EXCEPT !["optimized"] = @ + 1]  BY <1>3 DEF Optimized, Count
    <3> QED  BY <1>0, <3>1 DEF Counter
  <2>5. stats'["optimized"] = Cardinality(At("optimized")')  BY <2>2, <2>4 DEF Counted
  <2>6. stats'["accepted"] = stats'["optimized"] /\ ~Busy' /\ consumer' # "raised"
    BY <1>0, <1>3, <2>4 DEF Optimized, Counted, Busy
  <2> QED  BY <1>0, <2>2, <2>3, <2>4, <2>5, <2>6 DEF Counted
<1>4. CASE Reject \/ Accept
  <2> DEFINE h == Head(queue)
  <2>1. h \in Group /\ group[h] = "queued" /\ consumer = "waiting"
    <3>1. h \in Group /\ 1 \in DOMAIN queue /\ h = queue[1] /\ consumer = "waiting"
      BY <1>4 DEF Reject, Accept, TypeOK
    <3> QED  BY <3>1 DEF QueueOfGroups
  <2>2. CASE Reject
    <3>1. group' = [group EXCEPT ![h] = "rejected"] /\ Count("rejected") /\ consumer' = "waiting"
      BY <2>1, <2>2 DEF Reject
    <3> HIDE DEF h
    <3>2. IsFiniteSet(At("rejected")') /\ Cardinality(At("rejected")') = Cardinality(At("rejected")) + 1
      BY <1>1, <2>1, <3>1
    <3>3. At("optimized")' = At("optimized")  BY <1>0, <1>2, <2>1, <3>1
    <3>4. /\ stats'["rejected"] = stats["rejected"] + 1
          /\ stats'["accepted"] = stats["accepted"] /\ stats'["optimized"] = stats["optimized"]
      BY <1>0, <3>1 DEF Count, Counter
    <3>5. stats'["rejected"] = Cardinality(At("rejected")')  BY <3>2, <3>4 DEF Counted
    <3> QED  BY <1>0, <2>1, <3>1, <3>2, <3>3, <3>4, <3>5 DEF Counted, Busy
  <2>3. CASE Accept
    <3>1. group' = [group EXCEPT ![h] = "accepted"] /\ Count("accepted") /\ consumer' = "compiling"
      BY <2>1, <2>3 DEF Accept
    <3> HIDE DEF h
    <3>2. At("optimized")' = At("optimized") /\ At("rejected")' = At("rejected")
      BY <1>0, <1>2, <2>1, <3>1
    <3>3. /\ stats'["accepted"] = stats["accepted"] + 1
          /\ stats'["rejected"] = stats["rejected"] /\ stats'["optimized"] = stats["optimized"]
      BY <1>0, <3>1 DEF Count, Counter
    <3> QED  BY <1>0, <2>1, <3>1, <3>2, <3>3 DEF Counted, Busy
  <2> QED  BY <1>4, <2>2, <2>3
<1>5. ASSUME UNCHANGED stats, (Busy \/ consumer = "raised")' <=> (Busy \/ consumer = "raised"),
             \A k \in {"optimized", "rejected"}, g \in Group : group'[g] = k <=> group[g] = k
      PROVE  Counted'
  <2>1. \A k \in {"optimized", "rejected"} : At(k)' = At(k)  BY <1>2, <1>5
  <2> QED  BY <1>5, <2>1 DEF Counted
<1>6. ASSUME NEW g \in Group, Produce(g) PROVE Counted'
  BY <1>0, <1>5, <1>6 DEF Produce, Collect, Submit, Block, Busy
<1>7. CASE Publish \/ Close \/ BlockClose \/ End \/ Compiled \/ Raise \/ UNCHANGED vars
  BY <1>5, <1>7 DEF Publish, Close, BlockClose, End, Compiled, Raise, vars, Busy
<1> QED
  BY <1>3, <1>4, <1>6, <1>7 DEF Next, Consume

-----------------------------------------------------------------------------
\* The invariant that run() and the queue keep in every state: every group is
\* where it says it is, once, and what is behind Closed came late.
THEOREM Consistency == Spec => []IInv
<1>1. Init => IInv  BY InitInv
<1>2. IInv /\ [Next]_vars => IInv'
  BY TypeStep, QueueStep, HoldingStep, CountedStep DEF IInv
<1> QED  BY <1>1, <1>2, PTL DEF Spec

\* The variables hold what coordinator.py lets them hold, and the staleness
\* written into a group is never negative.
THEOREM TypeCorrect == Spec => []TypeOK
<1>1. IInv => TypeOK  BY DEF IInv
<1> QED  BY <1>1, Consistency, PTL

\* When run() has returned, what was queued before close() is settled, and its
\* counters say how (coordinator.py:49-65).
THEOREM GracefulEnd == Spec => []NothingLost
<1>1. ASSUME IInv, consumer = "returned", NEW g \in Group, group[g] \in {"queued", "accepted"}
      PROVE  g \in late
  <2>1. group[g] = "queued"  BY <1>1 DEF IInv, Holding
  <2> QED  BY <1>1, <2>1 DEF IInv, QueueOfGroups, BehindClosed
<1>2. ASSUME IInv, consumer = "returned"
      PROVE  /\ stats["accepted"] = stats["optimized"]
             /\ stats["optimized"] = Cardinality(At("optimized"))
             /\ stats["rejected"] = Cardinality(At("rejected"))
  <2>1. stats["optimized"] \in Nat  BY <1>2 DEF IInv, TypeOK, Counter
  <2> QED  BY <1>2, <2>1 DEF IInv, Counted, Busy
<1>3. IInv => NothingLost  BY <1>1, <1>2 DEF NothingLost, At
<1> QED  BY <1>3, Consistency, PTL

-----------------------------------------------------------------------------
(* The queue is run down *)

ConsumerCanMove == Busy \/ (consumer = "waiting" /\ queue # << >>)

\* As long as run() has not ended, a put that waits has room or run() can make
\* some, and in a queue that is closed there is something for run() to take
\* (coordinator.py:44-65).
GoesOn ==
  ~Ended =>
    /\ (\E g \in Group : group[g] = "blocked") \/ closing = "blocked" => ~Full \/ ConsumerCanMove
    /\ closing = "closed" => ConsumerCanMove

\* Closed stays in the queue until run() returns on it.
ClosedIsMet ==
  closing = "closed" /\ consumer # "returned" => \E i \in DOMAIN queue : queue[i] = Closed

\* The steps of run() until it takes what is at place i of the queue, and one
\* that takes it: a group costs three at most.
Turns(i, stage) ==
  CASE stage = "compiling"  -> 3 * i + 2
    [] stage = "optimizing" -> 3 * i + 1
    [] OTHER                -> 3 * i

\* Nothing in the queue is overtaken, whoever puts and closes, and each step of
\* run() brings it nearer to its turn (coordinator.py:44-65).
TurnsCome ==
  [][\A i \in DOMAIN queue :
       \/ i = 1 /\ Consume /\ consumer = "waiting"
       \/ \E j \in 1 .. i :
            /\ j \in DOMAIN queue' /\ queue'[j] = queue[i]
            /\ Consume => Turns(j, consumer') < Turns(i, consumer)]_vars

LEMMA Places ==
  ASSUME TypeOK
  PROVE  queue \in Seq(Group \cup {Closed}) /\ DOMAIN queue = 1 .. Len(queue) /\ Len(queue) \in Nat
BY DEF TypeOK

\* What each step does to whatever is in the queue.
LEMMA TurnsStep ==
  ASSUME IInv, [Next]_vars, NEW i \in DOMAIN queue
  PROVE  \/ i = 1 /\ (End \/ Reject \/ Accept)
         \/ \E j \in 1 .. i :
              /\ j \in DOMAIN queue' /\ queue'[j] = queue[i]
              /\ Consume => Turns(j, consumer') < Turns(i, consumer)
<1> USE ConstantsAssumption
<1>0. /\ queue \in Seq(Group \cup {Closed}) /\ DOMAIN queue = 1 .. Len(queue)
      /\ Len(queue) \in Nat /\ i \in Nat /\ i \in 1 .. i
      /\ Closed \in Group \cup {Closed}
  BY Places DEF IInv
<1>1. ASSUME queue' = queue, Consume => Turns(i, consumer') < Turns(i, consumer)
      PROVE  \E j \in 1 .. i :
               /\ j \in DOMAIN queue' /\ queue'[j] = queue[i]
               /\ Consume => Turns(j, consumer') < Turns(i, consumer)
  BY <1>0, <1>1
<1>2. ASSUME NEW e \in Group \cup {Closed}, queue' = Append(queue, e), ~Consume
      PROVE  \E j \in 1 .. i :
               /\ j \in DOMAIN queue' /\ queue'[j] = queue[i]
               /\ Consume => Turns(j, consumer') < Turns(i, consumer)
  <2>1. i \in DOMAIN queue' /\ queue'[i] = queue[i]
    BY <1>0, <1>2, PutIndices
  <2> QED  BY <1>0, <1>2, <2>1
<1>3. CASE End \/ Reject \/ Accept
  <2>1. queue # << >> /\ queue' = Tail(queue)  BY <1>3 DEF End, Reject, Accept
  <2>2. CASE i = 1  BY <1>3, <2>2
  <2>3. CASE i # 1
    <3>1. i - 1 \in DOMAIN queue' /\ queue'[i - 1] = queue[i] /\ i - 1 \in 1 .. i
      BY <1>0, <2>1, <2>3, GetIndices
    <3>2. consumer = "waiting" /\ consumer' \in {"waiting", "compiling", "returned"}
      BY <1>3 DEF End, Reject, Accept
    <3>3. Turns(i - 1, consumer') < Turns(i, consumer)
      BY <1>0, <3>2 DEF Turns
    <3> QED  BY <3>1, <3>3
  <2> QED  BY <2>2, <2>3
<1>4. CASE Compiled
  BY <1>0, <1>1, <1>4 DEF Compiled, Turns
<1>5. CASE Optimized
  BY <1>0, <1>1, <1>5 DEF Optimized, Turns
<1>6. CASE ~Consume
  <2>1. ASSUME NEW g \in Group, Submit(g)
        PROVE  \E e \in Group \cup {Closed} : queue' = Append(queue, e)
    BY <2>1 DEF Submit
  <2>2. CASE Close  BY <1>2, <1>6, <2>2 DEF Close
  <2>3. ASSUME NEW g \in Group, Collect(g) \/ Block(g) PROVE queue' = queue
    BY <2>3 DEF Collect, Block
  <2>4. CASE Publish \/ BlockClose \/ Raise \/ UNCHANGED vars
    BY <1>1, <1>6, <2>4 DEF Publish, BlockClose, Raise, vars
  <2> QED  BY <1>1, <1>2, <1>6, <2>1, <2>2, <2>3, <2>4 DEF Next, Produce
<1> QED  BY <1>3, <1>4, <1>5, <1>6 DEF Consume

LEMMA ClosedIsMetStep ==
  ASSUME IInv, ClosedIsMet, [Next]_vars PROVE ClosedIsMet'
<1> SUFFICES ASSUME closing' = "closed", consumer' # "returned"
             PROVE  \E i \in DOMAIN queue' : queue'[i] = Closed
  BY DEF ClosedIsMet
<1>0. queue \in Seq(Group \cup {Closed}) /\ Len(queue) \in Nat
  BY Places DEF IInv
<1>1. CASE Close
  BY <1>0, <1>1, PutIndices DEF Close
<1>2. CASE ~Close
  <2>1. closing = "closed" /\ consumer # "returned"
    BY <1>2 DEF Next, Produce, Consume, Publish, Collect, Submit, Block, BlockClose, End, Reject, Accept,
       Compiled, Optimized, Raise, vars
  <2>2. PICK i \in DOMAIN queue : queue[i] = Closed  BY <2>1 DEF ClosedIsMet
  <2>3. ~(i = 1 /\ (End \/ Reject \/ Accept))
    BY <1>0, <2>2 DEF End, Reject, Accept
  <2> QED  BY <2>2, <2>3, TurnsStep
<1> QED  BY <1>1, <1>2

\* Neither a put nor a close() waits for a run() that waits for them.
THEOREM NeverStuck == Spec => []GoesOn
<1>1. Init => ClosedIsMet  BY DEF Init, ClosedIsMet
<1>2. IInv /\ ClosedIsMet => GoesOn
  <2> SUFFICES ASSUME IInv, ClosedIsMet, ~Ended
               PROVE  /\ ~Full \/ ConsumerCanMove
                      /\ closing = "closed" => ConsumerCanMove
    BY DEF GoesOn
  <2>1. Busy \/ consumer = "waiting"  BY DEF IInv, TypeOK, Ended, Busy
  <2>2. Full => queue # << >>
    BY ConstantsAssumption, Places DEF Full, IInv
  <2>3. closing = "closed" => queue # << >>
    <3> SUFFICES ASSUME closing = "closed" PROVE queue # << >>  OBVIOUS
    <3>1. consumer # "returned"  BY DEF Ended
    <3>2. PICK i \in DOMAIN queue : queue[i] = Closed  BY <3>1 DEF ClosedIsMet
    <3> QED  BY <3>2
  <2> QED  BY <2>1, <2>2, <2>3 DEF ConsumerCanMove
<1> QED  BY <1>1, <1>2, ClosedIsMetStep, Consistency, PTL DEF Spec

\* The queue is first in, first out, and run() goes through it.
THEOREM TakesInTurn == Spec => TurnsCome
<1>1. ASSUME IInv, [Next]_vars, NEW i \in DOMAIN queue
      PROVE  \/ i = 1 /\ Consume /\ consumer = "waiting"
             \/ \E j \in 1 .. i :
                  /\ j \in DOMAIN queue' /\ queue'[j] = queue[i]
                  /\ Consume => Turns(j, consumer') < Turns(i, consumer)
  <2>1. CASE i = 1 /\ (End \/ Reject \/ Accept)
    BY <2>1 DEF End, Reject, Accept, Consume
  <2> QED  BY <1>1, <2>1, TurnsStep
<1>2. IInv /\ [Next]_vars =>
        [\A i \in DOMAIN queue :
           \/ i = 1 /\ Consume /\ consumer = "waiting"
           \/ \E j \in 1 .. i :
                /\ j \in DOMAIN queue' /\ queue'[j] = queue[i]
                /\ Consume => Turns(j, consumer') < Turns(i, consumer)]_vars
  BY <1>1
<1> QED  BY <1>2, Consistency, PTL DEF Spec, TurnsCome

=============================================================================
