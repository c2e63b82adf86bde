----------------------- MODULE RoundCollection_proofs -----------------------
(***************************************************************************)
(* Proofs about RoundCollection, for any number of groups, rollouts,       *)
(* slots, branches and attempts.                                           *)
(***************************************************************************)
EXTENDS RoundCollection, FiniteSetTheorems, WellFoundedInduction, TLAPS

-----------------------------------------------------------------------------
(* The inductive invariant *)

\* Only a rollout that runs has generations that are waited for.
Awaited == \A r \in Rollout : tree[r] # "running" => call[r] = Quiet

\* How far the rollouts of a group can be.
GroupsAndTrees ==
    \A r \in Rollout :
        /\ group[r[1]] = "waiting" => tree[r] = "idle"
        /\ group[r[1]] = "written" => Settled(r)

Phases ==
    /\ phase \in {"frozen", "training", "trained"} => \A g \in Group : group[g] = "written"
    /\ phase \in {"training", "trained"} => \A r \in Rollout : tree[r] = "complete"
    /\ phase = "cancelling" => Unfinished = {}

\* A thread that nobody waits for was left by a rollout that this attempt gave
\* up, or by an attempt that was given up with such a rollout.
StraysHaveCauses ==
    \A s \in Slot : StraysIn(s) =>
        excused # {} \/ \E r \in Rollout : tree[r] \in {"incomplete", "cancelled"}

IInv ==
    TypeOK /\ SlotExclusive /\ Awaited /\ GroupsAndTrees /\ Phases /\ StraysHaveCauses

-----------------------------------------------------------------------------
(* Data *)

LEMMA Remainder ==
    ASSUME NEW a \in Nat, NEW b \in Nat, b > 0
    PROVE  a % b \in 0 .. b - 1
OBVIOUS

LEMMA Products ==
    ASSUME NEW a \in Nat, NEW b \in Nat
    PROVE  a * b \in Nat
OBVIOUS

LEMMA Places ==
    /\ Group \subseteq Nat
    /\ \A r \in Rollout : r[1] \in Group /\ SlotOf(r) \in Slot
    /\ \A g \in Group : \A r \in Rollout : r \in RolloutsOf(g) <=> r[1] = g
<1>1. Group \subseteq Nat  BY ConstantsAssumption DEF Group
<1>2. ASSUME NEW r \in Rollout PROVE r[1] \in Group /\ SlotOf(r) \in Slot
  <2>1. r[1] \in Group /\ r[2] \in 0 .. GroupSize - 1  BY DEF Rollout
  <2>2. r[1] \in Nat /\ r[2] \in Nat /\ GroupSize \in Nat /\ Slots \in Nat /\ Slots > 0
    <3>1. GroupSize \in Nat /\ Slots \in Nat /\ Slots > 0  BY ConstantsAssumption
    <3>2. r[2] \in Nat  BY <2>1, <3>1
    <3> QED  BY <1>1, <2>1, <3>1, <3>2
  <2>3. r[1] * GroupSize \in Nat  BY <2>2, Products
  <2>4. r[1] * GroupSize + r[2] \in Nat  BY <2>2, <2>3
  <2>5. SlotOf(r) \in 0 .. Slots - 1  BY <2>2, <2>4, Remainder DEF SlotOf
  <2> QED  BY <2>1, <2>5 DEF Slot
<1> QED  BY <1>1, <1>2 DEF RolloutsOf

LEMMA QuietCalls ==
    /\ Quiet \in [Branch -> {"none"} \cup Pending]
    /\ \A b \in Branch : Quiet[b] = "none"
    /\ "blocked" \in Pending /\ "generating" \in Pending /\ "none" \notin Pending
    /\ 1 \in Branch
BY ConstantsAssumption DEF Quiet, Pending, Branch

LEMMA FiniteCalls == IsFiniteSet(Rollout \X Branch)
<1>1. IsFiniteSet(Group)  BY ConstantsAssumption, FS_Interval DEF Group
<1>2. IsFiniteSet(0 .. GroupSize - 1)  BY ConstantsAssumption, FS_Interval
<1>3. IsFiniteSet(Rollout)  BY <1>1, <1>2, FS_Product DEF Rollout
<1>4. IsFiniteSet(Branch)
  <2>1. Branches \in Int /\ 1 \in Int  BY ConstantsAssumption
  <2> QED  BY <2>1, FS_Interval DEF Branch
<1> QED  BY <1>3, <1>4, FS_Product

LEMMA InitInv == Init => IInv
<1> SUFFICES ASSUME Init PROVE IInv  OBVIOUS
<1> USE DEF Init
<1>1. TypeOK
  <2>1. attempt \in 1 .. MaxAttempts  BY ConstantsAssumption
  <2>2. phase \in Phase /\ group \in [Group -> GroupState] /\ tree \in [Rollout -> TreeState]
    BY DEF Phase, GroupState, TreeState
  <2>3. call \in [Rollout -> [Branch -> {"none"} \cup Pending]]  BY QuietCalls
  <2>4. strays \in [Slot -> [blocked : Nat, generating : BOOLEAN]]
    <3>1. [blocked |-> 0, generating |-> FALSE] \in [blocked : Nat, generating : BOOLEAN]
      OBVIOUS
    <3> QED  BY <3>1
  <2> QED  BY <2>1, <2>2, <2>3, <2>4 DEF TypeOK
<1>2. SlotExclusive  BY QuietCalls DEF SlotExclusive
<1>3. Awaited /\ GroupsAndTrees  BY Places DEF Awaited, GroupsAndTrees
<1>4. Phases  BY DEF Phases
<1>5. StraysHaveCauses  BY DEF StraysHaveCauses, StraysIn
<1> QED  BY <1>1, <1>2, <1>3, <1>4, <1>5 DEF IInv

-----------------------------------------------------------------------------
(* One call changes *)

LEMMA CallChanges ==
    ASSUME IInv, NEW r \in Rollout, NEW b \in Branch, NEW v \in {"none"} \cup Pending,
           tree[r] = "running", call' = [call EXCEPT ![r][b] = v],
           v = "generating" => LockFree(SlotOf(r)),
           turns' \in [Rollout -> Nat], UNCHANGED <<attempt, phase, group, tree, strays, excused>>
    PROVE  IInv'
<1>1. call \in [Rollout -> [Branch -> {"none"} \cup Pending]]  BY DEF IInv, TypeOK
<1>2. /\ call' \in [Rollout -> [Branch -> {"none"} \cup Pending]]
      /\ call'[r][b] = v
      /\ \A q \in Rollout \X Branch : q # <<r, b>> => call'[q[1]][q[2]] = call[q[1]][q[2]]
      /\ \A q \in Rollout : q # r => call'[q] = call[q]
  BY <1>1
<1>3. TypeOK'  BY <1>2 DEF IInv, TypeOK
<1>4. SlotExclusive'
  <2> SUFFICES ASSUME NEW p \in Rollout \X Branch, NEW q \in Rollout \X Branch,
                      call'[p[1]][p[2]] = "generating", call'[q[1]][q[2]] = "generating",
                      SlotOf(p[1]) = SlotOf(q[1])
               PROVE  p = q /\ ~strays[SlotOf(p[1])].generating
    BY DEF SlotExclusive
  <2>1. CASE p = <<r, b>> /\ q = <<r, b>>
    BY <2>1, <1>2, QuietCalls DEF LockFree
  <2>2. CASE p = <<r, b>> /\ q # <<r, b>>
    <3>1. call[q[1]][q[2]] = "generating" /\ LockFree(SlotOf(r))  BY <2>2, <1>2
    <3> QED  BY <2>2, <3>1 DEF LockFree
  <2>3. CASE p # <<r, b>> /\ q = <<r, b>>
    <3>1. call[p[1]][p[2]] = "generating" /\ LockFree(SlotOf(r))  BY <2>3, <1>2
    <3> QED  BY <2>3, <3>1 DEF LockFree
  <2>4. CASE p # <<r, b>> /\ q # <<r, b>>
    BY <2>4, <1>2 DEF IInv, SlotExclusive
  <2> QED  BY <2>1, <2>2, <2>3, <2>4
<1>5. Awaited'  BY <1>2 DEF IInv, Awaited
<1>6. GroupsAndTrees' /\ Phases' /\ StraysHaveCauses'
  BY DEF IInv, GroupsAndTrees, Settled, Phases, Unfinished, StraysHaveCauses, StraysIn
<1> QED  BY <1>3, <1>4, <1>5, <1>6 DEF IInv

\* A rollout with a call under way runs.
LEMMA CallersRun ==
    ASSUME IInv, NEW r \in Rollout, NEW b \in Branch, call[r][b] # "none"
    PROVE  tree[r] = "running"
BY QuietCalls DEF IInv, Awaited

LEMMA CallStep ==
    ASSUME IInv, NEW r \in Rollout, NEW b \in Branch,
           Submit(r, b) \/ TakeLock(r, b) \/ Generated(r, b)
    PROVE  IInv'
<1>0. turns \in [Rollout -> Nat]  BY DEF IInv, TypeOK
<1>1. CASE Submit(r, b)
  BY <1>0, <1>1, QuietCalls, CallChanges DEF Submit
<1>2. CASE TakeLock(r, b)
  <2>1. tree[r] = "running"  BY <1>2, CallersRun DEF TakeLock
  <2> QED  BY <1>0, <1>2, <2>1, QuietCalls, CallChanges DEF TakeLock
<1>3. CASE Generated(r, b)
  <2>1. tree[r] = "running"  BY <1>3, CallersRun DEF Generated
  <2>2. turns' \in [Rollout -> Nat]
    <3>1. turns[r] + 1 \in Nat  BY <1>0
    <3> QED  BY <1>0, <1>3, <3>1 DEF Generated
  <2> QED  BY <1>3, <2>1, <2>2, QuietCalls, CallChanges DEF Generated
<1> QED  BY <1>1, <1>2, <1>3

\* A thread nobody waits for gets the lock, or ends.
LEMMA StrayStep ==
    ASSUME IInv, NEW s \in Slot, StrayTakesLock(s) \/ StrayEnds(s) PROVE IInv'
<1>1. strays \in [Slot -> [blocked : Nat, generating : BOOLEAN]]  BY DEF IInv, TypeOK
<1>2. /\ strays' \in [Slot -> [blocked : Nat, generating : BOOLEAN]]
      /\ StraysIn(s)
      /\ strays'[s].generating => LockFree(s)
      /\ \A t \in Slot : t # s => strays'[t] = strays[t]
      /\ UNCHANGED <<attempt, phase, group, tree, call, turns, excused>>
  <2>1. CASE StrayTakesLock(s)
    <3>1. strays[s].blocked - 1 \in Nat  BY <1>1, <2>1 DEF StrayTakesLock
    <3>2. [blocked |-> strays[s].blocked - 1, generating |-> TRUE]
            \in [blocked : Nat, generating : BOOLEAN]
      BY <3>1
    <3>3. strays' = [strays EXCEPT ![s] =
                       [blocked |-> strays[s].blocked - 1, generating |-> TRUE]]
      BY <1>1, <2>1 DEF StrayTakesLock
    <3> QED  BY <1>1, <2>1, <3>2, <3>3 DEF StrayTakesLock, StraysIn
  <2>2. CASE StrayEnds(s)
    <3>1. FALSE \in BOOLEAN  OBVIOUS
    <3>2. [strays[s] EXCEPT !.generating = FALSE] \in [blocked : Nat, generating : BOOLEAN]
          /\ ~[strays[s] EXCEPT !.generating = FALSE].generating
      BY <1>1
    <3>3. strays' = [strays EXCEPT ![s] = [strays[s] EXCEPT !.generating = FALSE]]
      BY <1>1, <2>2 DEF StrayEnds
    <3> QED  BY <1>1, <2>2, <3>2, <3>3 DEF StrayEnds, StraysIn
  <2> QED  BY <2>1, <2>2
<1>3. TypeOK'  BY <1>2 DEF IInv, TypeOK
<1>4. SlotExclusive'
  <2> SUFFICES ASSUME NEW p \in Rollout \X Branch, NEW q \in Rollout \X Branch,
                      call[p[1]][p[2]] = "generating", call[q[1]][q[2]] = "generating",
                      SlotOf(p[1]) = SlotOf(q[1])
               PROVE  p = q /\ ~strays'[SlotOf(p[1])].generating
    BY <1>2 DEF SlotExclusive
  <2>1. p = q /\ ~strays[SlotOf(p[1])].generating  BY DEF IInv, SlotExclusive
  <2>2. SlotOf(p[1]) \in Slot  BY Places
  <2>3. CASE SlotOf(p[1]) = s  BY <1>2, <2>1, <2>3 DEF LockFree
  <2>4. CASE SlotOf(p[1]) # s  BY <1>2, <2>1, <2>2, <2>4
  <2> QED  BY <2>3, <2>4
<1>5. StraysHaveCauses'
  <2> SUFFICES ASSUME NEW t \in Slot, StraysIn(t)'
               PROVE  excused # {} \/ \E r \in Rollout : tree[r] \in {"incomplete", "cancelled"}
    BY <1>2 DEF StraysHaveCauses
  <2>1. StraysIn(t)  BY <1>2 DEF StraysIn
  <2> QED  BY <2>1 DEF IInv, StraysHaveCauses
<1>6. Awaited' /\ GroupsAndTrees' /\ Phases'
  BY <1>2 DEF IInv, Awaited, GroupsAndTrees, Settled, Phases, Unfinished
<1> QED  BY <1>3, <1>4, <1>5, <1>6 DEF IInv

-----------------------------------------------------------------------------
(* Rollouts end *)

\* A rollout ends with all its answers.
LEMMA EndStep ==
    ASSUME IInv, NEW r \in Rollout, EndRollout(r) \/ RaiseInRollout(r) PROVE IInv'
<1>1. PICK status \in {"complete", "incomplete", "raised"} : tree' = [tree EXCEPT ![r] = status]
  BY DEF EndRollout, RaiseInRollout
<1>2. /\ tree[r] = "running" /\ call[r] = Quiet /\ LoopRuns
      /\ turns' = [turns EXCEPT ![r] = 0]
      /\ UNCHANGED <<attempt, phase, group, call, strays, excused>>
  BY DEF EndRollout, RaiseInRollout
<1>3. tree \in [Rollout -> TreeState] /\ turns \in [Rollout -> Nat]  BY DEF IInv, TypeOK
<1>4. /\ tree'[r] = status /\ \A q \in Rollout : q # r => tree'[q] = tree[q]
  BY <1>1, <1>3
<1>5. TypeOK'
  <2>1. tree' \in [Rollout -> TreeState]  BY <1>1, <1>3 DEF TreeState
  <2> QED  BY <1>2, <1>3, <2>1 DEF IInv, TypeOK
<1>6. SlotExclusive'  BY <1>2 DEF IInv, SlotExclusive
<1>7. Awaited'  BY <1>2, <1>4 DEF IInv, Awaited
<1>8. GroupsAndTrees'
  BY <1>2, <1>4 DEF IInv, GroupsAndTrees, Settled
<1>9. Phases'  BY <1>2 DEF IInv, Phases, Unfinished, LoopRuns
<1>10. StraysHaveCauses'
  BY <1>2, <1>4 DEF IInv, StraysHaveCauses, StraysIn
<1> QED  BY <1>5, <1>6, <1>7, <1>8, <1>9, <1>10 DEF IInv

\* The threads of rollouts that are given up become strays.
LEMMA Withdrawn ==
    ASSUME IInv, NEW stopped \in SUBSET Rollout, Withdraw(stopped)
    PROVE  /\ strays' \in [Slot -> [blocked : Nat, generating : BOOLEAN]]
           /\ call' \in [Rollout -> [Branch -> {"none"} \cup Pending]]
           /\ turns' \in [Rollout -> Nat]
           /\ \A r \in Rollout : call'[r] = IF r \in stopped THEN Quiet ELSE call[r]
           /\ \A s \in Slot : StraysIn(s)' => StraysIn(s) \/ stopped # {}
           /\ \A p, q \in Rollout \X Branch :
                /\ call'[p[1]][p[2]] = "generating"
                /\ call'[q[1]][q[2]] = "generating"
                /\ SlotOf(p[1]) = SlotOf(q[1])
                => p = q /\ ~strays'[SlotOf(p[1])].generating
<1> DEFINE left(s, state) == {rb \in stopped \X Branch :
                                SlotOf(rb[1]) = s /\ call[rb[1]][rb[2]] = state}
<1>1. strays' = [s \in Slot |->
                   [blocked    |-> strays[s].blocked + Cardinality(left(s, "blocked")),
                    generating |-> strays[s].generating \/ left(s, "generating") # {}]]
  BY DEF Withdraw, StraysAfter
<1>2. /\ call' = [r \in Rollout |-> IF r \in stopped THEN Quiet ELSE call[r]]
      /\ turns' = [r \in Rollout |-> IF r \in stopped THEN 0 ELSE turns[r]]
  BY DEF Withdraw
<1>3. /\ call \in [Rollout -> [Branch -> {"none"} \cup Pending]]
      /\ turns \in [Rollout -> Nat]
      /\ strays \in [Slot -> [blocked : Nat, generating : BOOLEAN]]
      /\ SlotExclusive
  BY DEF IInv, TypeOK
<1>4. ASSUME NEW s \in Slot PROVE Cardinality(left(s, "blocked")) \in Nat
  <2>1. left(s, "blocked") \subseteq Rollout \X Branch  OBVIOUS
  <2>2. IsFiniteSet(left(s, "blocked"))  BY <2>1, FiniteCalls, FS_Subset
  <2> QED  BY <2>2, FS_CardinalityType
<1>5. ASSUME NEW s \in Slot, NEW rb \in left(s, "generating")
      PROVE  /\ rb \in Rollout \X Branch /\ rb[1] \in stopped /\ SlotOf(rb[1]) = s
             /\ call[rb[1]][rb[2]] = "generating"
  OBVIOUS
<1>6. \A s \in Slot : stopped = {} => left(s, "blocked") = {} /\ left(s, "generating") = {}
  OBVIOUS
<1> HIDE DEF left
<1>7. strays' \in [Slot -> [blocked : Nat, generating : BOOLEAN]]
  <2>1. ASSUME NEW s \in Slot
        PROVE  [blocked    |-> strays[s].blocked + Cardinality(left(s, "blocked")),
                generating |-> strays[s].generating \/ left(s, "generating") # {}]
                 \in [blocked : Nat, generating : BOOLEAN]
    <3>1. strays[s].blocked + Cardinality(left(s, "blocked")) \in Nat  BY <1>3, <1>4
    <3>2. (strays[s].generating \/ left(s, "generating") # {}) \in BOOLEAN  OBVIOUS
    <3> QED  BY <3>1, <3>2
  <2> QED  BY <1>1, <2>1
<1>8. \A r \in Rollout : call'[r] = IF r \in stopped THEN Quiet ELSE call[r]  BY <1>2
<1>9. call' \in [Rollout -> [Branch -> {"none"} \cup Pending]]  BY <1>2, <1>3, QuietCalls
<1>10. turns' \in [Rollout -> Nat]  BY <1>2, <1>3
<1>11. ASSUME NEW s \in Slot, StraysIn(s)' PROVE StraysIn(s) \/ stopped # {}
  <2> SUFFICES ASSUME stopped = {} PROVE StraysIn(s)  OBVIOUS
  <2>1. Cardinality(left(s, "blocked")) = 0  BY <1>6, FS_EmptySet
  <2>2. strays'[s].blocked = strays[s].blocked + 0
        /\ strays'[s].generating = (strays[s].generating \/ FALSE)
    BY <1>1, <1>6, <2>1
  <2> QED  BY <1>3, <1>11, <2>2 DEF StraysIn
<1>12. ASSUME NEW p \in Rollout \X Branch, NEW q \in Rollout \X Branch,
              call'[p[1]][p[2]] = "generating", call'[q[1]][q[2]] = "generating",
              SlotOf(p[1]) = SlotOf(q[1])
       PROVE  p = q /\ ~strays'[SlotOf(p[1])].generating
  <2>1. ASSUME NEW u \in Rollout \X Branch, call'[u[1]][u[2]] = "generating"
        PROVE  u[1] \notin stopped /\ call[u[1]][u[2]] = "generating"
    BY <1>8, <2>1, QuietCalls
  <2>2. p[1] \notin stopped /\ call[p[1]][p[2]] = "generating"  BY <1>12, <2>1
  <2>3. p = q /\ ~strays[SlotOf(p[1])].generating
    BY <1>3, <1>12, <2>1 DEF SlotExclusive
  <2>4. left(SlotOf(p[1]), "generating") = {}
    <3> SUFFICES ASSUME NEW rb \in left(SlotOf(p[1]), "generating") PROVE FALSE  OBVIOUS
    <3>1. SlotOf(p[1]) \in Slot  BY Places
    <3>2. rb = p  BY <1>3, <1>5, <2>2, <3>1 DEF SlotExclusive
    <3> QED  BY <1>5, <2>2, <3>1, <3>2
  <2>5. SlotOf(p[1]) \in Slot  BY Places
  <2> QED  BY <1>1, <2>3, <2>4, <2>5
<1> QED  BY <1>7, <1>8, <1>9, <1>10, <1>11, <1>12

LEMMA TimeOutStep ==
    ASSUME IInv, NEW r \in Rollout, TimeOut(r) PROVE IInv'
<1>1. /\ LoopRuns /\ tree[r] = "running" /\ tree' = [tree EXCEPT ![r] = "incomplete"]
      /\ Withdraw({r}) /\ UNCHANGED <<attempt, phase, group, excused>>
  BY DEF TimeOut
<1>2. tree \in [Rollout -> TreeState]  BY DEF IInv, TypeOK
<1>3. tree'[r] = "incomplete" /\ \A q \in Rollout : q # r => tree'[q] = tree[q]  BY <1>1, <1>2
<1>4. TypeOK'
  <2>1. tree' \in [Rollout -> TreeState]  BY <1>1, <1>2 DEF TreeState
  <2> QED  BY <1>1, <2>1, Withdrawn DEF IInv, TypeOK
<1>5. SlotExclusive'  BY <1>1, Withdrawn DEF SlotExclusive
<1>6. Awaited'
  <2>1. \A q \in Rollout : call'[q] = IF q \in {r} THEN Quiet ELSE call[q]  BY <1>1, Withdrawn
  <2> QED  BY <1>3, <2>1 DEF IInv, Awaited
<1>7. GroupsAndTrees'  BY <1>1, <1>3 DEF IInv, GroupsAndTrees, Settled
<1>8. Phases'  BY <1>1 DEF IInv, Phases, Unfinished, LoopRuns
<1>9. StraysHaveCauses'  BY <1>3 DEF StraysHaveCauses
<1> QED  BY <1>4, <1>5, <1>6, <1>7, <1>8, <1>9 DEF IInv

\* What is cancelled was running; CancelGroups and CloseLoop.
LEMMA CancelStep ==
    ASSUME IInv, NEW stopped \in SUBSET Rollout, \A r \in stopped : tree[r] = "running",
           tree' = [r \in Rollout |-> IF r \in stopped THEN "cancelled" ELSE tree[r]],
           Withdraw(stopped), UNCHANGED <<attempt, excused>>,
           phase' \in {"cancelling", "failed"}, phase' = "cancelling" => Unfinished' = {},
           group' \in [Group -> GroupState],
           \A g \in Group : group'[g] \in {"waiting", "written"} => group'[g] = group[g]
    PROVE  IInv'
<1>1. tree \in [Rollout -> TreeState]  BY DEF IInv, TypeOK
<1>2. TypeOK'
  <2>1. tree' \in [Rollout -> TreeState]  BY <1>1 DEF TreeState
  <2>2. phase' \in Phase  BY DEF Phase
  <2> QED  BY <2>1, <2>2, Withdrawn DEF IInv, TypeOK
<1>3. SlotExclusive'  BY Withdrawn DEF SlotExclusive
<1>4. Awaited'
  <2>1. \A q \in Rollout : call'[q] = IF q \in stopped THEN Quiet ELSE call[q]  BY Withdrawn
  <2> QED  BY <2>1 DEF IInv, Awaited
<1>5. GroupsAndTrees'
  <2> SUFFICES ASSUME NEW r \in Rollout
               PROVE  /\ group'[r[1]] = "waiting" => tree'[r] = "idle"
                      /\ group'[r[1]] = "written" => tree'[r] \in {"complete", "incomplete"}
    BY DEF GroupsAndTrees, Settled
  <2>1. r[1] \in Group  BY Places
  <2>2. /\ group[r[1]] = "waiting" => tree[r] = "idle"
        /\ group[r[1]] = "written" => tree[r] \in {"complete", "incomplete"}
    BY DEF IInv, GroupsAndTrees, Settled
  <2>3. tree'[r] = tree[r] \/ tree[r] = "running"  OBVIOUS
  <2> QED  BY <2>1, <2>2, <2>3
<1>6. Phases'  BY DEF Phases
<1>7. StraysHaveCauses'
  <2> SUFFICES ASSUME NEW s \in Slot, StraysIn(s)'
               PROVE  excused # {} \/ \E r \in Rollout : tree'[r] \in {"incomplete", "cancelled"}
    BY DEF StraysHaveCauses
  <2>1. CASE stopped # {}  BY <2>1
  <2>2. CASE StraysIn(s)
    <3>1. CASE excused # {}  BY <3>1
    <3>2. CASE \E r \in Rollout : tree[r] \in {"incomplete", "cancelled"}  BY <3>2
    <3> QED  BY <2>2, <3>1, <3>2 DEF IInv, StraysHaveCauses
  <2> QED  BY <2>1, <2>2, Withdrawn
<1> QED  BY <1>2, <1>3, <1>4, <1>5, <1>6, <1>7 DEF IInv

LEMMA CancelGroupsStep == ASSUME IInv, CancelGroups PROVE IInv'
<1> DEFINE stopped == {r \in Rollout : r[1] \in Unfinished /\ tree[r] = "running"}
<1>1. /\ phase' = "cancelling" /\ Withdraw(stopped) /\ UNCHANGED <<attempt, excused>>
      /\ tree' = [r \in Rollout |-> IF r \in stopped THEN "cancelled" ELSE tree[r]]
      /\ group' = [g \in Group |-> IF g \in Unfinished THEN "cancelled" ELSE group[g]]
  BY DEF CancelGroups, Withdraw, StraysAfter
<1>2. group \in [Group -> GroupState]  BY DEF IInv, TypeOK
<1>3. /\ group' \in [Group -> GroupState]
      /\ \A g \in Group : group'[g] \in {"waiting", "written"} => group'[g] = group[g]
  BY <1>1, <1>2 DEF GroupState
<1>4. Unfinished' = {}  BY <1>1 DEF Unfinished
<1> SUFFICES ASSUME NEW S \in SUBSET Rollout, S = stopped, Withdraw(S) PROVE IInv'
  BY <1>1 DEF Withdraw, StraysAfter
<1> QED  BY <1>1, <1>3, <1>4, CancelStep

LEMMA CloseLoopStep == ASSUME IInv, CloseLoop PROVE IInv'
<1> DEFINE stopped == {r \in Rollout : tree[r] = "running"}
<1>1. /\ phase = "failed" /\ Withdraw(stopped) /\ UNCHANGED <<attempt, phase, group, excused>>
      /\ tree' = [r \in Rollout |-> IF r \in stopped THEN "cancelled" ELSE tree[r]]
  BY DEF CloseLoop, Withdraw, StraysAfter
<1>2. group \in [Group -> GroupState]  BY DEF IInv, TypeOK
<1> SUFFICES ASSUME NEW S \in SUBSET Rollout, S = stopped, Withdraw(S) PROVE IInv'
  BY <1>1 DEF Withdraw, StraysAfter
<1> QED  BY <1>1, <1>2, CancelStep

-----------------------------------------------------------------------------
(* Groups and the round *)

LEMMA AcquireStep == ASSUME IInv, NEW g \in Group, AcquireGroup(g) PROVE IInv'
<1>1. /\ phase = "collecting" /\ group[g] = "waiting"
      /\ group' = [group EXCEPT ![g] = "collecting"]
      /\ tree' = [r \in Rollout |-> IF r \in RolloutsOf(g) THEN "running" ELSE tree[r]]
      /\ UNCHANGED <<attempt, phase, call, turns, strays, excused>>
  BY DEF AcquireGroup
<1>2. tree \in [Rollout -> TreeState] /\ group \in [Group -> GroupState]  BY DEF IInv, TypeOK
<1>3. group'[g] = "collecting" /\ \A h \in Group : h # g => group'[h] = group[h]
  BY <1>1, <1>2
<1>4. \A r \in Rollout : tree'[r] = IF r[1] = g THEN "running" ELSE tree[r]
  BY <1>1, Places
<1>5. TypeOK'
  <2>1. tree' \in [Rollout -> TreeState]  BY <1>1, <1>2 DEF TreeState
  <2>2. group' \in [Group -> GroupState]  BY <1>1, <1>2 DEF GroupState
  <2> QED  BY <1>1, <2>1, <2>2 DEF IInv, TypeOK
<1>6. SlotExclusive'  BY <1>1 DEF IInv, SlotExclusive
<1>7. Awaited'  BY <1>1, <1>4 DEF IInv, Awaited
<1>8. GroupsAndTrees'  BY <1>3, <1>4, Places DEF IInv, GroupsAndTrees, Settled
<1>9. Phases'  BY <1>1 DEF Phases
<1>10. StraysHaveCauses'
  <2> SUFFICES ASSUME NEW s \in Slot, StraysIn(s), excused = {}
               PROVE  \E r \in Rollout : tree'[r] \in {"incomplete", "cancelled"}
    BY <1>1 DEF StraysHaveCauses, StraysIn
  <2>1. PICK r \in Rollout : tree[r] \in {"incomplete", "cancelled"}
    BY DEF IInv, StraysHaveCauses
  <2>2. r[1] # g  BY <1>1, <2>1 DEF IInv, GroupsAndTrees
  <2> QED  BY <2>1, <2>2, <1>4
<1> QED  BY <1>5, <1>6, <1>7, <1>8, <1>9, <1>10 DEF IInv

LEMMA GroupStep ==
    ASSUME IInv, NEW g \in Group, WriteGroup(g) \/ RaiseInGroup(g) \/ FailToWrite(g)
    PROVE  IInv'
<1>1. /\ LoopRuns /\ group[g] = "collecting"
      /\ UNCHANGED <<attempt, phase, tree, call, turns, strays, excused>>
  BY DEF WriteGroup, RaiseInGroup, FailToWrite
<1>2. group \in [Group -> GroupState]  BY DEF IInv, TypeOK
<1>3. /\ group'[g] \in {"written", "raised"} /\ \A h \in Group : h # g => group'[h] = group[h]
      /\ group' \in [Group -> GroupState]
      /\ group'[g] = "written" => \A r \in RolloutsOf(g) : Settled(r)
  BY <1>2 DEF WriteGroup, RaiseInGroup, FailToWrite, GroupState
<1>4. TypeOK'  BY <1>1, <1>3 DEF IInv, TypeOK
<1>5. SlotExclusive' /\ Awaited' /\ StraysHaveCauses'
  BY <1>1 DEF IInv, SlotExclusive, Awaited, StraysHaveCauses, StraysIn
<1>6. GroupsAndTrees'  BY <1>1, <1>3, Places DEF IInv, GroupsAndTrees, Settled
<1>7. Phases'
  <2>1. phase # "cancelling"
    BY <1>1 DEF IInv, Phases, Unfinished
  <2> QED  BY <1>1, <2>1 DEF Phases, LoopRuns
<1> QED  BY <1>4, <1>5, <1>6, <1>7 DEF IInv

LEMMA RoundStep == ASSUME IInv, FailRound \/ Freeze \/ Train PROVE IInv'
<1>1. /\ UNCHANGED <<attempt, group, tree, call, turns, strays, excused>>
      /\ \/ phase' = "failed"
         \/ phase' = "frozen" /\ \A g \in Group : group[g] = "written"
         \/ phase' = "trained" /\ phase = "training"
  BY DEF FailRound, Freeze, Train
<1>2. TypeOK'  BY <1>1 DEF IInv, TypeOK, Phase
<1>3. SlotExclusive' /\ Awaited' /\ StraysHaveCauses' /\ GroupsAndTrees'
  BY <1>1 DEF IInv, SlotExclusive, Awaited, StraysHaveCauses, StraysIn, GroupsAndTrees, Settled
<1>4. Phases'  BY <1>1 DEF IInv, Phases
<1> QED  BY <1>2, <1>3, <1>4 DEF IInv

LEMMA CompileStep == ASSUME IInv, CompileRound PROVE IInv'
<1>1. PICK missing \in SUBSET Group, signal \in {"zero", "untrusted", "accepted"} :
        LET verdict == Verdict(missing, signal)
            again   == verdict = "retry" /\ attempt < MaxAttempts
        IN  /\ phase' = CASE verdict = "train" -> "training"
                          [] again             -> "collecting"
                          [] OTHER             -> "failed"
            /\ attempt' = IF again THEN attempt + 1 ELSE attempt
            /\ group' = IF again THEN [g \in Group |-> "waiting"] ELSE group
            /\ tree' = IF again THEN [r \in Rollout |-> "idle"] ELSE tree
            /\ excused' = IF again /\ \E g \in Group : ~CompleteGroup(g)
                          THEN excused \cup {attempt} ELSE excused
  BY DEF CompileRound
<1> DEFINE verdict == Verdict(missing, signal)
<1>2. /\ phase = "frozen" /\ UNCHANGED <<call, turns, strays>>
      /\ \A g \in Group : group[g] = "written"
      /\ \A r \in Rollout : tree[r] \in {"complete", "incomplete"} /\ call[r] = Quiet
  BY Places DEF CompileRound, IInv, Phases, GroupsAndTrees, Settled, Awaited
<1>3. SlotExclusive'  BY <1>2 DEF IInv, SlotExclusive
<1>4. verdict = "train" => \A g \in Group : CompleteGroup(g)
  BY DEF Verdict
<1> HIDE DEF verdict
<1>5. CASE verdict = "retry" /\ attempt < MaxAttempts
  <2>1. /\ phase' = "collecting" /\ attempt' = attempt + 1
        /\ group' = [g \in Group |-> "waiting"] /\ tree' = [r \in Rollout |-> "idle"]
        /\ excused' = IF \E g \in Group : ~CompleteGroup(g)
                      THEN excused \cup {attempt} ELSE excused
    BY <1>1, <1>5 DEF verdict
  <2>2. TypeOK'
    <3>1. attempt \in 1 .. MaxAttempts /\ attempt + 1 \in 1 .. MaxAttempts
      BY <1>5, ConstantsAssumption DEF IInv, TypeOK
    <3> QED  BY <1>2, <2>1, <3>1 DEF IInv, TypeOK, Phase, GroupState, TreeState
  <2>3. Awaited' /\ GroupsAndTrees' /\ Phases'
    BY <1>2, <2>1, Places DEF Awaited, GroupsAndTrees, Phases
  <2>4. StraysHaveCauses'
    <3> SUFFICES ASSUME NEW s \in Slot, StraysIn(s) PROVE excused' # {}
      BY <1>2 DEF StraysHaveCauses, StraysIn
    <3>1. CASE excused # {}  BY <2>1, <3>1
    <3>2. CASE \E r \in Rollout : tree[r] \in {"incomplete", "cancelled"}
      <4>1. PICK r \in Rollout : tree[r] \in {"incomplete", "cancelled"}  BY <3>2
      <4>2. r[1] \in Group /\ r \in RolloutsOf(r[1])  BY Places
      <4>3. ~CompleteGroup(r[1])  BY <4>1, <4>2 DEF CompleteGroup
      <4> QED  BY <2>1, <4>2, <4>3
    <3> QED  BY <3>1, <3>2 DEF IInv, StraysHaveCauses
  <2> QED  BY <1>3, <2>2, <2>3, <2>4 DEF IInv
<1>6. CASE ~ (verdict = "retry" /\ attempt < MaxAttempts)
  <2>1. /\ phase' = IF verdict = "train" THEN "training" ELSE "failed"
        /\ UNCHANGED <<attempt, group, tree, excused>>
    BY <1>1, <1>6 DEF verdict
  <2>2. verdict = "train" => \A r \in Rollout : tree[r] = "complete"
    BY <1>4, Places DEF CompleteGroup
  <2>3. TypeOK'  BY <1>2, <2>1 DEF IInv, TypeOK, Phase
  <2>4. Awaited' /\ GroupsAndTrees' /\ StraysHaveCauses'
    BY <1>2, <2>1 DEF IInv, Awaited, GroupsAndTrees, Settled, StraysHaveCauses, StraysIn
  <2>5. Phases'  BY <1>2, <2>1, <2>2 DEF Phases
  <2> QED  BY <1>3, <2>3, <2>4, <2>5 DEF IInv
<1> QED  BY <1>5, <1>6

LEMMA Steps == IInv /\ [Next]_vars => IInv'
<1> SUFFICES ASSUME IInv, [Next]_vars PROVE IInv'  OBVIOUS
<1>1. CASE Threads  BY <1>1, CallStep, StrayStep DEF Threads
<1>2. CASE Loop
  BY <1>2, CallStep, EndStep, AcquireStep, GroupStep, CancelGroupsStep, RoundStep,
     CloseLoopStep, CompileStep
  DEF Loop
<1>3. CASE \E r \in Rollout : TimeOut(r) \/ RaiseInRollout(r)  BY <1>3, TimeOutStep, EndStep
<1>4. CASE UNCHANGED vars
  BY <1>4 DEF vars, IInv, TypeOK, SlotExclusive, Awaited, GroupsAndTrees, Settled, Phases,
              Unfinished, StraysHaveCauses, StraysIn
<1>5. CASE \E g \in Group : FailToWrite(g)  BY <1>5, GroupStep
<1> QED  BY <1>1, <1>2, <1>3, <1>4, <1>5 DEF Next

\* Rollouts, groups, threads and locks agree in every reachable state: the
\* invariant behind the theorems below.
THEOREM Consistency == Spec => []IInv
<1> QED  BY InitInv, Steps, PTL DEF Spec

\* The variables keep their types.
THEOREM TypeCorrect == Spec => []TypeOK
<1>1. IInv => TypeOK  BY DEF IInv
<1> QED  BY <1>1, Consistency, PTL

\* One replica serves one generation at a time, whatever times out or is
\* cancelled.
THEOREM OneGenerationPerSlot == Spec => []SlotExclusive
<1>1. IInv => SlotExclusive  BY DEF IInv
<1> QED  BY <1>1, Consistency, PTL

\* The optimizer steps on groups whose every rollout is complete, and a thread
\* generates meanwhile only after an attempt that was given up.
THEOREM StepsOnWholeGroups == Spec => []TrainsOnWholeGroups
<1>1. IInv => TrainsOnWholeGroups
  <2> SUFFICES ASSUME IInv, phase \in {"training", "trained"} PROVE TrainsOnWholeGroups
    BY DEF TrainsOnWholeGroups
  <2>1. /\ \A g \in Group : group[g] = "written"
        /\ \A r \in Rollout : tree[r] = "complete"
    BY DEF IInv, Phases
  <2>2. \A g \in Group : CompleteGroup(g)  BY <2>1 DEF CompleteGroup, RolloutsOf
  <2>3. \A r \in Rollout : call[r] = Quiet  BY <2>1 DEF IInv, Awaited
  <2>4. (\E s \in Slot : StraysIn(s)) => excused # {}
    BY <2>1 DEF IInv, StraysHaveCauses
  <2> QED  BY <2>1, <2>2, <2>3, <2>4 DEF TrainsOnWholeGroups
<1> QED  BY <1>1, Consistency, PTL

\* Once the round has given up because a group raised, no group writes its raw
\* file any more.
THEOREM RaiseStopsWriting == Spec => NoWriteAfterCancel
<1> DEFINE A == \A g \in Group : group'[g] = "written" /\ group[g] # "written"
                                    => phase = "collecting"
<1>1. IInv /\ [Next]_vars => [A]_vars
  <2> SUFFICES ASSUME IInv, Next, NEW g \in Group, group'[g] = "written", group[g] # "written"
               PROVE  phase = "collecting"
    OBVIOUS
  <2>1. group \in [Group -> GroupState]  BY DEF IInv, TypeOK
  <2>2. CASE \E h \in Group : WriteGroup(h)
    BY <2>1, <2>2 DEF WriteGroup, LoopRuns, IInv, Phases, Unfinished
  <2>3. CASE CompileRound  BY <2>1, <2>3 DEF CompileRound
  <2>4. CASE CancelGroups  BY <2>1, <2>4 DEF CancelGroups
  <2>5. CASE \E h \in Group : AcquireGroup(h) \/ RaiseInGroup(h) \/ FailToWrite(h)
    BY <2>1, <2>5 DEF AcquireGroup, RaiseInGroup, FailToWrite
  <2>6. CASE Threads \/ \E r \in Rollout : TimeOut(r) \/ RaiseInRollout(r) \/ EndRollout(r)
    BY <2>6 DEF Threads, TakeLock, Generated, StrayTakesLock, StrayEnds, TimeOut,
                RaiseInRollout, EndRollout
  <2>7. CASE \/ \E r \in Rollout, b \in Branch : Submit(r, b)
             \/ FailRound \/ CloseLoop \/ Freeze \/ Train
    BY <2>7 DEF Submit, FailRound, CloseLoop, Freeze, Train
  <2> QED  BY <2>2, <2>3, <2>4, <2>5, <2>6, <2>7 DEF Next, Loop
<1> QED  BY <1>1, Consistency, PTL DEF Spec, NoWriteAfterCancel

-----------------------------------------------------------------------------
(* A round is never stuck *)

\* As long as the groups are collected none of them has been cancelled, and the
\* rollouts of a group that has its permit have started.
Underway ==
    phase = "collecting" =>
        /\ \A g \in Group : group[g] # "cancelled"
        /\ \A r \in Rollout :
            /\ tree[r] # "cancelled"
            /\ group[r[1]] = "collecting" => tree[r] # "idle"

LEMMA UnderwayKept == ASSUME IInv, Underway, [Next]_vars PROVE Underway'
<1>0. group \in [Group -> GroupState] /\ tree \in [Rollout -> TreeState]
  BY DEF IInv, TypeOK
<1> SUFFICES ASSUME phase' = "collecting" PROVE Underway'  BY DEF Underway
<1>1. CASE /\ UNCHANGED <<phase, group>>
           /\ \E r \in Rollout, s \in TreeState \ {"idle", "cancelled"} : tree' = [tree EXCEPT ![r] = s]
  BY <1>0, <1>1 DEF Underway
<1>2. CASE UNCHANGED <<phase, group, tree>>  BY <1>2 DEF Underway
<1>3. CASE Threads
  BY <1>2, <1>3 DEF Threads, TakeLock, Generated, StrayTakesLock, StrayEnds
<1>4. CASE \E r \in Rollout, b \in Branch : Submit(r, b)  BY <1>2, <1>4 DEF Submit
<1>5. CASE \E r \in Rollout : EndRollout(r) \/ TimeOut(r) \/ RaiseInRollout(r)
  BY <1>1, <1>5 DEF EndRollout, TimeOut, RaiseInRollout, TreeState
<1>6. ASSUME NEW g \in Group, AcquireGroup(g) PROVE Underway'
  <2>1. /\ phase = "collecting" /\ group' = [group EXCEPT ![g] = "collecting"]
        /\ tree' = [r \in Rollout |-> IF r \in RolloutsOf(g) THEN "running" ELSE tree[r]]
    BY <1>6 DEF AcquireGroup
  <2>2. \A r \in Rollout : tree'[r] = IF r[1] = g THEN "running" ELSE tree[r]
    BY <2>1, Places
  <2>3. \A h \in Group : group'[h] = IF h = g THEN "collecting" ELSE group[h]
    BY <1>0, <2>1
  <2> QED  BY <2>1, <2>2, <2>3, Places DEF Underway
<1>7. ASSUME NEW g \in Group, WriteGroup(g) \/ RaiseInGroup(g) \/ FailToWrite(g)
      PROVE  Underway'
  <2>1. /\ UNCHANGED <<phase, tree>>
        /\ group'[g] \in {"written", "raised"} /\ \A h \in Group : h # g => group'[h] = group[h]
    BY <1>0, <1>7 DEF WriteGroup, RaiseInGroup, FailToWrite
  <2> QED  BY <2>1, Places DEF Underway
<1>8. CASE CompileRound
  <2>1. /\ phase = "frozen"
        /\ \/ group' = [g \in Group |-> "waiting"] /\ tree' = [r \in Rollout |-> "idle"]
           \/ phase' \in {"training", "failed"}
    BY <1>8 DEF CompileRound
  <2> QED  BY <2>1, Places DEF Underway
<1>9. CASE CancelGroups \/ FailRound \/ CloseLoop \/ Freeze \/ Train
  BY <1>9 DEF CancelGroups, FailRound, CloseLoop, Freeze, Train
<1>10. CASE UNCHANGED vars  BY <1>2, <1>10 DEF vars
<1> QED  BY <1>3, <1>4, <1>5, <1>6, <1>7, <1>8, <1>9, <1>10 DEF Next, Loop

\* What each actor waits for: a thread its lock, and the rest its turn.
ThreadCanMove ==
    \/ \E r \in Rollout, b \in Branch :
        call[r][b] = "generating" \/ (call[r][b] = "blocked" /\ LockFree(SlotOf(r)))
    \/ \E s \in Slot : strays[s].generating \/ (strays[s].blocked > 0 /\ LockFree(s))

RolloutCanMove ==
    LoopRuns /\ \E r \in Rollout :
        /\ tree[r] = "running"
        /\ \/ turns[r] > 0 /\ call[r] = Quiet
           \/ \E b \in Branch :
                /\ call[r][b] = "none" /\ \A c \in 1 .. b - 1 : call[r][c] # "none"
                /\ turns[r] + Cardinality({c \in Branch : call[r][c] \in Pending}) < MaxTurns[r]

GroupCanMove ==
    \/ LoopRuns /\ \E g \in Group :
        /\ group[g] = "collecting"
        /\ \/ \A r \in RolloutsOf(g) : Settled(r)
           \/ \E r \in RolloutsOf(g) : tree[r] = "raised"
    \/ phase = "collecting" /\ \E g \in Group :
        /\ group[g] = "waiting" /\ \A h \in Group : h < g => group[h] # "waiting"
        /\ Cardinality(Collecting) < Min({MaxConcurrentGroups, Tasks})

RoundCanMove ==
    \/ phase = "collecting" /\ \E g \in Group : group[g] = "raised"
    \/ phase = "collecting" /\ \A g \in Group : group[g] = "written"
    \/ phase = "cancelling" /\ Unfinished = {}
    \/ phase \in {"frozen", "training"}

\* Whoever holds the locks and the permits: as long as the round has not ended,
\* a thread, a rollout, a group or the round can go on, and no timeout is needed.
GoesOn ==
    phase \notin {"trained", "failed"} =>
        ThreadCanMove \/ RolloutCanMove \/ GroupCanMove \/ RoundCanMove

\* A thread that waits for a lock waits for one that generates.
LEMMA LocksAreHeldByThreads ==
    ASSUME IInv, NEW r \in Rollout, NEW b \in Branch, call[r][b] # "none"
    PROVE  ThreadCanMove
<1>1. call[r][b] \in Pending  BY DEF IInv, TypeOK
<1>2. CASE call[r][b] = "generating"  BY <1>2 DEF ThreadCanMove
<1>3. CASE call[r][b] = "blocked"
  <2>1. CASE LockFree(SlotOf(r))  BY <1>3, <2>1 DEF ThreadCanMove
  <2>2. CASE strays[SlotOf(r)].generating  BY <2>2, Places DEF ThreadCanMove
  <2>3. CASE \E q \in Rollout, c \in Branch : call[q][c] = "generating"
    BY <2>3 DEF ThreadCanMove
  <2> QED  BY <2>1, <2>2, <2>3 DEF LockFree
<1> QED  BY <1>1, <1>2, <1>3 DEF Pending

\* A rollout that runs can go on, or one of its threads can or waits for one that can.
LEMMA RunningCanMove ==
    ASSUME IInv, LoopRuns, NEW r \in Rollout, tree[r] = "running"
    PROVE  ThreadCanMove \/ RolloutCanMove
<1>1. call[r] \in [Branch -> {"none"} \cup Pending] /\ turns[r] \in Nat  BY DEF IInv, TypeOK
<1>2. CASE \E b \in Branch : call[r][b] # "none"  BY <1>2, LocksAreHeldByThreads
<1>3. CASE \A b \in Branch : call[r][b] = "none"
  <2>1. call[r] = Quiet  BY <1>1, <1>3 DEF Quiet
  <2>2. CASE turns[r] > 0  BY <2>1, <2>2 DEF RolloutCanMove
  <2>3. CASE turns[r] = 0
    <3>1. {c \in Branch : call[r][c] \in Pending} = {}  BY <1>3, QuietCalls
    <3>2. Cardinality({c \in Branch : call[r][c] \in Pending}) = 0  BY <3>1, FS_EmptySet
    <3>3. MaxTurns[r] \in Nat /\ 0 < MaxTurns[r]  BY TurnsAssumption
    <3>4. turns[r] + Cardinality({c \in Branch : call[r][c] \in Pending}) < MaxTurns[r]
      BY <2>3, <3>2, <3>3
    <3>5. 1 \in Branch /\ \A c \in 1 .. 1 - 1 : FALSE  BY QuietCalls
    <3> QED  BY <1>3, <3>4, <3>5 DEF RolloutCanMove
  <2> QED  BY <1>1, <2>2, <2>3
<1> QED  BY <1>2, <1>3

\* The least of a set of numbers.
LEMMA LeastOf ==
    ASSUME NEW T, T \subseteq Nat, T # {}
    PROVE  \E x \in T : \A y \in T : x <= y
<1> DEFINE Less == OpToRel(<, Nat)
<1>1. IsWellFoundedOn(Less, Nat)  BY NatLessThanWellFounded
<1>2. \A x, y \in Nat : x < y => <<x, y>> \in Less  BY DEF OpToRel
<1> HIDE DEF Less
<1>3. PICK x \in T : \A y \in T : ~ (<<y, x>> \in Less)
  <2>1. \E x \in T : \A y \in T : ~ (<<y, x>> \in Less)
    BY ONLY <1>1, WFMin, T \subseteq Nat, T # {}, Zenon
  <2> QED  BY <2>1
<1>4. ASSUME NEW y \in T PROVE x <= y
  <2>1. x \in Nat /\ y \in Nat  OBVIOUS
  <2>2. ~ (y < x)  BY <1>2, <1>3, <2>1
  <2> QED  BY <2>1, <2>2
<1> QED  BY <1>4

\* The first of the groups that wait for a permit.
LEMMA FirstWaiting ==
    ASSUME NEW h \in Group, group[h] = "waiting"
    PROVE  \E g \in Group : group[g] = "waiting" /\ \A k \in Group : k < g => group[k] # "waiting"
<1> DEFINE T == {g \in Group : group[g] = "waiting"}
<1>1. Group \subseteq Nat /\ T \subseteq Nat /\ T # {}  BY Places
<1>2. PICK g \in T : \A k \in T : g <= k  BY <1>1, LeastOf
<1>3. ASSUME NEW k \in Group, k < g PROVE group[k] # "waiting"
  <2>1. k \notin T  BY <1>1, <1>2, <1>3
  <2> QED  BY <2>1
<1> QED  BY <1>2, <1>3

LEMMA CollectingCanMove ==
    ASSUME IInv, Underway, phase = "collecting"
    PROVE  ThreadCanMove \/ RolloutCanMove \/ GroupCanMove \/ RoundCanMove
<1>0. group \in [Group -> GroupState] /\ tree \in [Rollout -> TreeState] /\ LoopRuns
  BY DEF IInv, TypeOK, LoopRuns
<1>1. CASE \E g \in Group : group[g] = "raised"  BY <1>1 DEF RoundCanMove
<1>2. CASE \A g \in Group : group[g] = "written"  BY <1>2 DEF RoundCanMove
<1>3. ASSUME NEW g \in Group, group[g] = "collecting"
      PROVE  ThreadCanMove \/ RolloutCanMove \/ GroupCanMove
  <2>1. \A r \in RolloutsOf(g) : r \in Rollout /\ r[1] = g  BY DEF RolloutsOf
  <2>2. \A r \in RolloutsOf(g) : tree[r] \in {"running", "raised"} \/ Settled(r)
    BY <1>0, <1>3, <2>1 DEF Underway, TreeState, Settled
  <2>3. CASE \E r \in RolloutsOf(g) : tree[r] = "raised"
    BY <1>0, <1>3, <2>3 DEF GroupCanMove
  <2>4. CASE \E r \in RolloutsOf(g) : tree[r] = "running"
    BY <1>0, <2>1, <2>4, RunningCanMove
  <2>5. CASE \A r \in RolloutsOf(g) : Settled(r)
    BY <1>0, <1>3, <2>5 DEF GroupCanMove
  <2> QED  BY <2>2, <2>3, <2>4, <2>5
<1>4. CASE /\ \A g \in Group : group[g] # "collecting"
           /\ \E g \in Group : group[g] = "waiting"
  <2>1. Collecting = {}  BY <1>4 DEF Collecting
  <2>2. Cardinality(Collecting) = 0  BY <2>1, FS_EmptySet
  <2>3. 0 < Min({MaxConcurrentGroups, Tasks})
    <3>1. MaxConcurrentGroups \in Nat \ {0} /\ Tasks \in Nat \ {0}  BY ConstantsAssumption
    <3>2. \E x \in {MaxConcurrentGroups, Tasks} : \A y \in {MaxConcurrentGroups, Tasks} : x <= y
      BY <3>1
    <3>3. Min({MaxConcurrentGroups, Tasks}) \in {MaxConcurrentGroups, Tasks}
      BY <3>2 DEF Min
    <3> QED  BY <3>1, <3>3
  <2>4. PICK g \in Group :
          group[g] = "waiting" /\ \A k \in Group : k < g => group[k] # "waiting"
    BY <1>4, FirstWaiting
  <2> QED  BY <2>2, <2>3, <2>4 DEF GroupCanMove
<1>5. \A g \in Group : group[g] \in {"waiting", "collecting", "written", "raised"}
  BY <1>0 DEF Underway, GroupState
<1> QED  BY <1>1, <1>2, <1>3, <1>4, <1>5

\* A round never waits for itself, for every number of permits, slots, branches
\* and attempts.
THEOREM NeverStuck == Spec => []GoesOn
<1>1. Init => IInv /\ Underway
  <2>1. Init => Underway  BY Places DEF Init, Underway
  <2> QED  BY <2>1, InitInv
<1>2. IInv /\ Underway /\ [Next]_vars => IInv' /\ Underway'  BY Steps, UnderwayKept
<1>3. IInv /\ Underway => GoesOn
  <2> SUFFICES ASSUME IInv, Underway, phase \notin {"trained", "failed"}
               PROVE  ThreadCanMove \/ RolloutCanMove \/ GroupCanMove \/ RoundCanMove
    BY DEF GoesOn
  <2>1. phase \in {"collecting", "cancelling", "frozen", "training"}
    BY DEF IInv, TypeOK, Phase
  <2>2. CASE phase = "collecting"  BY <2>2, CollectingCanMove
  <2>3. CASE phase # "collecting"  BY <2>1, <2>3 DEF IInv, Phases, RoundCanMove
  <2> QED  BY <2>2, <2>3
<1> QED  BY <1>1, <1>2, <1>3, PTL DEF Spec

=============================================================================
