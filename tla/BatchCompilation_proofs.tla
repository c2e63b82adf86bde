------------------------ MODULE BatchCompilation_proofs ------------------------
(***************************************************************************)
(* Proofs about BatchCompilation, for every number of groups and rollouts, *)
(* every shape of their trees and everything collection may make of them.  *)
(*                                                                         *)
(* A sum over rollouts is a recursion over the parts of a set.  Induction  *)
(* over it is stated about sets (of numbers, AllNumbers; of parts,         *)
(* AllParts), and rests on every set of numbers having a least one.        *)
(***************************************************************************)
EXTENDS BatchCompilation, FiniteSetTheorems, WellFoundedInduction, TLAPS

-----------------------------------------------------------------------------
(* Numbers and sums *)

\* A set of numbers has a least one.
LEMMA LeastNumber ==
  ASSUME NEW T, T \subseteq Nat, T # {}
  PROVE  \E x \in T : \A y \in T : x <= y
<1> DEFINE Less == OpToRel(<, Nat)
<1>1. IsWellFoundedOn(Less, Nat)
  BY NatLessThanWellFounded
<1>2. \A x, y \in Nat : x < y => << x, y >> \in Less
  BY DEF OpToRel
<1> HIDE DEF Less
<1>3. PICK x \in T : \A y \in T : ~ (<< y, x >> \in Less)
  BY ONLY <1>1, WFMin, T \subseteq Nat, T # {}, Zenon
<1>4. ASSUME NEW y \in T PROVE x <= y
  <2>1. x \in Nat /\ y \in Nat /\ ~ (y < x)
    BY <1>2, <1>3
  <2> QED
    BY <2>1
<1> QED
  BY <1>4

\* Induction, about a set of numbers.
LEMMA AllNumbers ==
  ASSUME NEW T, T \subseteq Nat, 0 \in T, \A k \in T : k + 1 \in T
  PROVE  T = Nat
<1> SUFFICES ASSUME Nat \ T # {} PROVE FALSE
  OBVIOUS
<1>1. PICK x \in Nat \ T : \A y \in Nat \ T : x <= y
  <2> DEFINE R == Nat \ T
  <2>1. R \subseteq Nat /\ R # {}
    OBVIOUS
  <2> HIDE DEF R
  <2>2. \E x \in R : \A y \in R : x <= y
    BY <2>1, LeastNumber
  <2> QED
    BY <2>2 DEF R
<1>2. x # 0 /\ x - 1 \in Nat /\ ~(x <= x - 1)
  BY <1>1
<1>3. x - 1 \in T
  BY <1>1, <1>2
<1>4. (x - 1) + 1 = x
  BY <1>1
<1> QED
  BY <1>1, <1>3, <1>4

\* The member a sum begins with.
Any(s) == CHOOSE x \in s : TRUE

\* it[s] is the sum of f over s, for every part s of S.
Sums(it, f, S) ==
  it = [s \in SUBSET S |-> IF s = {} THEN 0 ELSE f[Any(s)] + it[s \ {Any(s)}]]

\* A part with one member less.
LEMMA PartSize ==
  ASSUME NEW s, IsFiniteSet(s), s # {}, NEW x \in s
  PROVE  /\ Cardinality(s) \in Nat \ {0}
         /\ Cardinality(s \ {x}) = Cardinality(s) - 1
         /\ IsFiniteSet(s \ {x})
BY FS_RemoveElement, FS_CardinalityType, FS_EmptySet

\* A set that is not empty has what is chosen from it.
LEMMA AnyIn == \A s : s # {} => Any(s) \in s
BY DEF Any

\* Sums over the parts of a finite set are well-defined.
LEMMA SumsExist ==
  ASSUME NEW S, IsFiniteSet(S), NEW f
  PROVE  \E it : Sums(it, f, S)
<1> DEFINE Part(k) == {s \in SUBSET S : Cardinality(s) <= k}
           Upto(it, k) == it = [s \in Part(k) |-> IF s = {} THEN 0 ELSE f[Any(s)] + it[s \ {Any(s)}]]
           T == {k \in Nat : \E it : Upto(it, k)}
<1>0. \A s \in SUBSET S : IsFiniteSet(s) /\ Cardinality(s) \in Nat /\ Cardinality(s) <= Cardinality(S)
  BY FS_Subset, FS_CardinalityType
<1>1. 0 \in T
  <2> DEFINE it == [s \in Part(0) |-> 0]
  <2>1. \A s \in Part(0) : s = {}
    BY <1>0, FS_EmptySet
  <2>2. Upto(it, 0)
    BY <2>1
  <2> QED
    BY <2>2
<1>2. ASSUME NEW k \in T PROVE k + 1 \in T
  <2>1. PICK it : Upto(it, k)
    OBVIOUS
  <2> DEFINE jt == [s \in Part(k + 1) |->
                      IF s \in Part(k) THEN it[s] ELSE f[Any(s)] + it[s \ {Any(s)}]]
  <2>2. ASSUME NEW s \in Part(k + 1), s # {}
        PROVE  s \ {Any(s)} \in Part(k) /\ s \ {Any(s)} \in Part(k + 1)
    <3>1. Cardinality(s \ {Any(s)}) = Cardinality(s) - 1 /\ Cardinality(s) \in Nat
      BY <1>0, <2>2, PartSize, AnyIn
    <3> QED
      BY <1>2, <3>1
  <2>3. ASSUME NEW s \in Part(k + 1)
        PROVE  jt[s] = IF s = {} THEN 0 ELSE f[Any(s)] + jt[s \ {Any(s)}]
    <3>1. CASE s \in Part(k)
      <4>1. it[s] = IF s = {} THEN 0 ELSE f[Any(s)] + it[s \ {Any(s)}]
        BY <2>1, <3>1
      <4> QED
        BY <2>2, <3>1, <4>1
    <3>2. CASE s \notin Part(k)
      <4>1. s # {}
        BY <1>0, <1>2, <3>2, FS_EmptySet
      <4> QED
        BY <2>2, <3>2, <4>1
    <3> QED
      BY <3>1, <3>2
  <2>4. Upto(jt, k + 1)
    <3> DEFINE kt == [s \in Part(k + 1) |-> IF s = {} THEN 0 ELSE f[Any(s)] + jt[s \ {Any(s)}]]
    <3>1. \A s \in Part(k + 1) : jt[s] = kt[s]
      BY <2>3
    <3>2. jt = kt
      BY <3>1
    <3> QED
      BY <3>2
  <2> HIDE DEF jt, Upto
  <2>5. k + 1 \in Nat /\ \E kt : Upto(kt, k + 1)
    BY <1>2, <2>4
  <2> QED
    BY <2>5
<1>3. Cardinality(S) \in T
  <2>1. T \subseteq Nat
    OBVIOUS
  <2> HIDE DEF T
  <2>2. T = Nat
    BY <1>1, <1>2, <2>1, AllNumbers
  <2> QED
    BY <2>2, FS_CardinalityType
<1>4. Part(Cardinality(S)) = SUBSET S
  BY <1>0
<1> QED
  BY <1>3, <1>4 DEF Sums

\* Any member may be counted first.
Splits(it, f, s) == \A x \in s : it[s] = f[x] + it[s \ {x}]

\* The order of the summands does not matter.
LEMMA SumsSplit ==
  ASSUME NEW S, IsFiniteSet(S), NEW f, \A x \in S : f[x] \in Int, NEW it, Sums(it, f, S)
  PROVE  /\ it[{}] = 0
         /\ \A s \in SUBSET S : it[s] \in Int
         /\ \A s \in SUBSET S : Splits(it, f, s)
<1> DEFINE Good(s) == it[s] \in Int /\ \A x \in s : it[s] = f[x] + it[s \ {x}]
           T == {k \in Nat : \A s \in SUBSET S : Cardinality(s) <= k => Good(s)}
<1>0. \A s \in SUBSET S : IsFiniteSet(s) /\ Cardinality(s) \in Nat
  BY FS_Subset, FS_CardinalityType
<1>e. it[{}] = 0
  BY DEF Sums
<1>1. 0 \in T
  <2>1. \A s \in SUBSET S : Cardinality(s) <= 0 => s = {}
    BY <1>0, FS_EmptySet
  <2>2. Good({})
    BY <1>e
  <2> HIDE DEF Good
  <2> QED
    BY <2>1, <2>2
<1>2. ASSUME NEW k \in T PROVE k + 1 \in T
  <2> SUFFICES ASSUME NEW s \in SUBSET S, Cardinality(s) <= k + 1, s # {}
               PROVE  Good(s)
    <3>1. Good({})
      BY <1>e
    <3> HIDE DEF Good
    <3> QED
      BY <1>2, <3>1
  <2>1. s # {} /\ k \in Nat
    OBVIOUS
  <2> DEFINE c == Any(s)
  <2>2. c \in s /\ c \in S
    BY <2>1, AnyIn
  <2>3. it[s] = f[c] + it[s \ {c}]
    BY <2>1 DEF Sums
  <2> HIDE DEF c
  <2>4. ASSUME NEW x \in s
        PROVE  /\ s \ {x} \in SUBSET S /\ it[s \ {x}] \in Int
               /\ \A y \in s \ {x} : it[s \ {x}] = f[y] + it[(s \ {x}) \ {y}]
               /\ \A y \in s \ {x} : it[(s \ {x}) \ {y}] \in Int
    <3>1. Cardinality(s \ {x}) <= k
      BY <1>0, <2>1, PartSize
    <3>2. \A t \in SUBSET (s \ {x}) : Cardinality(t) <= k
      <4> SUFFICES ASSUME NEW t \in SUBSET (s \ {x}) PROVE Cardinality(t) <= k
        OBVIOUS
      <4>1. Cardinality(t) <= Cardinality(s \ {x}) /\ Cardinality(t) \in Nat
        BY <1>0, FS_Subset
      <4>2. Cardinality(s \ {x}) \in Nat
        BY <1>0
      <4> QED
        BY <2>1, <3>1, <4>1, <4>2
    <3>3. \A t \in SUBSET (s \ {x}) : Good(t)
      BY <3>2
    <3> QED
      BY <3>3
  <2>5. it[s] \in Int
    <3>1. f[c] \in Int
      BY <2>2
    <3>2. it[s \ {c}] \in Int
      BY <2>2, <2>4
    <3> QED
      BY <2>3, <3>1, <3>2
  <2>6. ASSUME NEW x \in s PROVE it[s] = f[x] + it[s \ {x}]
    <3>1. CASE x = c
      BY <2>3, <3>1
    <3>2. CASE x # c
      <4> DEFINE r == (s \ {c}) \ {x}
      <4>1. r = (s \ {x}) \ {c}
        OBVIOUS
      <4>2. it[s \ {c}] = f[x] + it[r] /\ it[s \ {c}] \in Int
        BY <2>2, <2>4, <3>2
      <4>3. it[s \ {x}] = f[c] + it[r] /\ it[s \ {x}] \in Int
        <5>1. c \in s \ {x}
          BY <2>2, <3>2
        <5>2. it[s \ {x}] = f[c] + it[(s \ {x}) \ {c}] /\ it[s \ {x}] \in Int
          BY <2>4, <5>1
        <5> QED
          BY <4>1, <5>2
      <4>4. it[r] \in Int
        BY <2>2, <2>4, <3>2
      <4> HIDE DEF r
      <4> QED
        BY <2>2, <2>3, <4>2, <4>3, <4>4
    <3> QED
      BY <3>1, <3>2
  <2> QED
    BY <2>5, <2>6
<1>3. \A s \in SUBSET S : Good(s)
  <2>1. T \subseteq Nat
    OBVIOUS
  <2>2. T = Nat
    <3> HIDE DEF T
    <3> QED
      BY <1>1, <1>2, <2>1, AllNumbers
  <2> QED
    BY <1>0, <2>2
<1> QED
  BY <1>e, <1>3 DEF Splits

\* The summands one by one.
LEMMA SumsMinus ==
  ASSUME NEW S, IsFiniteSet(S), NEW f, \A x \in S : f[x] \in Int, NEW it, Sums(it, f, S),
         NEW x \in S
  PROVE  it[S] = f[x] + it[S \ {x}]
<1>1. \A s \in SUBSET S : Splits(it, f, s)
  BY SumsSplit, Zenon
<1> QED
  BY <1>1 DEF Splits

\* Induction over the parts of a finite set, about a set of parts.
LEMMA AllParts ==
  ASSUME NEW S, IsFiniteSet(S), NEW G, {} \in G,
         \A s \in SUBSET S : s # {} /\ s \ {Any(s)} \in G => s \in G
  PROVE  \A s \in SUBSET S : s \in G
<1> DEFINE T == {k \in Nat : \A s \in SUBSET S : Cardinality(s) = k => s \in G}
<1>0. \A s \in SUBSET S : IsFiniteSet(s) /\ Cardinality(s) \in Nat
  BY FS_Subset, FS_CardinalityType
<1>1. 0 \in T
  BY <1>0, FS_EmptySet
<1>2. ASSUME NEW k \in T PROVE k + 1 \in T
  <2> SUFFICES ASSUME NEW s \in SUBSET S, Cardinality(s) = k + 1
               PROVE  s \in G
    BY <1>2
  <2>1. s # {}
    BY <1>2, FS_EmptySet
  <2>2. s \ {Any(s)} \in SUBSET S /\ Cardinality(s \ {Any(s)}) = k
    BY <1>0, <1>2, <2>1, PartSize, AnyIn
  <2> QED
    BY <2>1, <2>2
<1>3. T \subseteq Nat
  OBVIOUS
<1>4. T = Nat
  <2> HIDE DEF T
  <2> QED
    BY <1>1, <1>2, <1>3, AllNumbers
<1> QED
  BY <1>0, <1>4

\* A part has the same sum in a larger set.
LEMMA SumsShared ==
  ASSUME NEW S, IsFiniteSet(S), NEW R \in SUBSET S, NEW f,
         NEW it, Sums(it, f, S), NEW jt, Sums(jt, f, R)
  PROVE  jt[R] = it[R]
<1> DEFINE G == {s \in SUBSET R : jt[s] = it[s]}
<1>1. {} \in G
  BY DEF Sums
<1>2. ASSUME NEW s \in SUBSET R, s # {}, s \ {Any(s)} \in G
      PROVE  s \in G
  <2>1. jt[s] = f[Any(s)] + jt[s \ {Any(s)}]
    BY <1>2 DEF Sums
  <2>2. it[s] = f[Any(s)] + it[s \ {Any(s)}]
    BY <1>2 DEF Sums
  <2> QED
    BY <1>2, <2>1, <2>2
<1>3. IsFiniteSet(R)
  BY FS_Subset
<1>4. R \in G
  <2> HIDE DEF G
  <2> QED
    BY <1>1, <1>2, <1>3, AllParts
<1> QED
  BY <1>4

\* A sum of natural numbers is one.
LEMMA SumsNatural ==
  ASSUME NEW S, IsFiniteSet(S), NEW f, \A x \in S : f[x] \in Nat, NEW it, Sums(it, f, S)
  PROVE  \A s \in SUBSET S : it[s] \in Nat
<1> DEFINE G == {s \in SUBSET S : it[s] \in Nat}
<1>1. {} \in G
  BY DEF Sums
<1>2. ASSUME NEW s \in SUBSET S, s # {}, s \ {Any(s)} \in G
      PROVE  s \in G
  <2>1. it[s] = f[Any(s)] + it[s \ {Any(s)}]
    BY <1>2 DEF Sums
  <2>2. f[Any(s)] \in Nat
    BY <1>2, AnyIn
  <2> QED
    BY <1>2, <2>1, <2>2
<1> HIDE DEF G
<1>3. \A s \in SUBSET S : s \in G
  BY <1>1, <1>2, AllParts
<1> QED
  BY <1>3 DEF G

\* How a sum changes when every summand is scaled and shifted.
Affine(v, a, u, b, k) == v = a * u - b * k

\* The sum of a * f[x] - b is a times the sum of f less b for every member.
LEMMA SumsAffine ==
  ASSUME NEW S, IsFiniteSet(S), NEW f, \A x \in S : f[x] \in Int, NEW a \in Int, NEW b \in Int,
         NEW h, \A x \in S : Affine(h[x], a, f[x], b, 1),
         NEW it, Sums(it, f, S), NEW jt, Sums(jt, h, S)
  PROVE  Affine(jt[S], a, it[S], b, Cardinality(S))
<1> DEFINE G == {s \in SUBSET S : jt[s] = a * it[s] - b * Cardinality(s)}
<1>1. {} \in G
  BY FS_EmptySet DEF Sums
<1>2. ASSUME NEW s \in SUBSET S, s # {}, s \ {Any(s)} \in G
      PROVE  s \in G
  <2> DEFINE c == Any(s)
             r == s \ {c}
  <2>1. jt[s] = h[c] + jt[r] /\ it[s] = f[c] + it[r]
    BY <1>2 DEF Sums
  <2>2. c \in S /\ c \in s /\ r \in SUBSET S
    BY <1>2, AnyIn
  <2>3. IsFiniteSet(s)
    BY FS_Subset
  <2>4. Cardinality(r) = Cardinality(s) - 1 /\ Cardinality(s) \in Nat /\ Cardinality(r) \in Nat
    BY <1>2, <2>2, <2>3, PartSize, FS_CardinalityType
  <2>5. f[c] \in Int /\ it[r] \in Int /\ h[c] = a * f[c] - b
    <3>1. f[c] \in Int /\ it[r] \in Int
      BY <2>2, SumsSplit
    <3> QED
      BY <2>2, <3>1 DEF Affine
  <2>6. jt[r] = a * it[r] - b * Cardinality(r)
    BY <1>2
  <2> DEFINE x == f[c]
             y == it[r]
             k == Cardinality(r)
  <2>7. a * (x + y) = a * x + a * y /\ b * (k + 1) = b * k + b
    <3>1. x \in Int /\ y \in Int /\ k \in Int
      BY <2>4, <2>5
    <3> HIDE DEF x, y, k
    <3> QED
      BY <3>1
  <2>8. jt[s] = a * it[s] - b * Cardinality(s)
    <3>1. Cardinality(s) = k + 1
      BY <2>4
    <3>2. jt[s] = (a * x - b) + (a * y - b * k)
      BY <2>1, <2>5, <2>6
    <3>3. it[s] = x + y
      BY <2>1
    <3>4. /\ x \in Int /\ y \in Int /\ k \in Int
          /\ a * x \in Int /\ a * y \in Int /\ b * k \in Int
      BY <2>4, <2>5
    <3> HIDE DEF x, y, k, c, r
    <3> QED
      BY <2>7, <3>1, <3>2, <3>3, <3>4
  <2> QED
    BY <2>8
<1>3. S \in G
  <2> HIDE DEF G
  <2> QED
    BY <1>1, <1>2, AllParts
<1> QED
  BY <1>3 DEF Affine

-----------------------------------------------------------------------------
(* The order of the nodes *)

\* What a node is.
LEMMA NodeFacts ==
  ASSUME NEW n \in Node
  PROVE  /\ n = << n[1], n[2] >> /\ n[1] = << n[1][1], n[1][2] >>
         /\ n[1] \in Rollout /\ n[1][1] \in Nat /\ n[1][2] \in Nat /\ n[2] \in Nat
         /\ RootOf(n[1]) \in Node
<1>1. PICK r \in Rollout : n \in {r} \X (0 .. Len(Parent[r]))
  BY DEF Node
<1>2. Len(Parent[r]) \in Nat /\ r \in (0 .. Tasks - 1) \X (0 .. GroupSize - 1)
  BY TreesAssumption DEF Rollout, Group
<1>3. n[1] = r /\ n[2] \in 0 .. Len(Parent[r]) /\ n = << n[1], n[2] >>
  BY <1>1
<1>4. RootOf(r) \in {r} \X (0 .. Len(Parent[r]))
  BY <1>2 DEF RootOf
<1>5. RootOf(r) \in Node
  BY <1>4 DEF Node
<1> QED
  BY <1>2, <1>3, <1>5, ConstantsAssumption

\* As long as a node has no signal, the next one is among those without.
LEMMA NextIsTodo ==
  ASSUME Todo # {}
  PROVE  NextNode \in Todo
<1> DEFINE T == Todo
           A == {n[1][1] : n \in T}
<1>0. \A n \in T : n \in Node
  BY DEF Todo
<1>1. T # {}
  OBVIOUS
<1> HIDE DEF T
<1>2. PICK a \in A : \A y \in A : a <= y
  <2>1. A \subseteq Nat /\ A # {}
    BY <1>0, <1>1, NodeFacts
  <2> HIDE DEF A
  <2> QED
    BY <2>1, LeastNumber
<1> DEFINE TA == {n \in T : n[1][1] = a}
           B == {n[1][2] : n \in TA}
<1>3. PICK b \in B : \A y \in B : b <= y
  <2>1. B \subseteq Nat /\ B # {}
    BY <1>0, <1>2, NodeFacts
  <2> HIDE DEF B
  <2> QED
    BY <2>1, LeastNumber
<1> DEFINE TB == {n \in TA : n[1][2] = b}
           C == {n[2] : n \in TB}
<1>4. PICK c \in C : \A y \in C : c <= y
  <2>1. C \subseteq Nat /\ C # {}
    BY <1>0, <1>3, NodeFacts
  <2> HIDE DEF C
  <2> QED
    BY <2>1, LeastNumber
<1>5. PICK n \in T : n[1][1] = a /\ n[1][2] = b /\ n[2] = c
  BY <1>4
<1>6. ASSUME NEW m \in T, m # n PROVE Before(n, m)
  <2>1. /\ n[1][1] \in Nat /\ n[1][2] \in Nat /\ n[2] \in Nat
        /\ m[1][1] \in Nat /\ m[1][2] \in Nat /\ m[2] \in Nat
        /\ n = << n[1], n[2] >> /\ n[1] = << n[1][1], n[1][2] >>
        /\ m = << m[1], m[2] >> /\ m[1] = << m[1][1], m[1][2] >>
    BY <1>0, <1>6, NodeFacts
  <2>2. a <= m[1][1]
    BY <1>2
  <2>3. m[1][1] = a => b <= m[1][2]
    BY <1>3
  <2>4. m[1][1] = a /\ m[1][2] = b => c <= m[2]
    BY <1>4
  <2>5. CASE m[1] = n[1]
    BY <1>5, <1>6, <2>1, <2>4, <2>5 DEF Before
  <2>6. CASE m[1] # n[1]
    BY <1>5, <2>1, <2>2, <2>3, <2>6 DEF Before
  <2> QED
    BY <2>5, <2>6
<1>7. \E n_1 \in Todo : \A m \in Todo \ {n_1} : Before(n_1, m)
  BY <1>5, <1>6 DEF T
<1> QED
  BY <1>7, Zenon DEF NextNode

-----------------------------------------------------------------------------
(* The inductive invariant *)

\* The answer of the judge a node depends on.
Answer(n) == IF verifier = "judge" THEN evaluation[n] ELSE cache[RolloutId(n[1])]

\* A node whose last request failed is the one that is being asked about, or the
\* judge has been given up on; and the judge was asked about it for a reason.
Asked ==
  \A n \in unanswered :
    /\ phase # "collecting" /\ ~RuledOut(n)
    /\ phase = "verifying" =>
         \/ Todo # {} /\ n = Subject /\ Answer(n) = "none"
         \/ Answer(n) = "error"

\* By proxy, a node has the signal its root's makes it.
ByProxy ==
  /\ verifier = "proxy" /\ phase = "verifying" =>
       \A n \in Node : evaluation[n] # "none" =>
         /\ cache[RolloutId(n[1])] # "none"
         /\ evaluation[n] = ProxySignal(n)
  /\ phase = "collecting" => \A n \in Node : evaluation[n] = "none"

\* What was trained on has been compiled, admitted and answered for.
Admitted == phase = "training" => Compiles /\ Audit = {} /\ unanswered = {}

\* Nothing is a success that could be ruled out without the judge, and a judge
\* that was given up on has left an answer behind that says so.
Evidence ==
  /\ phase # "collecting" =>
       \A n \in Node : Answer(n) = "one" =>
         ~RuledOut(IF verifier = "judge" THEN n ELSE RootOf(n[1]))
  /\ phase # "collecting" /\ givenUp # givenUpBefore => \E n \in Node : Answer(n) = "error"
  /\ phase = "collecting" => givenUp = givenUpBefore

\* No signal has been kept for a rollout that is still to come.
Fresh ==
  \A a \in 1 .. MaxAttempts, r \in Rollout :
    a > attempt \/ (a = attempt /\ phase = "collecting") => cache[<< a, r >>] = "none"

IInv == TypeOK /\ Asked /\ ByProxy /\ Admitted /\ Evidence /\ Fresh

LEMMA InitInv == Init => IInv
<1> SUFFICES ASSUME Init PROVE IInv
  OBVIOUS
<1>1. TypeOK
  BY ConstantsAssumption DEF Init, TypeOK, Signal
<1>2. Asked /\ ByProxy /\ Admitted
  BY DEF Init, Asked, ByProxy, Admitted
<1>3. Evidence /\ Fresh
  BY DEF Init, Evidence, Fresh
<1> QED
  BY <1>1, <1>2, <1>3 DEF IInv

\* The node the verifier is at, and whose answer it waits for.
LEMMA SubjectFacts ==
  ASSUME TypeOK, phase = "verifying", Todo # {}
  PROVE  /\ NextNode \in Node /\ evaluation[NextNode] = "none"
         /\ Subject \in Node /\ Subject[1] = NextNode[1]
         /\ verifier = "judge" => Subject = NextNode
         /\ RolloutId(NextNode[1]) \in (1 .. MaxAttempts) \X Rollout
         /\ Asking => Answer(Subject) = "none"
<1>1. NextNode \in Node /\ evaluation[NextNode] = "none"
  BY NextIsTodo DEF Todo
<1>2. /\ RootOf(NextNode[1]) \in Node /\ NextNode[1] \in Rollout
      /\ RootOf(NextNode[1])[1] = NextNode[1]
  BY <1>1, NodeFacts DEF RootOf
<1>3. RolloutId(NextNode[1]) \in (1 .. MaxAttempts) \X Rollout
  BY <1>2 DEF RolloutId, TypeOK
<1> QED
  BY <1>1, <1>2, <1>3 DEF Subject, Asking, Answer, TypeOK

\* A settled signal goes to the subject alone.
LEMMA SettleFacts ==
  ASSUME TypeOK, Asking, NEW signal \in {"zero", "one", "error"}, Settle(signal),
         NEW s, s = Subject
  PROVE  /\ evaluation' \in [Node -> Signal]
         /\ cache' \in [(1 .. MaxAttempts) \X Rollout -> Signal]
         /\ tries' = 0
         /\ (IF verifier = "judge" THEN evaluation'[s] ELSE cache'[RolloutId(s[1])]) = signal
         /\ \A n \in Node : Answer(n) # "none" =>
              (IF verifier = "judge" THEN evaluation'[n] ELSE cache'[RolloutId(n[1])]) = Answer(n)
         /\ verifier = "proxy" =>
              /\ UNCHANGED evaluation
              /\ \A n \in Node : cache[RolloutId(n[1])] # "none" =>
                   cache'[RolloutId(n[1])] = cache[RolloutId(n[1])]
<1>1. /\ NextNode \in Node /\ evaluation[NextNode] = "none"
      /\ s \in Node /\ s[1] = NextNode[1]
      /\ verifier = "judge" => s = NextNode
      /\ RolloutId(NextNode[1]) \in (1 .. MaxAttempts) \X Rollout
      /\ verifier = "proxy" => cache[RolloutId(NextNode[1])] = "none"
  BY SubjectFacts DEF Asking
<1>2. signal \in Signal
  BY DEF Signal
<1>3. CASE verifier = "judge"
  BY <1>1, <1>2, <1>3 DEF Settle, TypeOK, Answer
<1>4. CASE verifier = "proxy"
  <2> DEFINE id == RolloutId(NextNode[1])
  <2>1. cache' = [cache EXCEPT ![id] = signal] /\ UNCHANGED evaluation /\ tries' = 0
    BY <1>4 DEF Settle
  <2>2. id \in (1 .. MaxAttempts) \X Rollout /\ cache[id] = "none" /\ RolloutId(s[1]) = id
    BY <1>1, <1>4
  <2>3. \A n \in Node : cache[RolloutId(n[1])] # "none" =>
          cache'[RolloutId(n[1])] = cache[RolloutId(n[1])]
    <3> SUFFICES ASSUME NEW n \in Node, cache[RolloutId(n[1])] # "none"
                 PROVE  cache'[RolloutId(n[1])] = cache[RolloutId(n[1])]
      OBVIOUS
    <3>1. RolloutId(n[1]) \in (1 .. MaxAttempts) \X Rollout
      BY NodeFacts DEF RolloutId, TypeOK
    <3> HIDE DEF id
    <3> QED
      BY <2>1, <2>2, <3>1 DEF TypeOK
  <2> HIDE DEF id
  <2>4. cache'[id] = signal
    BY <2>1, <2>2 DEF TypeOK
  <2>5. cache' \in [(1 .. MaxAttempts) \X Rollout -> Signal]
    BY <1>2, <2>1 DEF TypeOK
  <2> QED
    BY <1>4, <2>1, <2>2, <2>3, <2>4, <2>5 DEF TypeOK, Answer
<1> QED
  BY <1>3, <1>4 DEF TypeOK

\* The types, in one step of the verifier.
LEMMA VerifierTyped ==
  ASSUME TypeOK, RuleOut \/ JudgeAnswers \/ JudgeFails \/ Propagate
  PROVE  TypeOK'
<1>0. phase = "verifying" /\ phase' = "verifying" /\ UNCHANGED << verifier, attempt, node, givenUpBefore >>
  BY DEF RuleOut, JudgeAnswers, JudgeFails, Propagate, Asking
<1>1. CASE RuleOut
  BY <1>0, <1>1, SettleFacts, ConstantsAssumption DEF RuleOut, TypeOK
<1>2. CASE JudgeAnswers
  BY <1>0, <1>2, SettleFacts, ConstantsAssumption DEF JudgeAnswers, TypeOK
<1>3. CASE JudgeFails
  <2>0. unanswered' \subseteq Node
    BY <1>3, SubjectFacts DEF JudgeFails, Asking, TypeOK
  <2>1. CASE tries < MaxRetries
    BY <1>0, <1>3, <2>0, <2>1, ConstantsAssumption DEF JudgeFails, TypeOK
  <2>2. CASE ~(tries < MaxRetries)
    BY <1>0, <1>3, <2>0, <2>2, SettleFacts, ConstantsAssumption DEF JudgeFails, TypeOK
  <2> QED
    BY <2>1, <2>2
<1>4. CASE Propagate
  <2>1. RolloutId(NextNode[1]) \in (1 .. MaxAttempts) \X Rollout
    BY <1>4, SubjectFacts DEF Propagate
  <2>2. ProxySignal(NextNode) \in Signal
    BY <2>1 DEF ProxySignal, Fallback, TypeOK, Signal
  <2> QED
    BY <1>0, <1>4, <2>2 DEF Propagate, TypeOK
<1> QED
  BY <1>1, <1>2, <1>3, <1>4

\* Who is waiting for an answer, in one step of the verifier.
LEMMA VerifierAsked ==
  ASSUME IInv, RuleOut \/ JudgeAnswers \/ JudgeFails \/ Propagate
  PROVE  Asked'
<1> SUFFICES ASSUME NEW n \in unanswered'
             PROVE  /\ phase' # "collecting" /\ ~RuledOut(n)'
                    /\ \/ (Todo # {} /\ n = Subject /\ Answer(n) = "none")'
                       \/ (Answer(n) = "error")'
  BY DEF Asked
<1>0. /\ phase = "verifying" /\ phase' = "verifying"
      /\ UNCHANGED << verifier, attempt, node, givenUpBefore >>
      /\ Todo # {} /\ TypeOK /\ Asked
  BY DEF RuleOut, JudgeAnswers, JudgeFails, Propagate, Asking, IInv
<1>1. PICK s : s = Subject
  OBVIOUS
<1>2. s \in Node
  BY <1>0, <1>1, SubjectFacts
<1>3. RuledOut(n)' <=> RuledOut(n)
  BY <1>0 DEF RuledOut, Fallback
<1>4. Answer(n)' = IF verifier = "judge" THEN evaluation'[n] ELSE cache'[RolloutId(n[1])]
  BY <1>0 DEF Answer, RolloutId
<1>5. CASE RuleOut \/ JudgeAnswers \/ (JudgeFails /\ ~(tries < MaxRetries))
  <2>1. PICK signal \in {"zero", "one", "error"} :
          /\ Settle(signal)
          /\ JudgeFails => signal = "error"
    BY <1>5 DEF RuleOut, JudgeAnswers, JudgeFails
  <2>2. Asking
    BY <1>5 DEF RuleOut, JudgeAnswers, JudgeFails
  <2>3. /\ (IF verifier = "judge" THEN evaluation'[s] ELSE cache'[RolloutId(s[1])]) = signal
        /\ \A m \in Node : Answer(m) # "none" =>
             (IF verifier = "judge" THEN evaluation'[m] ELSE cache'[RolloutId(m[1])]) = Answer(m)
    BY <1>0, <1>1, <2>1, <2>2, SettleFacts
  <2>4. CASE n = s
    <3>1. JudgeFails /\ ~RuledOut(s)
      BY <1>0, <1>1, <1>5, <2>4 DEF RuleOut, JudgeAnswers, JudgeFails, Asked
    <3> QED
      BY <1>0, <1>3, <1>4, <2>1, <2>3, <2>4, <3>1
  <2>5. CASE n # s
    <3>1. n \in unanswered /\ n \in Node
      BY <1>0, <1>1, <1>5, <2>5 DEF RuleOut, JudgeAnswers, JudgeFails, TypeOK
    <3>2. Answer(n) = "error" /\ ~RuledOut(n)
      BY <1>0, <1>1, <2>5, <3>1 DEF Asked
    <3> QED
      BY <1>0, <1>3, <1>4, <2>3, <3>1, <3>2
  <2> QED
    BY <2>4, <2>5
<1>6. CASE JudgeFails /\ tries < MaxRetries
  <2>1. /\ UNCHANGED << evaluation, cache >> /\ ~RuledOut(s)
        /\ n = s \/ n \in unanswered
        /\ Asking
    BY <1>1, <1>6 DEF JudgeFails
  <2>2. (Todo' # {}) /\ Subject' = s /\ Answer(n)' = Answer(n)
    BY <1>0, <1>1, <2>1
       DEF Todo, Subject, NextNode, Before, RootOf, Node, Rollout, Group, Answer, RolloutId
  <2>3. Answer(s) = "none"
    BY <1>0, <1>1, <2>1, SubjectFacts
  <2>4. CASE n = s
    BY <1>0, <1>3, <2>1, <2>2, <2>3, <2>4
  <2>5. CASE n \in unanswered
    BY <1>0, <1>1, <1>3, <2>2, <2>5 DEF Asked
  <2> QED
    BY <2>1, <2>4, <2>5
<1>7. CASE Propagate
  <2>1. n \in unanswered /\ UNCHANGED cache /\ verifier = "proxy"
        /\ cache[RolloutId(NextNode[1])] # "none"
    BY <1>7 DEF Propagate
  <2>2. s[1] = NextNode[1]
    BY <1>0, <1>1, SubjectFacts
  <2>3. Answer(n) = "error" /\ ~RuledOut(n)
    BY <1>0, <1>1, <2>1, <2>2 DEF Asked, Answer
  <2> QED
    BY <1>0, <1>3, <1>4, <2>1, <2>3 DEF Answer
<1> QED
  BY <1>5, <1>6, <1>7

\* The signals by proxy, in one step of the verifier.
LEMMA VerifierByProxy ==
  ASSUME IInv, RuleOut \/ JudgeAnswers \/ JudgeFails \/ Propagate
  PROVE  ByProxy'
<1> SUFFICES ASSUME verifier' = "proxy", NEW n \in Node, evaluation'[n] # "none"
             PROVE  /\ cache'[RolloutId(n[1])'] # "none"
                    /\ evaluation'[n] = ProxySignal(n)'
  <2>1. phase' = "verifying"
    BY DEF RuleOut, JudgeAnswers, JudgeFails, Propagate, Asking
  <2> QED
    BY <2>1 DEF ByProxy, Node, Rollout, Group
<1>0. /\ phase = "verifying" /\ verifier = "proxy" /\ Todo # {} /\ TypeOK
      /\ UNCHANGED << attempt, node >>
      /\ RolloutId(n[1])' = RolloutId(n[1])
      /\ \A m \in Node : evaluation[m] # "none" =>
           cache[RolloutId(m[1])] # "none" /\ evaluation[m] = ProxySignal(m)
  BY DEF RuleOut, JudgeAnswers, JudgeFails, Propagate, Asking, IInv, RolloutId, ByProxy
<1>1. cache'[RolloutId(n[1])] = cache[RolloutId(n[1])] => ProxySignal(n)' = ProxySignal(n)
  BY <1>0 DEF ProxySignal, Fallback, RolloutId
<1>2. CASE RuleOut \/ JudgeAnswers \/ (JudgeFails /\ ~(tries < MaxRetries))
  <2>1. PICK signal \in {"zero", "one", "error"} : Settle(signal)
    BY <1>2 DEF RuleOut, JudgeAnswers, JudgeFails
  <2>2. Asking
    BY <1>2 DEF RuleOut, JudgeAnswers, JudgeFails
  <2>3. /\ UNCHANGED evaluation
        /\ cache[RolloutId(n[1])] # "none" => cache'[RolloutId(n[1])] = cache[RolloutId(n[1])]
    BY <1>0, <2>1, <2>2, SettleFacts
  <2> QED
    BY <1>0, <1>1, <2>3
<1>3. CASE JudgeFails /\ tries < MaxRetries
  <2>1. UNCHANGED << evaluation, cache >>
    BY <1>3 DEF JudgeFails
  <2> QED
    BY <1>0, <1>1, <2>1
<1>4. CASE Propagate
  <2>1. NextNode \in Node
    BY <1>0, SubjectFacts
  <2>2. /\ evaluation' = [evaluation EXCEPT ![NextNode] = ProxySignal(NextNode)]
        /\ cache[RolloutId(NextNode[1])] # "none" /\ UNCHANGED cache
    BY <1>4 DEF Propagate
  <2>3. CASE n = NextNode
    BY <1>0, <1>1, <2>1, <2>2, <2>3 DEF TypeOK
  <2>4. CASE n # NextNode
    <3>1. evaluation'[n] = evaluation[n]
      BY <1>0, <2>2, <2>4 DEF TypeOK
    <3> QED
      BY <1>0, <1>1, <2>2, <3>1
  <2> QED
    BY <2>3, <2>4
<1> QED
  BY <1>2, <1>3, <1>4

\* The evidence looks at nothing else.
LEMMA EvidenceKept ==
  ASSUME UNCHANGED << verifier, attempt, node, evaluation, cache, givenUp, givenUpBefore >>,
         phase' = "collecting" <=> phase = "collecting",
         Evidence
  PROVE  Evidence'
<1>1. \A n : Answer(n)' = Answer(n) /\ (RuledOut(n)' <=> RuledOut(n))
  BY DEF Answer, RuledOut, Fallback, RolloutId
<1>2. Node' = Node /\ \A r : RootOf(r)' = RootOf(r)
  BY DEF Node, Rollout, Group, RootOf
<1>3. ASSUME phase # "collecting", NEW n \in Node, Answer(n)' = "one"
      PROVE  IF verifier = "judge" THEN ~RuledOut(n)' ELSE ~RuledOut(RootOf(n[1]))'
  BY <1>1, <1>3 DEF Evidence
<1> QED
  BY <1>1, <1>2, <1>3 DEF Evidence

\* What the signals rest on, in one step of the verifier.
LEMMA VerifierEvidence ==
  ASSUME IInv, RuleOut \/ JudgeAnswers \/ JudgeFails \/ Propagate
  PROVE  Evidence' /\ Fresh'
<1>0. /\ phase = "verifying" /\ phase' = "verifying"
      /\ UNCHANGED << verifier, attempt, node, givenUpBefore >>
      /\ Todo # {} /\ TypeOK /\ Evidence /\ Fresh
  BY DEF RuleOut, JudgeAnswers, JudgeFails, Propagate, Asking, IInv
<1>1. CASE RuleOut \/ JudgeAnswers \/ (JudgeFails /\ ~(tries < MaxRetries))
  <2>1. PICK signal \in {"zero", "one", "error"} :
          /\ Settle(signal)
          /\ signal = "one" => ~RuledOut(Subject)
          /\ JudgeFails => signal = "error"
    BY <1>1 DEF RuleOut, JudgeAnswers, JudgeFails
  <2>2. Asking
    BY <1>1 DEF RuleOut, JudgeAnswers, JudgeFails
  <2>3. /\ evaluation' = IF verifier = "judge"
                        THEN [evaluation EXCEPT ![NextNode] = signal] ELSE evaluation
        /\ cache' = IF verifier = "judge" THEN cache
                   ELSE [cache EXCEPT ![RolloutId(NextNode[1])] = signal]
    BY <2>1 DEF Settle
  <2>4. /\ NextNode \in Node /\ RolloutId(NextNode[1]) \in (1 .. MaxAttempts) \X Rollout
        /\ Subject = IF verifier = "judge" THEN NextNode ELSE RootOf(NextNode[1])
        /\ Subject \in Node /\ Subject[1] = NextNode[1]
        /\ Answer(Subject) = "none"
    BY <1>0, <2>2, SubjectFacts DEF Subject
  <2> DEFINE Of(n) == IF verifier = "judge" THEN n ELSE RootOf(n[1])
             After(n) == IF verifier = "judge" THEN evaluation'[n] ELSE cache'[RolloutId(n[1])]
  <2>5. ASSUME NEW n \in Node
        PROVE  After(n) = Answer(n) \/ (After(n) = signal /\ Of(n) = Subject)
    <3>1. CASE verifier = "judge"
      BY <1>0, <2>3, <2>4, <3>1 DEF TypeOK, Answer
    <3>2. CASE verifier # "judge"
      <4>1. RolloutId(n[1]) \in (1 .. MaxAttempts) \X Rollout
        BY <1>0, NodeFacts DEF RolloutId, TypeOK
      <4>2. RolloutId(n[1]) = RolloutId(NextNode[1]) => n[1] = NextNode[1]
        BY DEF RolloutId
      <4> QED
        BY <1>0, <2>3, <2>4, <3>2, <4>1, <4>2 DEF TypeOK, Answer
    <3> QED
      BY <3>1, <3>2
  <2>6. \A n : Answer(n)' = After(n)
    BY <1>0 DEF Answer, RolloutId
  <2>7. \A n : RuledOut(n)' <=> RuledOut(n)
    BY <1>0 DEF RuledOut, Fallback
  <2>8. ASSUME NEW n \in Node, Answer(n)' = "one" PROVE ~RuledOut(Of(n))
    BY <1>0, <2>1, <2>5, <2>6, <2>8 DEF Evidence
  <2>9. ASSUME givenUp' # givenUpBefore' PROVE \E n \in Node : Answer(n)' = "error"
    <3>1. CASE JudgeFails
      <4>1. After(Subject) = "error"
        <5>1. signal = "error"
          BY <2>1, <3>1
        <5>2. CASE verifier = "judge"
          BY <1>0, <2>3, <2>4, <5>1, <5>2 DEF TypeOK
        <5>3. CASE verifier # "judge"
          BY <1>0, <2>3, <2>4, <5>1, <5>3 DEF TypeOK
        <5> QED
          BY <5>2, <5>3
      <4> QED
        BY <2>4, <2>6, <4>1
    <3>2. CASE ~JudgeFails
      <4>1. givenUp # givenUpBefore
        BY <1>0, <1>1, <2>9, <3>2 DEF RuleOut, JudgeAnswers
      <4>2. PICK n \in Node : Answer(n) = "error"
        BY <1>0, <4>1 DEF Evidence
      <4>3. n # Subject /\ Of(n) = Subject => verifier # "judge"
        OBVIOUS
      <4>4. Of(n) = Subject => Answer(n) = Answer(Subject)
        BY <2>4 DEF Answer, RootOf
      <4> QED
        BY <2>4, <2>5, <2>6, <4>2, <4>4
    <3> QED
      BY <3>1, <3>2
  <2>10. Evidence'
    BY <1>0, <2>7, <2>8, <2>9 DEF Evidence, Node, Rollout, Group, RootOf
  <2>11. Fresh'
    <3> SUFFICES ASSUME NEW a \in 1 .. MaxAttempts, NEW r \in Rollout, a > attempt
                 PROVE  cache'[<< a, r >>] = "none"
      BY <1>0 DEF Fresh, Rollout, Group
    <3>1. cache[<< a, r >>] = "none" /\ << a, r >> # RolloutId(NextNode[1])
      BY <1>0 DEF Fresh, RolloutId, TypeOK
    <3> QED
      BY <1>0, <2>3, <2>4, <3>1 DEF TypeOK
  <2> QED
    BY <2>10, <2>11
<1>2. CASE (JudgeFails /\ tries < MaxRetries) \/ Propagate
  <2>1. UNCHANGED << cache, givenUp >> /\ (verifier = "judge" => UNCHANGED evaluation)
    BY <1>2 DEF JudgeFails, Propagate
  <2>2. \A n : Answer(n)' = Answer(n) /\ (RuledOut(n)' <=> RuledOut(n))
    BY <1>0, <2>1 DEF Answer, RuledOut, Fallback, RolloutId
  <2>3. Evidence'
    BY <1>0, <2>1, <2>2 DEF Evidence, Node, Rollout, Group, RootOf
  <2>4. Fresh'
    BY <1>0, <2>1 DEF Fresh, Rollout, Group
  <2> QED
    BY <2>3, <2>4
<1> QED
  BY <1>1, <1>2

-----------------------------------------------------------------------------
(* Compilation *)

\* The audit and the compiler look at nothing else.
LEMMA Frozen ==
  ASSUME UNCHANGED << verifier, node, evaluation, givenUp, givenUpBefore >>
  PROVE  Audit' = Audit /\ (Compiles' <=> Compiles)
<1> USE DEF Candidates, Trainable, Fallback, Advantage, Baseline, Reward, Value, Counted, Judged,
        Successes, Children, NodesOf, IsRoot, Node, Rollout, Group, RootOf, RolloutsOf,
        MapThenSumSet, MapThenFoldSet
<1>1. Audit' = Audit
  BY DEF Audit, JudgeFailures, TrustedReward, Trusted, Positive, RootTrusted, Fallback
<1>2. Compiles' <=> Compiles
  BY DEF Compiles, Missing
<1> QED
  BY <1>1, <1>2

\* When a batch compiles, no request of the attempt has been left without answer.
LEMMA AllAnswered ==
  ASSUME IInv, phase = "verifying", Todo = {}, Compiles
  PROVE  unanswered = {}
<1> SUFFICES ASSUME NEW n \in unanswered PROVE FALSE
  OBVIOUS
<1>1. n \in Node /\ Answer(n) = "error"
  BY DEF IInv, TypeOK, Asked
<1>2. evaluation[n] \in {"zero", "one"}
  BY <1>1 DEF Compiles, Missing, Judged
<1>3. verifier = "proxy" /\ cache[RolloutId(n[1])] = "error"
  BY <1>1, <1>2 DEF Answer, IInv, TypeOK
<1>4. evaluation[n] = ProxySignal(n)
  BY <1>1, <1>2, <1>3 DEF IInv, ByProxy
<1> QED
  BY <1>2, <1>3, <1>4 DEF ProxySignal, Fallback

LEMMA InvStep == IInv /\ [Next]_vars => IInv'
<1> SUFFICES ASSUME IInv, [Next]_vars PROVE IInv'
  OBVIOUS
<1>0. TypeOK /\ Asked /\ ByProxy /\ Admitted /\ Evidence /\ Fresh
  BY DEF IInv
<1>1. CASE UNCHANGED vars
  <2>1. TypeOK'
    BY <1>0, <1>1 DEF vars, TypeOK, Collected, Node, Rollout, Group
  <2>2. Asked'
    <3>1. Todo' = Todo /\ Subject' = Subject
      BY <1>1 DEF vars, Todo, Subject, NextNode, Before, RootOf, Node, Rollout, Group
    <3> SUFFICES ASSUME NEW n \in unanswered'
                 PROVE  /\ phase' # "collecting" /\ ~RuledOut(n)'
                        /\ phase' = "verifying" =>
                             \/ (Todo # {} /\ n = Subject /\ Answer(n) = "none")'
                             \/ (Answer(n) = "error")'
      BY DEF Asked
    <3>2. Answer(n)' = Answer(n) /\ (RuledOut(n)' <=> RuledOut(n))
      BY <1>1 DEF vars, Answer, RuledOut, Fallback, RolloutId
    <3> QED
      BY <1>0, <1>1, <3>1, <3>2 DEF vars, Asked
  <2>3. ByProxy'
    BY <1>0, <1>1 DEF vars, ByProxy, RolloutId, ProxySignal, Fallback, Node, Rollout, Group
  <2>4. Admitted'
    BY <1>0, <1>1, Frozen DEF vars, Admitted
  <2>5. Evidence' /\ Fresh'
    BY <1>0, <1>1, EvidenceKept DEF vars, Fresh, Rollout, Group
  <2> QED
    BY <2>1, <2>2, <2>3, <2>4, <2>5 DEF IInv
<1>2. CASE Collect
  <2>1. phase = "collecting" /\ phase' = "verifying" /\ node' \in Collected
        /\ UNCHANGED << verifier, attempt, evaluation, cache, tries, givenUp,
                        givenUpBefore, unanswered >>
    BY <1>2 DEF Collect
  <2>2. unanswered' = {}
    BY <1>0, <2>1 DEF Asked
  <2>3. \A n \in Node : evaluation'[n] = "none"
    BY <1>0, <2>1 DEF ByProxy
  <2>4. TypeOK'
    BY <1>0, <2>1 DEF TypeOK, Collected
  <2>5. Asked' /\ Admitted'
    BY <2>1, <2>2 DEF Asked, Admitted
  <2>6. ByProxy'
    BY <2>1, <2>3 DEF ByProxy, Node, Rollout, Group
  <2>7. Evidence'
    <3> SUFFICES ASSUME NEW n \in Node PROVE Answer(n)' = "none"
      BY <1>0, <2>1 DEF Evidence, Node, Rollout, Group
    <3>1. n[1] \in Rollout /\ attempt \in 1 .. MaxAttempts
      BY <1>0, NodeFacts DEF TypeOK
    <3>2. cache[<< attempt, n[1] >>] = "none"
      BY <1>0, <2>1, <3>1 DEF Fresh
    <3> QED
      BY <2>1, <2>3, <3>2 DEF Answer, RolloutId
  <2>8. Fresh'
    BY <1>0, <2>1 DEF Fresh, Rollout, Group
  <2> QED
    BY <2>4, <2>5, <2>6, <2>7, <2>8 DEF IInv
<1>3. CASE RuleOut \/ JudgeAnswers \/ JudgeFails \/ Propagate
  <2>1. phase' = "verifying"
    BY <1>3 DEF RuleOut, JudgeAnswers, JudgeFails, Propagate, Asking
  <2> QED
    BY <1>0, <1>3, <2>1, VerifierTyped, VerifierAsked, VerifierByProxy, VerifierEvidence
       DEF IInv, Admitted
<1>4. CASE CompileRound
  <2>1. /\ phase = "verifying" /\ Todo = {}
        /\ UNCHANGED << verifier, cache, tries, givenUp >>
    BY <1>4 DEF CompileRound
  <2>2. CASE phase' = "training"
    <3>1. /\ Compiles /\ Audit = {}
          /\ UNCHANGED << attempt, node, evaluation, givenUpBefore, unanswered >>
      BY <1>4, <2>2 DEF CompileRound
    <3>2. unanswered = {}
      BY <2>1, <3>1, AllAnswered
    <3>3. Admitted'
      BY <2>1, <3>1, <3>2, Frozen DEF Admitted
    <3>4. TypeOK' /\ Asked' /\ ByProxy'
      BY <1>0, <2>1, <2>2, <3>1, <3>2 DEF TypeOK, Asked, ByProxy
    <3>5. Evidence' /\ Fresh'
      BY <1>0, <2>1, <2>2, <3>1, EvidenceKept DEF Fresh, Rollout, Group
    <3> QED
      BY <3>3, <3>4, <3>5 DEF IInv
  <2>3. CASE phase' = "collecting"
    <3>1. /\ attempt < MaxAttempts /\ attempt' = attempt + 1
          /\ node' = <<>> /\ evaluation' = [n \in Node |-> "none"]
          /\ givenUpBefore' = givenUp /\ unanswered' = {}
      BY <1>4, <2>3 DEF CompileRound
    <3>2. TypeOK'
      BY <1>0, <2>1, <2>3, <3>1, ConstantsAssumption DEF TypeOK, Signal
    <3>3. Evidence'
      BY <2>1, <2>3, <3>1 DEF Evidence
    <3>4. Fresh'
      BY <1>0, <2>1, <3>1 DEF Fresh, Rollout, Group, TypeOK
    <3> QED
      BY <2>3, <3>1, <3>2, <3>3, <3>4 DEF IInv, Asked, ByProxy, Admitted
  <2>4. CASE phase' = "failed"
    <3>1. UNCHANGED << attempt, node, evaluation, givenUpBefore, unanswered >>
      BY <1>4, <2>4 DEF CompileRound
    <3>2. Asked'
      BY <1>0, <2>1, <2>4, <3>1 DEF Asked, RuledOut, Fallback
    <3>3. TypeOK' /\ ByProxy' /\ Admitted'
      BY <1>0, <2>1, <2>4, <3>1 DEF TypeOK, ByProxy, Admitted
    <3>4. Evidence' /\ Fresh'
      BY <1>0, <2>1, <2>4, <3>1, EvidenceKept DEF Fresh, Rollout, Group
    <3> QED
      BY <3>2, <3>3, <3>4 DEF IInv
  <2> QED
    BY <1>4, <2>2, <2>3, <2>4 DEF CompileRound
<1> QED
  BY <1>1, <1>2, <1>3, <1>4 DEF Next

\* The inductive invariant of the attempts of a round.
THEOREM Consistency == Spec => []IInv
<1> QED
  BY InitInv, InvStep, PTL DEF Spec

\* The variables keep their types.
THEOREM TypeCorrect == Spec => []TypeOK
<1>1. IInv => TypeOK
  BY DEF IInv
<1> QED
  BY <1>1, Consistency, PTL

\* What is trained on was judged in full: no signal is missing, no child is left
\* out of its parent's reward, and no request to the judge went unanswered.
THEOREM JudgedInFull == Spec => []NothingMissing
<1>1. IInv => NothingMissing
  <2> SUFFICES ASSUME IInv, phase = "training"
               PROVE  /\ \A n \in Node : Judged(n) /\ Counted(n) = Children(n)
                      /\ unanswered = {}
    BY DEF NothingMissing
  <2>1. Compiles /\ unanswered = {}
    BY DEF IInv, Admitted
  <2>2. \A n \in Node : Judged(n)
    BY <2>1 DEF Compiles, Missing
  <2>3. \A n \in Node : Counted(n) = Children(n)
    BY <2>2 DEF Counted, Children, NodesOf
  <2> QED
    BY <2>1, <2>2, <2>3
<1> QED
  BY <1>1, Consistency, PTL

-----------------------------------------------------------------------------
(* What the audit admits *)

\* A node has finitely many children.
LEMMA ChildrenFinite ==
  ASSUME NEW n \in Node
  PROVE  IsFiniteSet(Children(n)) /\ Children(n) \subseteq Node
<1>1. n[1] \in Rollout
  BY NodeFacts
<1>2. Len(Parent[n[1]]) \in Nat
  BY <1>1, TreesAssumption
<1> DEFINE Places == 0 .. Len(Parent[n[1]])
<1>3. IsFiniteSet({n[1]} \X Places)
  <2>1. IsFiniteSet(Places)
    BY <1>2, FS_Interval
  <2>2. IsFiniteSet({n[1]})
    BY FS_Singleton, Zenon
  <2> HIDE DEF Places
  <2> QED
    BY <2>1, <2>2, FS_Product
<1>4. NodesOf(n[1]) \subseteq {n[1]} \X Places
  BY DEF NodesOf, Node
<1>5. Children(n) \subseteq {n[1]} \X Places /\ Children(n) \subseteq Node
  BY <1>4 DEF Children, NodesOf
<1> QED
  BY <1>3, <1>5, FS_Subset

\* A node without a success of its own is rewarded for one of its children's.
LEMMA RewardHasSource ==
  ASSUME NEW n \in Node, Reward(n) > 0, Value(n) # 1
  PROVE  Successes(Counted(n)) > 0
<1> DEFINE C == Counted(n)
           W == {m \in C : Value(m) = 1}
<1>1. IsFiniteSet(C) /\ IsFiniteSet(W)
  <2>1. Counted(n) \subseteq Children(n)
    BY DEF Counted
  <2> QED
    BY <2>1, ChildrenFinite, FS_Subset
<1>2. Cardinality(C) \in Nat /\ Cardinality(W) \in Nat /\ (C # {} => Cardinality(C) # 0)
  BY <1>1, FS_CardinalityType, FS_EmptySet
<1>3. Value(n) = 0
  BY DEF Value
<1>4. Successes(C) = Cardinality(W)
  BY DEF Successes
<1>5. C # {}
  BY <1>3, ConstantsAssumption DEF Reward
<1>6. Reward(n) = (DelegationLambda * Cardinality(W)) \div Cardinality(C)
  <2>1. Reward(n) = Unit * 0 + ((DelegationLambda * Cardinality(W)) \div Cardinality(C))
    BY <1>3, <1>4, <1>5 DEF Reward
  <2>2. (DelegationLambda * Cardinality(W)) \div Cardinality(C) \in Int
    BY <1>2, <1>5, ConstantsAssumption
  <2> QED
    BY <2>1, <2>2, ConstantsAssumption
<1> HIDE DEF C, W
<1>7. Cardinality(W) # 0
  <2> SUFFICES ASSUME Cardinality(W) = 0 PROVE FALSE
    OBVIOUS
  <2>1. DelegationLambda * Cardinality(W) = 0
    BY ConstantsAssumption
  <2>2. 0 \div Cardinality(C) = 0
    BY <1>2, <1>5
  <2> QED
    BY <1>6, <2>1, <2>2
<1> QED
  BY <1>2, <1>4, <1>7 DEF C

\* What is trained on pushes some node up, and only for work that succeeded.
THEOREM EarnsItsCredit == Spec => []CreditIsEarned
<1>1. IInv => CreditIsEarned
  <2> DEFINE earned(n) == /\ Value(n) = 1 /\ ~Fallback(n)
                          /\ node[IF verifier = "proxy" THEN RootOf(n[1]) ELSE n].passes
  <2> SUFFICES ASSUME IInv, phase = "training"
               PROVE  /\ \E n \in Candidates : Advantage(n) > 0
                      /\ \A n \in Candidates : Advantage(n) > 0 =>
                           earned(n) \/ \E m \in Children(n) : earned(m)
    BY DEF CreditIsEarned
  <2>1. Audit = {}
    BY DEF IInv, Admitted
  <2>2. \E n \in Candidates : Advantage(n) > 0
    BY <2>1 DEF Audit
  <2>3. ASSUME NEW n \in Trusted PROVE earned(n)
    BY <2>3 DEF Trusted, Positive, RootTrusted, Fallback
  <2>4. ASSUME NEW n \in Candidates, Advantage(n) > 0
        PROVE  earned(n) \/ \E m \in Children(n) : earned(m)
    <3>1. Reward(n) > 0 /\ TrustedReward(n)
      BY <2>1, <2>4 DEF Audit
    <3>2. CASE Value(n) = 1
      BY <2>3, <3>1, <3>2 DEF TrustedReward
    <3>3. CASE Value(n) # 1
      <4>1. n \in Node
        BY DEF Candidates
      <4>2. Children(n) \cap Trusted # {}
        BY <3>1, <3>3, <4>1, RewardHasSource DEF TrustedReward
      <4> QED
        BY <2>3, <4>2
    <3> QED
      BY <3>2, <3>3
  <2> QED
    BY <2>2, <2>4
<1> QED
  BY <1>1, Consistency, PTL

-----------------------------------------------------------------------------
(* Baselines *)

\* What a baseline folds is the sum of the rewards of the roots.
LEMMA FoldedRewards ==
  ASSUME NEW S, IsFiniteSet(S), S \subseteq Rollout, 
         NEW f, \A r \in S : f[r] = Reward(RootOf(r)), NEW it, Sums(it, f, S)
  PROVE  MapThenSumSet(LAMBDA q : Reward(RootOf(q)), S) = it[S]
<1> DEFINE Fold(jt) == jt = [s \in SUBSET S |-> IF s = {} THEN 0
                                 ELSE LET x == CHOOSE x \in s : TRUE IN Reward(RootOf(x)) + jt[s \ {x}]]
<1>1. Fold(it)
  <2> DEFINE kt == [s \in SUBSET S |-> IF s = {} THEN 0
                                 ELSE LET x == CHOOSE x \in s : TRUE IN Reward(RootOf(x)) + it[s \ {x}]]
             lt == [s \in SUBSET S |-> IF s = {} THEN 0 ELSE f[Any(s)] + it[s \ {Any(s)}]]
  <2>1. \A s \in SUBSET S : kt[s] = lt[s]
    BY AnyIn DEF Any
  <2>2. kt = lt
    BY <2>1
  <2>3. it = lt
    BY DEF Sums
  <2> QED
    BY <2>2, <2>3
<1>2. Fold(CHOOSE jt : Fold(jt))
  <2> HIDE DEF Fold
  <2>1. \E jt : Fold(jt)
    BY <1>1
  <2> QED
    BY <2>1, Zenon
<1> DEFINE jt == CHOOSE jt : Fold(jt)
<1>3. MapThenSumSet(LAMBDA q : Reward(RootOf(q)), S) = jt[S]
  BY DEF MapThenSumSet, MapThenFoldSet
<1>4. Sums(jt, f, S)
  <2> DEFINE kt == [s \in SUBSET S |-> IF s = {} THEN 0
                                 ELSE LET x == CHOOSE x \in s : TRUE IN Reward(RootOf(x)) + jt[s \ {x}]]
             lt == [s \in SUBSET S |-> IF s = {} THEN 0 ELSE f[Any(s)] + jt[s \ {Any(s)}]]
  <2> HIDE DEF jt
  <2>1. \A s \in SUBSET S : kt[s] = lt[s]
    BY AnyIn DEF Any
  <2>2. kt = lt
    BY <2>1
  <2>3. jt = kt
    BY <1>2 DEF jt
  <2> QED
    BY <2>2, <2>3 DEF Sums
<1>5. jt[S] = it[S]
  <2> HIDE DEF jt
  <2> QED
    BY <1>4, SumsShared
<1> QED
  BY <1>3, <1>5

\* The sum a baseline is made of.
RewardSum(S) == MapThenSumSet(LAMBDA q : Reward(RootOf(q)), S)

RewardOf == [r \in Rollout |-> Reward(RootOf(r))]

\* A reward is a natural number of units.
LEMMA RewardNatural ==
  ASSUME NEW n \in Node
  PROVE  Reward(n) \in Nat
<1> DEFINE C == Counted(n)
           W == {m \in C : Value(m) = 1}
<1>1. IsFiniteSet(C) /\ IsFiniteSet(W)
  <2>1. Counted(n) \subseteq Children(n)
    BY DEF Counted
  <2> QED
    BY <2>1, ChildrenFinite, FS_Subset
<1>2. Cardinality(C) \in Nat /\ Cardinality(W) \in Nat /\ (C # {} => Cardinality(C) # 0)
  BY <1>1, FS_CardinalityType, FS_EmptySet
<1>3. Value(n) \in {0, 1} /\ Unit * Value(n) \in Nat
  BY ConstantsAssumption DEF Value
<1>4. CASE C = {}
  BY <1>3, <1>4 DEF Reward
<1>5. CASE C # {}
  <2> DEFINE q == (DelegationLambda * Cardinality(W)) \div Cardinality(C)
  <2>1. Reward(n) = Unit * Value(n) + q
    BY <1>5 DEF Reward, Successes
  <2>2. q \in Nat
    <3>1. DelegationLambda * Cardinality(W) \in Nat
      BY <1>2, ConstantsAssumption
    <3> HIDE DEF C, W
    <3> QED
      BY <1>2, <1>5, <3>1
  <2> HIDE DEF q
  <2> QED
    BY <1>3, <2>1, <2>2
<1> QED
  BY <1>4, <1>5

\* A group has GroupSize rollouts, and each of them has a root.
LEMMA GroupFacts ==
  ASSUME NEW g \in Group
  PROVE  /\ IsFiniteSet(RolloutsOf(g)) /\ Cardinality(RolloutsOf(g)) = GroupSize
         /\ RolloutsOf(g) \subseteq Rollout
         /\ \A r \in RolloutsOf(g) : RootOf(r) \in Node /\ r[1] = g
<1> DEFINE Places == 0 .. GroupSize - 1
<1>1. RolloutsOf(g) = {g} \X Places
  BY DEF RolloutsOf, Rollout
<1>2. IsFiniteSet(Places) /\ Cardinality(Places) = GroupSize
  BY FS_Interval, ConstantsAssumption
<1>3. IsFiniteSet({g}) /\ Cardinality({g}) = 1
  BY FS_Singleton, Zenon
<1>4. IsFiniteSet({g} \X Places) /\ Cardinality({g} \X Places) = 1 * GroupSize
  <2> HIDE DEF Places
  <2> QED
    BY <1>2, <1>3, FS_Product
<1>5. ASSUME NEW r \in Rollout PROVE RootOf(r) \in Node
  <2>1. Len(Parent[r]) \in Nat
    BY TreesAssumption
  <2>2. RootOf(r) \in {r} \X (0 .. Len(Parent[r]))
    BY <2>1 DEF RootOf
  <2> QED
    BY <2>2 DEF Node
<1>6. 1 * GroupSize = GroupSize
  BY ConstantsAssumption
<1> QED
  BY <1>1, <1>4, <1>5, <1>6 DEF RolloutsOf

\* A baseline is what the other roots of the group have been given.
LEMMA BaselineFacts ==
  ASSUME NEW g \in Group, NEW it, Sums(it, RewardOf, RolloutsOf(g))
  PROVE  /\ it[RolloutsOf(g)] \in Nat
         /\ \A r \in RolloutsOf(g) :
              /\ RewardOf[r] \in Nat /\ Baseline(r) \in Nat
              /\ Baseline(r) = it[RolloutsOf(g)] - RewardOf[r]
<1> DEFINE R == RolloutsOf(g)
<1>1. /\ IsFiniteSet(R) /\ R \subseteq Rollout
      /\ \A r \in R : RootOf(r) \in Node /\ r[1] = g
  BY GroupFacts
<1>2. \A r \in R : RewardOf[r] \in Nat
  BY <1>1, RewardNatural DEF RewardOf
<1> HIDE DEF R
<1>3. \A s \in SUBSET R : it[s] \in Nat
  BY <1>1, <1>2, SumsNatural DEF R
<1>4. ASSUME NEW r \in R PROVE it[R] = RewardOf[r] + it[R \ {r}]
  <2>1. \A q \in R : RewardOf[q] \in Int
    BY <1>2
  <2> QED
    BY <1>1, <2>1, SumsMinus DEF R
<1>5. ASSUME NEW r \in R
      PROVE  Baseline(r) = it[R \ {r}]
  <2> DEFINE S == R \ {r}
  <2>1. IsFiniteSet(S) /\ S \in SUBSET R /\ S \subseteq Rollout
    BY <1>1, FS_Subset
  <2>2. \A q \in S : RewardOf[q] = Reward(RootOf(q))
    BY <1>1 DEF RewardOf
  <2>3. PICK jt : Sums(jt, RewardOf, S)
    <3> HIDE DEF S
    <3> QED
      BY <2>1, SumsExist
  <2>4. RewardSum(S) = jt[S]
    <3> HIDE DEF S
    <3>1. MapThenSumSet(LAMBDA q : Reward(RootOf(q)), S) = jt[S]
      BY <2>1, <2>2, <2>3, FoldedRewards, Zenon
    <3> QED
      BY <3>1, Zenon DEF RewardSum
  <2>5. jt[S] = it[S]
    <3> HIDE DEF S
    <3> QED
      BY <1>1, <2>1, <2>3, SumsShared DEF R
  <2>6. r[1] = g
    BY <1>1
  <2>7. Baseline(r) = RewardSum(S)
    BY <2>6 DEF Baseline, RewardSum, R, MapThenSumSet, MapThenFoldSet
  <2> QED
    BY <2>4, <2>5, <2>7
<1>6. ASSUME NEW r \in R
      PROVE  /\ RewardOf[r] \in Nat /\ Baseline(r) \in Nat
             /\ Baseline(r) = it[R] - RewardOf[r]
  <2>1. it[R] = RewardOf[r] + it[R \ {r}] /\ it[R \ {r}] \in Nat /\ it[R] \in Nat
    BY <1>3, <1>4
  <2> QED
    BY <1>2, <1>5, <2>1
<1> QED
  BY <1>3, <1>6 DEF R

-----------------------------------------------------------------------------
(* The audit and the verifier *)

\* An advantage above the baseline needs a reward.
LEMMA AdvantageNeedsReward ==
  ASSUME NEW n \in Node, Advantage(n) > 0
  PROVE  Reward(n) > 0
<1>1. n[1] \in Rollout /\ n[1] = << n[1][1], n[1][2] >> /\ Reward(n) \in Nat
  BY NodeFacts, RewardNatural
<1> DEFINE g == n[1][1]
<1>2. g \in Group /\ n[1] \in RolloutsOf(g)
  BY <1>1 DEF Rollout, RolloutsOf
<1>3. PICK it : Sums(it, RewardOf, RolloutsOf(g))
  BY <1>2, GroupFacts, SumsExist
<1>4. Baseline(n[1]) \in Nat
  BY <1>2, <1>3, BaselineFacts
<1>5. CASE Reward(n) = 0
  <2>1. (GroupSize - 1) * Reward(n) = 0
    BY <1>5, ConstantsAssumption
  <2> QED
    BY <1>4, <2>1 DEF Advantage
<1> QED
  BY <1>1, <1>5

\* When every node has been judged, the audit finds every success trusted.
LEMMA PositiveIsTrusted ==
  ASSUME IInv, phase = "verifying", Compiles, NEW n \in Positive
  PROVE  n \in Trusted
<1>1. n \in Node /\ evaluation[n] = "one"
  BY DEF Positive, Value
<1>2. \A m \in Node : evaluation[m] \in {"zero", "one"}
  BY DEF Compiles, Missing, Judged
<1>3. CASE verifier = "judge"
  <2>1. ~RuledOut(n)
    BY <1>1, <1>3 DEF IInv, Evidence, Answer
  <2> QED
    BY <1>3, <2>1 DEF Trusted, RuledOut, Fallback
<1>4. CASE verifier = "proxy"
  <2> DEFINE root == RootOf(n[1])
  <2>1. root \in Node /\ root[1] = n[1]
    BY <1>1, NodeFacts DEF RootOf
  <2>2. evaluation[n] = ProxySignal(n) /\ evaluation[root] = ProxySignal(root)
    BY <1>1, <1>2, <1>4, <2>1 DEF IInv, ByProxy
  <2>3. cache[RolloutId(n[1])] = "one" /\ ~Fallback(n)
    BY <1>1, <2>2 DEF ProxySignal, Fallback
  <2>4. ~RuledOut(root)
    BY <1>1, <1>4, <2>3 DEF IInv, Evidence, Answer
  <2>5. evaluation[root] = "one"
    BY <2>1, <2>2, <2>3, <2>4 DEF ProxySignal, Fallback, RuledOut
  <2>6. RootTrusted(n[1])
    BY <2>4, <2>5 DEF RootTrusted, Fallback, RuledOut, Value
  <2> QED
    BY <1>4, <2>3, <2>6 DEF Trusted
<1> QED
  BY <1>3, <1>4 DEF IInv, TypeOK

\* The audit never disagrees with the verifier that wrote the signals.
LEMMA AuditAdmits ==
  ASSUME IInv, phase = "verifying", Compiles
  PROVE  Audit \subseteq {"no positive reward", "no positive advantage"}
<1>1. Positive \ Trusted = {}
  BY PositiveIsTrusted
<1>2. ASSUME NEW n \in Node PROVE TrustedReward(n)
  <2>1. Value(n) = 1 => n \in Trusted
    BY <1>1 DEF Positive
  <2>2. ASSUME Successes(Counted(n)) > 0 PROVE Children(n) \cap Trusted # {}
    <3>1. PICK m \in Counted(n) : Value(m) = 1
      BY <2>2, FS_EmptySet DEF Successes
    <3>2. m \in Children(n) /\ m \in Node
      BY ChildrenFinite DEF Counted
    <3> QED
      BY <1>1, <3>1, <3>2 DEF Positive
  <2> QED
    BY <2>1, <2>2 DEF TrustedReward
<1>3. ASSUME NEW n \in Candidates, Advantage(n) > 0
      PROVE  Reward(n) > 0 /\ TrustedReward(n)
  BY <1>2, <1>3, AdvantageNeedsReward DEF Candidates
<1>4. ~(JudgeFailures > 0)
  <2> SUFFICES ASSUME givenUp # givenUpBefore PROVE FALSE
    BY DEF JudgeFailures, IInv, TypeOK
  <2>1. PICK n \in Node : Answer(n) = "error"
    BY DEF IInv, Evidence
  <2>2. evaluation[n] \in {"zero", "one"}
    BY DEF Compiles, Missing, Judged
  <2>3. verifier = "proxy" /\ cache[RolloutId(n[1])] = "error"
    BY <2>1, <2>2 DEF Answer, IInv, TypeOK
  <2>4. evaluation[n] = ProxySignal(n)
    BY <2>2, <2>3 DEF IInv, ByProxy
  <2> QED
    BY <2>2, <2>3, <2>4 DEF ProxySignal, Fallback
<1> QED
  BY <1>1, <1>2, <1>3, <1>4 DEF Audit

\* A batch that compiles is only refused for having nothing to learn from.
THEOREM AuditTrustsVerifier == Spec => []AuditAgreesWithVerifier
<1>1. IInv => AuditAgreesWithVerifier
  BY AuditAdmits DEF AuditAgreesWithVerifier
<1> QED
  BY <1>1, Consistency, PTL

-----------------------------------------------------------------------------
(* What there is to learn *)

\* A mean is no more than its largest summand: the bonus for delegating stays
\* within its limit.
LEMMA MeanIsBounded ==
  ASSUME NEW a \in Nat, NEW w \in Nat, NEW k \in Nat, k # 0, w <= k
  PROVE  (a * w) \div k <= a
<1> DEFINE q == (a * w) \div k
<1>1. q \in Nat /\ k * q <= a * w
  OBVIOUS
<1>2. a * w <= a * k
  OBVIOUS
<1> HIDE DEF q
<1>3. k * q <= k * a
  <2>1. a * w \in Nat /\ a * k = k * a
    OBVIOUS
  <2> QED
    BY <1>1, <1>2, <2>1
<1>4. q <= a
  <2> SUFFICES ASSUME q >= a + 1 PROVE FALSE
    BY <1>1
  <2>1. k * q >= k * (a + 1)
    BY <1>1
  <2>2. k * (a + 1) = k * a + k
    OBVIOUS
  <2> QED
    BY <1>1, <1>3, <2>1, <2>2
<1> QED
  BY <1>4 DEF q

\* A success is worth Unit or more, anything else the bonus at most.
LEMMA RewardBounds ==
  ASSUME NEW n \in Node
  PROVE  /\ Value(n) = 1 => Reward(n) >= Unit
         /\ Value(n) = 0 => Reward(n) <= DelegationLambda
<1> DEFINE C == Counted(n)
           W == {m \in C : Value(m) = 1}
<1>1. IsFiniteSet(C) /\ W \subseteq C
  <2>1. Counted(n) \subseteq Children(n)
    BY DEF Counted
  <2> QED
    BY <2>1, ChildrenFinite, FS_Subset
<1>2. /\ Cardinality(C) \in Nat /\ Cardinality(W) \in Nat
      /\ Cardinality(W) <= Cardinality(C) /\ (C # {} => Cardinality(C) # 0)
  <2> HIDE DEF C, W
  <2> QED
    BY <1>1, FS_Subset, FS_CardinalityType, FS_EmptySet
<1>3. CASE C = {}
  BY <1>3, ConstantsAssumption DEF Reward
<1>4. CASE C # {}
  <2> DEFINE q == (DelegationLambda * Cardinality(W)) \div Cardinality(C)
  <2>1. Reward(n) = Unit * Value(n) + q
    BY <1>4 DEF Reward, Successes
  <2> HIDE DEF C, W
  <2>2. q \in Nat /\ q <= DelegationLambda
    <3>1. DelegationLambda * Cardinality(W) \in Nat
      BY <1>2, ConstantsAssumption
    <3>2. q \in Nat
      BY <1>2, <1>4, <3>1
    <3> QED
      BY <1>2, <1>4, <3>2, MeanIsBounded, ConstantsAssumption
  <2> HIDE DEF q
  <2> QED
    BY <2>1, <2>2, ConstantsAssumption
<1> QED
  BY <1>3, <1>4

\* When the roots of a group have not all been given the same, one of them has
\* been given more than the others on average.
LEMMA SomeRootGains ==
  ASSUME NEW g \in Group, NEW r0 \in RolloutsOf(g), NEW r1 \in RolloutsOf(g),
         Reward(RootOf(r0)) # Reward(RootOf(r1))
  PROVE  \E r \in RolloutsOf(g) : Advantage(RootOf(r)) > 0
<1> DEFINE R == RolloutsOf(g)
<1>1. /\ IsFiniteSet(R) /\ R \subseteq Rollout /\ Cardinality(R) = GroupSize
      /\ r0 \in R /\ r1 \in R
  BY GroupFacts
<1> HIDE DEF R
<1>2. PICK it : Sums(it, RewardOf, R)
  BY <1>1, SumsExist
<1> DEFINE T == it[R]
<1>3. /\ T \in Nat
      /\ \A r \in R : RewardOf[r] \in Nat /\ Baseline(r) = T - RewardOf[r]
  BY <1>2, BaselineFacts DEF R
<1>4. RewardOf[r0] # RewardOf[r1]
  BY <1>1 DEF RewardOf
<1> DEFINE lag == [r \in R |-> T - GroupSize * RewardOf[r]]
<1>5. ASSUME NEW r \in R PROVE Advantage(RootOf(r)) = - lag[r] /\ lag[r] \in Int
  <2>1. RootOf(r)[1] = r
    BY DEF RootOf
  <2>2. Advantage(RootOf(r)) = (GroupSize - 1) * RewardOf[r] - Baseline(r)
    BY <1>1, <2>1 DEF Advantage, RewardOf
  <2>3. (GroupSize - 1) * RewardOf[r] = GroupSize * RewardOf[r] - RewardOf[r]
    BY <1>3, ConstantsAssumption
  <2>4. GroupSize * RewardOf[r] \in Int /\ RewardOf[r] \in Int /\ T \in Int
    BY <1>3, ConstantsAssumption
  <2>5. lag[r] = T - GroupSize * RewardOf[r]
    OBVIOUS
  <2> HIDE DEF T, lag
  <2> QED
    BY <1>3, <2>2, <2>3, <2>4, <2>5
<1>6. PICK jt : Sums(jt, lag, R)
  <2> HIDE DEF lag
  <2> QED
    BY <1>1, SumsExist
<1>7. jt[R] = 0
  <2>1. /\ \A r \in R : RewardOf[r] \in Int
        /\ - GroupSize \in Int /\ - T \in Int /\ T \in Int /\ GroupSize \in Int
    BY <1>3, ConstantsAssumption
  <2>2. \A r \in R : Affine(lag[r], - GroupSize, RewardOf[r], - T, 1)
    <3> SUFFICES ASSUME NEW r \in R PROVE lag[r] = (- GroupSize) * RewardOf[r] - (- T) * 1
      BY DEF Affine
    <3>1. lag[r] = T - GroupSize * RewardOf[r] /\ RewardOf[r] \in Int
      BY <2>1
    <3>2. (- GroupSize) * RewardOf[r] = - (GroupSize * RewardOf[r])
      BY <2>1, <3>1
    <3> HIDE DEF T, lag
    <3> QED
      BY <2>1, <3>1, <3>2
  <2>3. Affine(jt[R], - GroupSize, it[R], - T, Cardinality(R))
    <3> HIDE DEF lag, T
    <3> QED
      BY <1>1, <1>2, <1>6, <2>1, <2>2, SumsAffine, Zenon
  <2>4. jt[R] = (- GroupSize) * T - (- T) * GroupSize
    BY <1>1, <2>3 DEF Affine
  <2> HIDE DEF T
  <2> QED
    BY <2>1, <2>4
<1>8. ASSUME \A r \in R : lag[r] \in Nat
      PROVE  \A r \in R : lag[r] = 0
  <2> HIDE DEF lag
  <2>1. \A s \in SUBSET R : jt[s] \in Nat
    BY <1>1, <1>6, <1>8, SumsNatural
  <2> SUFFICES ASSUME NEW r \in R PROVE lag[r] = 0
    OBVIOUS
  <2>2. jt[R] = lag[r] + jt[R \ {r}]
    BY <1>1, <1>5, <1>6, SumsMinus
  <2>3. jt[R \ {r}] \in Nat
    BY <2>1
  <2> QED
    BY <1>7, <1>8, <2>2, <2>3
<1>9. PICK r \in R : ~(lag[r] \in Nat)
  <2> SUFFICES ASSUME \A r \in R : lag[r] \in Nat PROVE FALSE
    OBVIOUS
  <2>1. GroupSize * RewardOf[r0] = T /\ GroupSize * RewardOf[r1] = T
    <3>1. T - GroupSize * RewardOf[r0] = 0 /\ T - GroupSize * RewardOf[r1] = 0
      BY <1>1, <1>8
    <3>2. GroupSize * RewardOf[r0] \in Int /\ GroupSize * RewardOf[r1] \in Int /\ T \in Int
      BY <1>1, <1>3, ConstantsAssumption
    <3> HIDE DEF T
    <3> QED
      BY <3>1, <3>2
  <2>2. GroupSize * RewardOf[r0] = GroupSize * RewardOf[r1]
    BY <2>1
  <2>3. RewardOf[r0] \in Nat /\ RewardOf[r1] \in Nat
    BY <1>1, <1>3
  <2> HIDE DEF T, lag
  <2> QED
    BY <1>4, <2>2, <2>3, ConstantsAssumption
<1>10. Advantage(RootOf(r)) > 0
  <2> HIDE DEF lag
  <2> QED
    BY <1>5, <1>9
<1> QED
  BY <1>10 DEF R

\* A round with something to learn from is trained on: neither the compiler nor
\* the audit sends it back to be collected again.
THEOREM TrainsOnASignal == Spec => SignalIsTrained
<1>1. ASSUME IInv, [Next]_vars, phase = "verifying", phase' # "verifying", HasSignal
      PROVE  phase' = "training"
  <2>1. CompileRound
    BY <1>1 DEF Next, vars, Collect, RuleOut, JudgeAnswers, JudgeFails, Propagate, Asking
  <2>2. PICK g \in Group : /\ \A r \in RolloutsOf(g) : Trainable(RootOf(r))
                           /\ {Value(RootOf(r)) : r \in RolloutsOf(g)} = {0, 1}
    BY <1>1 DEF HasSignal
  <2>3. PICK r0 \in RolloutsOf(g), r1 \in RolloutsOf(g) :
          Value(RootOf(r0)) = 0 /\ Value(RootOf(r1)) = 1
    <3>1. {0, 1} \subseteq {Value(RootOf(r)) : r \in RolloutsOf(g)}
      BY <2>2
    <3> QED
      BY <3>1
  <2>4. \A r \in RolloutsOf(g) : RootOf(r) \in Node
    BY GroupFacts
  <2>5. Reward(RootOf(r0)) # Reward(RootOf(r1))
    <3>1. Reward(RootOf(r0)) <= DelegationLambda /\ Reward(RootOf(r1)) >= Unit
      BY <2>3, <2>4, RewardBounds
    <3>2. Reward(RootOf(r0)) \in Nat /\ Reward(RootOf(r1)) \in Nat
      BY <2>4, RewardNatural
    <3>3. DelegationLambda < Unit
      BY <1>1 DEF HasSignal
    <3> QED
      BY <3>1, <3>2, <3>3, ConstantsAssumption
  <2>6. PICK n \in Candidates : Advantage(n) > 0
    <3>1. PICK r \in RolloutsOf(g) : Advantage(RootOf(r)) > 0
      BY <2>5, SomeRootGains
    <3> QED
      BY <2>2, <2>4, <3>1 DEF Candidates
  <2>7. Compiles
    BY <1>1, <2>6 DEF HasSignal, Compiles
  <2>8. Positive # {}
    BY <2>3, <2>4 DEF Positive
  <2>9. Audit = {}
    <3>1. Audit \subseteq {"no positive reward", "no positive advantage"}
      BY <1>1, <2>7, AuditAdmits
    <3>2. "no positive reward" \notin Audit
      BY <2>8 DEF Audit
    <3>3. "no positive advantage" \notin Audit
      BY <2>6 DEF Audit
    <3> QED
      BY <3>1, <3>2, <3>3
  <2> QED
    BY <2>1, <2>7, <2>9 DEF CompileRound
<1>2. IInv /\ [Next]_vars =>
        [(phase = "verifying" /\ phase' # "verifying" /\ HasSignal) => phase' = "training"]_vars
  BY <1>1
<1> QED
  BY <1>2, Consistency, PTL DEF Spec, SignalIsTrained
=============================================================================
