----------------------------- MODULE DdminProofs -----------------------------
(***************************************************************************)
(* Machine-checked facts about Ddmin, for every number of items N.         *)
(***************************************************************************)
EXTENDS MCDdmin, SequenceTheorems, WellFoundedInduction, TLAPS

-------------------------------------------------------------------------------
(***************************************************************************)
(* The partition arithmetic.                                               *)
(***************************************************************************)

\* Division facts about a slice of n items cut into g parts: the remainder is
\* less than g and every part gets at least one item.
LEMMA DivMod ==
    ASSUME NEW n \in Nat, NEW g \in 1..n
    PROVE  /\ n \div g \in Nat \ {0}
           /\ n % g \in 0..(g - 1)
           /\ n = g * (n \div g) + (n % g)
<1>1. n % g \in 0..(g - 1) /\ n = g * (n \div g) + (n % g) /\ n \div g \in Int
  OBVIOUS
<1>2. n \div g >= 1
  <2> DEFINE q == n \div g
  <2>1. SUFFICES ASSUME q <= 0 PROVE FALSE
    BY <1>1
  <2>2. g * q <= 0
    BY <1>1, <2>1
  <2> QED
    BY <1>1, <2>2
<1> QED
  BY <1>1, <1>2

\* Offsets of consecutive parts increase strictly and stay inside the slice.
LEMMA StartBounds ==
    ASSUME NEW n \in Nat, NEW g \in 1..n, NEW i \in 0..(g - 1)
    PROVE  /\ Start(n, g, i) \in 0..n
           /\ Start(n, g, i + 1) \in 0..n
           /\ Start(n, g, i) < Start(n, g, i + 1)
<1> DEFINE q == n \div g
           r == n % g
<1>1. q \in Nat \ {0} /\ r \in 0..(g - 1) /\ n = g * q + r
  BY DivMod
<1>2. /\ i * q \in Nat /\ (i + 1) * q \in Nat
      /\ (i + 1) * q = i * q + q
  BY <1>1
<1>3. (i + 1) * q <= g * q
  <2>1. g - (i + 1) \in Nat
    OBVIOUS
  <2>2. (g - (i + 1)) * q >= 0
    BY <1>1, <2>1
  <2> QED
    BY <1>1, <2>2
<1>4. /\ Start(n, g, i) = i * q + Least(i, r)
      /\ Start(n, g, i + 1) = (i + 1) * q + Least(i + 1, r)
  BY DEF Start
<1>5. /\ Least(i, r) \in Nat /\ Least(i + 1, r) \in Nat
      /\ Least(i, r) <= Least(i + 1, r)
      /\ Least(i + 1, r) <= r
  BY <1>1 DEF Least
<1>6. g * q \in Nat
  BY <1>1
<1> HIDE DEF q, r
<1> QED
  BY <1>1, <1>2, <1>3, <1>4, <1>5, <1>6

\* Cutting n items into n parts gives one item per part.
LEMMA SingletonParts ==
    ASSUME NEW n \in Nat \ {0}, NEW i \in 0..n
    PROVE  Start(n, n, i) = i
<1>1. n \div n = 1 /\ n % n = 0
  OBVIOUS
<1> QED
  BY <1>1 DEF Start, Least

-------------------------------------------------------------------------------
(***************************************************************************)
(* Parts and complements of a sequence.                                    *)
(***************************************************************************)

\* Every part is a non-empty slice of `s`, shorter than `s` when g >= 2.
LEMMA PartProperties ==
    ASSUME NEW S, NEW s \in Seq(S), NEW g \in 2..Len(s), NEW i \in 0..(g - 1)
    PROVE  /\ Part(s, g, i) \in Seq(S)
           /\ Len(Part(s, g, i)) \in 1..(Len(s) - 1)
           /\ Len(Part(s, g, i)) = Start(Len(s), g, i + 1) - Start(Len(s), g, i)
           /\ \A k \in 1..Len(Part(s, g, i)) :
                 Part(s, g, i)[k] = s[Start(Len(s), g, i) + k]
<1> DEFINE a == Start(Len(s), g, i)
           b == Start(Len(s), g, i + 1)
<1>0. Len(s) \in Nat /\ g \in 1..Len(s)
  OBVIOUS
<1>1. a \in 0..Len(s) /\ b \in 0..Len(s) /\ a < b
  BY <1>0, StartBounds
<1>2. b - a < Len(s)
  \* Some other part is not empty: the first one or the last one.
  <2>1. CASE i = 0
    <3>1. i + 1 \in 0..(g - 1)
      BY <2>1
    <3>2. b < Start(Len(s), g, i + 2) /\ Start(Len(s), g, i + 2) \in 0..Len(s)
      <4>1. Start(Len(s), g, (i + 1) + 1) = Start(Len(s), g, i + 2)
        BY <2>1
      <4> QED
        BY <1>0, <3>1, <4>1, StartBounds
    <3> QED
      BY <1>1, <3>2
  <2>2. CASE i > 0
    <3>1. i - 1 \in 0..(g - 1)
      BY <2>2
    <3>2. Start(Len(s), g, i - 1) \in 0..Len(s) /\ Start(Len(s), g, i - 1) < a
      <4>1. Start(Len(s), g, (i - 1) + 1) = a
        BY <2>2
      <4> QED
        BY <1>0, <3>1, <4>1, StartBounds
    <3> QED
      BY <1>1, <3>2
  <2> QED
    BY <2>1, <2>2
<1>3. Part(s, g, i) = SubSeq(s, a + 1, b)
  BY DEF Part
<1> HIDE DEF a, b
<1>4. \A j \in (a + 1)..b : s[j] \in S
  BY <1>1, ElementOfSeq
<1>5. /\ SubSeq(s, a + 1, b) \in Seq(S)
      /\ Len(SubSeq(s, a + 1, b)) = b - a
      /\ \A k \in 1..(b - a) : SubSeq(s, a + 1, b)[k] = s[a + k]
  BY <1>1, <1>4, SubSeqProperties
<1>6. b - a \in 1..(Len(s) - 1)
  BY <1>1, <1>2
<1> QED
  BY <1>3, <1>5, <1>6 DEF a, b

\* A cut keeps a prefix and a suffix of `s` and loses what lies between.
LEMMA CutProperties ==
    ASSUME NEW S, NEW s \in Seq(S), NEW a \in 0..Len(s), NEW b \in a..Len(s)
    PROVE  /\ Cut(s, a, b) \in Seq(S)
           /\ Len(Cut(s, a, b)) = Len(s) - (b - a)
           /\ \A k \in 1..Len(Cut(s, a, b)) :
                 Cut(s, a, b)[k] = IF k <= a THEN s[k] ELSE s[k + (b - a)]
<1> DEFINE left == SubSeq(s, 1, a)
           right == SubSeq(s, b + 1, Len(s))
           cut == Cut(s, a, b)
<1>0. Len(s) \in Nat /\ a \in Nat /\ b \in Nat /\ a <= b /\ b <= Len(s)
  OBVIOUS
<1>1. \A j \in 1..Len(s) : s[j] \in S
  BY ElementOfSeq
<1>2. /\ left \in Seq(S)
      /\ Len(left) = a
      /\ \A k \in 1..a : left[k] = s[k]
  <2>1. \A j \in 1..a : s[j] \in S
    BY <1>0, <1>1
  <2> QED
    BY <1>0, <2>1, SubSeqProperties
<1>3. /\ right \in Seq(S)
      /\ Len(right) = Len(s) - b
      /\ \A k \in 1..(Len(s) - b) : right[k] = s[b + k]
  <2>1. \A j \in (b + 1)..Len(s) : s[j] \in S
    BY <1>0, <1>1
  <2> QED
    BY <1>0, <2>1, SubSeqProperties
<1>4. cut = left \o right
  BY DEF Cut
<1> HIDE DEF left, right, cut
<1>5. /\ cut \in Seq(S)
      /\ Len(cut) = Len(left) + Len(right)
      /\ \A k \in 1..(Len(left) + Len(right)) :
            cut[k] = IF k <= Len(left) THEN left[k] ELSE right[k - Len(left)]
  BY <1>2, <1>3, <1>4, ConcatProperties
<1>6. Len(cut) = Len(s) - (b - a)
  BY <1>0, <1>2, <1>3, <1>5
<1>7. ASSUME NEW k \in 1..Len(cut)
      PROVE  cut[k] = IF k <= a THEN s[k] ELSE s[k + (b - a)]
  <2>0. k \in Nat /\ k >= 1 /\ k <= Len(s) - (b - a)
    BY <1>0, <1>6
  <2>1. cut[k] = IF k <= a THEN left[k] ELSE right[k - a]
    BY <1>2, <1>5
  <2>2. CASE k <= a
    BY <1>0, <1>2, <2>0, <2>1, <2>2
  <2>3. CASE ~(k <= a)
    <3>1. k - a \in 1..(Len(s) - b) /\ b + (k - a) = k + (b - a)
      BY <1>0, <2>0, <2>3
    <3> QED
      BY <1>3, <2>1, <2>3, <3>1
  <2> QED
    BY <2>2, <2>3
<1> QED
  BY <1>5, <1>6, <1>7 DEF cut

\* Every complement is a non-empty proper part of `s`.
LEMMA ComplementProperties ==
    ASSUME NEW S, NEW s \in Seq(S), NEW g \in 2..Len(s), NEW i \in 0..(g - 1)
    PROVE  /\ Complement(s, g, i) \in Seq(S)
           /\ Len(Complement(s, g, i)) \in 1..(Len(s) - 1)
<1> DEFINE a == Start(Len(s), g, i)
           b == Start(Len(s), g, i + 1)
<1>1. a \in 0..Len(s) /\ b \in a..Len(s) /\ b - a \in 1..(Len(s) - 1)
  <2>1. Len(s) \in Nat /\ g \in 1..Len(s)
    OBVIOUS
  <2>2. a \in 0..Len(s) /\ b \in 0..Len(s) /\ a < b
    BY <2>1, StartBounds
  <2>3. b - a \in 1..(Len(s) - 1)
    BY PartProperties
  <2> QED
    BY <2>1, <2>2, <2>3
<1>2. Complement(s, g, i) = Cut(s, a, b)
  BY DEF Complement
<1> HIDE DEF a, b
<1>3. Cut(s, a, b) \in Seq(S) /\ Len(Cut(s, a, b)) = Len(s) - (b - a)
  BY <1>1, CutProperties
<1> QED
  BY <1>1, <1>2, <1>3

-------------------------------------------------------------------------------
(***************************************************************************)
(* One-minimality.                                                         *)
(***************************************************************************)

\* While the search runs, partition's clamp changes nothing and the candidate
\* is a non-empty proper part of the kept set.
LEMMA CandidateInLoop ==
    ASSUME TypeOK, LoopBounds, Searching
    PROVE  /\ Parts = granularity
           /\ Candidate \in Seq(1..N)
           /\ Len(Candidate) \in 1..(Len(current) - 1)
<1>1. /\ current \in Seq(1..N) /\ Len(current) \in Nat
      /\ granularity \in 2..Len(current)
      /\ index \in 0..(granularity - 1)
  BY DEF TypeOK, LoopBounds
<1>2. Parts = granularity
  BY <1>1 DEF Parts, PartCount, Least, Greatest
<1>3. CASE phase = "subsets"
  BY <1>1, <1>2, <1>3, PartProperties DEF Candidate
<1>4. CASE phase = "complements"
  BY <1>1, <1>2, <1>4, ComplementProperties DEF Candidate
<1> QED
  BY <1>2, <1>3, <1>4 DEF Searching

\* Adopting a shorter candidate restarts the loop, or ends it with one item.
LEMMA ReduceKeepsInv ==
    ASSUME NEW s \in Seq(1..N), Len(s) >= 1, NEW g \in Nat,
           Len(s) >= 2 => g \in 2..Len(s),
           tests \in Nat, ReduceTo(s, g)
    PROVE  SearchInv'
<1>0. Len(s) \in Nat
  OBVIOUS
<1>1. /\ current' = s /\ granularity' = g /\ index' = 0
      /\ tests' = tests + 1 /\ refuted' = {}
      /\ phase' = IF Len(s) >= 2 THEN "subsets" ELSE "done"
  BY DEF ReduceTo, LoopPhase
<1>2. TypeOK'
  BY <1>1 DEF TypeOK
<1>3. LoopBounds'
  BY <1>0, <1>1 DEF LoopBounds, Searching
<1>4. ComplementsRefuted'
  BY <1>1 DEF ComplementsRefuted
<1>5. ResultOneMinimal'
  BY <1>0, <1>1 DEF ResultOneMinimal
<1> QED
  BY <1>2, <1>3, <1>4, <1>5 DEF SearchInv

\* When the parts are single items, dropping part i is dropping item i + 1.
LEMMA ComplementOfSingleton ==
    ASSUME NEW S, NEW s \in Seq(S), Len(s) >= 1, NEW k \in 1..Len(s)
    PROVE  Complement(s, Len(s), k - 1) = Without(s, k)
<1>1. Len(s) \in Nat \ {0} /\ k - 1 \in 0..Len(s) /\ k \in 0..Len(s)
  OBVIOUS
<1>2. Start(Len(s), Len(s), k - 1) = k - 1 /\ Start(Len(s), Len(s), k) = k
  BY <1>1, SingletonParts
<1>3. (k - 1) + 1 = k
  OBVIOUS
<1> QED
  BY <1>2, <1>3 DEF Complement, Without

LEMMA SearchInvInit == Init => SearchInv
<1> SUFFICES ASSUME Init PROVE SearchInv
  OBVIOUS
<1>0. N \in Nat
  BY NAssumption
<1>1. current \in Seq(1..N) /\ Len(current) = N
  <2>1. current \in [1..N -> 1..N]
    BY DEF Init
  <2> QED
    BY <1>0, <2>1
<1>2. phase = IF N >= 2 THEN "subsets" ELSE "done"
  BY <1>1 DEF Init, LoopPhase
<1>3. TypeOK
  BY <1>0, <1>1, <1>2 DEF Init, TypeOK, Least
<1>4. LoopBounds
  BY <1>0, <1>1, <1>2 DEF Init, LoopBounds, Searching, Least
<1>5. ComplementsRefuted
  BY <1>2 DEF ComplementsRefuted
<1>6. ResultOneMinimal
  BY <1>0, <1>1, <1>2 DEF ResultOneMinimal
<1> QED
  BY <1>3, <1>4, <1>5, <1>6 DEF SearchInv

LEMMA SearchInvStep == SearchInv /\ [Next]_vars => SearchInv'
<1> SUFFICES ASSUME SearchInv, [Next]_vars PROVE SearchInv'
  OBVIOUS
<1> USE DEF SearchInv
<1>0. N \in Nat
  BY NAssumption
<1>t. /\ current \in Seq(1..N) /\ Len(current) \in Nat
      /\ granularity \in Nat /\ index \in Nat /\ tests \in Nat
      /\ refuted \subseteq Seq(1..N)
  BY DEF TypeOK
<1>c. Searching =>
         /\ Parts = granularity
         /\ Candidate \in Seq(1..N)
         /\ Len(Candidate) \in 1..(Len(current) - 1)
         /\ granularity \in 2..Len(current)
         /\ index \in 0..(granularity - 1)
  BY <1>t, CandidateInLoop DEF LoopBounds
<1>1. CASE KeepSubset
  <2>1. Searching
    BY <1>1 DEF KeepSubset, Searching
  <2>2. /\ AfterSubset(Candidate) \in Nat
        /\ Len(Candidate) >= 2 =>
              AfterSubset(Candidate) \in 2..Len(Candidate)
    BY <1>c, <2>1 DEF AfterSubset, Least
  <2> QED
    BY <1>1, <1>c, <1>t, <2>1, <2>2, ReduceKeepsInv DEF KeepSubset
<1>2. CASE KeepComplement
  <2>1. Searching
    BY <1>2 DEF KeepComplement, Searching
  <2>2. /\ AfterComplement(Candidate) \in Nat
        /\ Len(Candidate) >= 2 =>
              AfterComplement(Candidate) \in 2..Len(Candidate)
    BY <1>c, <1>t, <2>1 DEF AfterComplement, Least, Greatest
  <2> QED
    BY <1>2, <1>c, <1>t, <2>1, <2>2, ReduceKeepsInv DEF KeepComplement
<1>r. ASSUME Refute
      PROVE  /\ Searching /\ current' = current /\ tests' \in Nat
             /\ refuted' = refuted \cup {Candidate}
             /\ refuted' \subseteq Seq(1..N)
             /\ phase = "complements" =>
                   \A i \in 0..index :
                      Complement(current, granularity, i) \in refuted'
  <2>1. /\ Searching /\ current' = current /\ tests' \in Nat
        /\ refuted' = refuted \cup {Candidate}
    BY <1>r, <1>t DEF Refute
  <2>2. refuted' \subseteq Seq(1..N)
    BY <1>c, <1>t, <2>1
  <2>3. ASSUME phase = "complements", NEW i \in 0..index
        PROVE  Complement(current, granularity, i) \in refuted'
    <3>1. CASE i = index
      <4>1. Candidate = Complement(current, granularity, index)
        BY <1>c, <2>1, <2>3 DEF Candidate
      <4> QED
        BY <2>1, <3>1, <4>1
    <3>2. CASE i \in 0..(index - 1)
      BY <2>1, <2>3, <3>2 DEF ComplementsRefuted
    <3> QED
      BY <1>t, <3>1, <3>2
  <2> QED
    BY <2>1, <2>2, <2>3
<1>3. CASE NextPart
  <2>1. /\ Refute /\ index + 1 < Parts /\ index' = index + 1
        /\ granularity' = granularity /\ phase' = phase
    BY <1>3 DEF NextPart
  <2>2. TypeOK'
    BY <1>r, <1>t, <2>1 DEF TypeOK
  <2>3. LoopBounds'
    BY <1>c, <1>r, <1>t, <2>1 DEF LoopBounds, Searching
  <2>4. ComplementsRefuted'
    <3>1. 0..(index' - 1) = 0..index
      BY <1>t, <2>1
    <3> QED
      BY <1>r, <2>1, <3>1 DEF ComplementsRefuted
  <2>5. ResultOneMinimal'
    BY <1>r, <2>1 DEF ResultOneMinimal, Searching
  <2> QED
    BY <2>2, <2>3, <2>4, <2>5
<1>4. CASE SubsetsExhausted
  <2>1. /\ Refute /\ phase' = "complements" /\ index' = 0
        /\ granularity' = granularity
    BY <1>4 DEF SubsetsExhausted
  <2>2. TypeOK'
    BY <1>r, <1>t, <2>1 DEF TypeOK
  <2>3. LoopBounds'
    BY <1>c, <1>r, <1>t, <2>1 DEF LoopBounds
  <2>4. ComplementsRefuted' /\ ResultOneMinimal'
    BY <2>1 DEF ComplementsRefuted, ResultOneMinimal
  <2> QED
    BY <2>2, <2>3, <2>4
<1>5. CASE Refine
  <2>1. /\ Refute /\ phase' = "subsets" /\ index' = 0
        /\ granularity < Len(current)
        /\ granularity' = Least(granularity * 2, Len(current))
    BY <1>5 DEF Refine
  <2>2. granularity' \in 2..Len(current)
    BY <1>c, <1>r, <1>t, <2>1 DEF Least
  <2>3. TypeOK'
    BY <1>r, <1>t, <2>1, <2>2 DEF TypeOK
  <2>4. LoopBounds'
    BY <1>r, <1>t, <2>1, <2>2 DEF LoopBounds
  <2>5. ComplementsRefuted' /\ ResultOneMinimal'
    BY <2>1 DEF ComplementsRefuted, ResultOneMinimal
  <2> QED
    BY <2>3, <2>4, <2>5
<1>6. CASE Finish
  <2>1. /\ Refute /\ phase = "complements" /\ phase' = "done"
        /\ index + 1 = Parts /\ granularity >= Len(current)
        /\ granularity' = granularity /\ index' = index
    BY <1>6 DEF Finish
  <2>2. TypeOK'
    BY <1>r, <1>t, <2>1 DEF TypeOK
  <2>3. LoopBounds' /\ ComplementsRefuted'
    BY <2>1 DEF LoopBounds, Searching, ComplementsRefuted
  <2>4. ResultOneMinimal'
    <3>1. granularity = Len(current) /\ index = Len(current) - 1
      BY <1>c, <1>r, <1>t, <2>1
    <3>2. ASSUME NEW k \in 1..Len(current)
          PROVE  Without(current, k) \in refuted'
      <4>1. k - 1 \in 0..index
        BY <1>t, <3>1
      <4>2. Complement(current, Len(current), k - 1) \in refuted'
        BY <1>r, <2>1, <3>1, <4>1
      <4>3. Len(current) >= 1
        BY <1>t
      <4> QED
        BY <1>t, <4>2, <4>3, ComplementOfSingleton
    <3> QED
      BY <1>r, <2>1, <3>2 DEF ResultOneMinimal
  <2> QED
    BY <2>2, <2>3, <2>4
<1>7. CASE PredicateError
  BY <1>7, <1>t
  DEF PredicateError, TypeOK, LoopBounds, Searching, ComplementsRefuted,
      ResultOneMinimal
<1>8. CASE UNCHANGED vars
  BY <1>8
  DEF vars, TypeOK, LoopBounds, Searching, ComplementsRefuted, ResultOneMinimal
<1> QED
  BY <1>1, <1>2, <1>3, <1>4, <1>5, <1>6, <1>7, <1>8 DEF Next

\* The inductive invariant holds for every number of items and every pattern of
\* predicate verdicts.
THEOREM SearchInvariant == Spec => []SearchInv
<1>1. Init => SearchInv
  BY SearchInvInit
<1>2. SearchInv /\ [Next]_vars => SearchInv'
  BY SearchInvStep
<1> QED
  BY <1>1, <1>2, PTL DEF Spec

\* Types of the loop's variables.
THEOREM TypeCorrect == Spec => []TypeOK
<1>1. SearchInv => TypeOK
  BY DEF SearchInv
<1> QED
  BY <1>1, SearchInvariant, PTL

\* `minimize` returns a 1-minimal result: with two items or more left, each set
\* missing one of them was tested after the result was adopted, and refused.
THEOREM OneMinimality == Spec => []ResultOneMinimal
<1>1. SearchInv => ResultOneMinimal
  BY DEF SearchInv
<1> QED
  BY <1>1, SearchInvariant, PTL

\* No predicate call is spent on the empty set or on the whole kept set.
THEOREM ProperCandidates == Spec => []CandidateProper
<1>1. SearchInv => CandidateProper
  BY CandidateInLoop DEF SearchInv, CandidateProper
<1> QED
  BY <1>1, SearchInvariant, PTL

\* Keeping such a candidate leaves something of `current`.
LEMMA NonEmptyStep ==
    SearchInv /\ [Next]_vars /\ current # <<>> => current' # <<>>
<1> SUFFICES ASSUME SearchInv, [Next]_vars, current # <<>>
             PROVE  current' # <<>>
  OBVIOUS
<1>1. Searching => Candidate # <<>>
  BY CandidateInLoop DEF SearchInv
<1>2. current' = current \/ (Searching /\ current' = Candidate)
  BY DEF Next, vars, KeepSubset, KeepComplement, ReduceTo, NextPart,
         SubsetsExhausted, Refine, Finish, Refute, PredicateError, Searching
<1> QED
  BY <1>1, <1>2

-------------------------------------------------------------------------------
(***************************************************************************)
(* Order.                                                                  *)
(***************************************************************************)

\* `s` lists positions in increasing order.
Increasing(s) == \A i, j \in 1..Len(s) : i < j => s[i] < s[j]

\* Slices and cuts of an increasing sequence are increasing.
LEMMA PartIncreasing ==
    ASSUME NEW s \in Seq(1..N), NEW g \in 2..Len(s), NEW i \in 0..(g - 1),
           Increasing(s)
    PROVE  Increasing(Part(s, g, i))
<1> DEFINE a == Start(Len(s), g, i)
           b == Start(Len(s), g, i + 1)
           p == Part(s, g, i)
<1>1. a \in 0..Len(s) /\ b \in 0..Len(s)
  <2>1. Len(s) \in Nat /\ g \in 1..Len(s)
    OBVIOUS
  <2> QED
    BY <2>1, StartBounds
<1>2. Len(p) = b - a /\ \A k \in 1..Len(p) : p[k] = s[a + k]
  BY PartProperties
<1> HIDE DEF a, b, p
<1>3. ASSUME NEW j \in 1..Len(p), NEW k \in 1..Len(p), j < k
      PROVE  p[j] < p[k]
  <2>1. a + j \in 1..Len(s) /\ a + k \in 1..Len(s) /\ a + j < a + k
    BY <1>1, <1>2, <1>3
  <2> QED
    BY <1>2, <2>1 DEF Increasing
<1> QED
  BY <1>3 DEF Increasing, p

LEMMA CutIncreasing ==
    ASSUME NEW s \in Seq(1..N), NEW a \in 0..Len(s), NEW b \in a..Len(s),
           Increasing(s)
    PROVE  Increasing(Cut(s, a, b))
<1> DEFINE c == Cut(s, a, b)
           pos(k) == IF k <= a THEN k ELSE k + (b - a)
<1>0. Len(s) \in Nat /\ a \in Nat /\ b \in Nat /\ a <= b /\ b <= Len(s)
  OBVIOUS
<1>1. /\ Len(c) = Len(s) - (b - a)
      /\ \A k \in 1..Len(c) : c[k] = IF k <= a THEN s[k] ELSE s[k + (b - a)]
  BY CutProperties
<1> HIDE DEF c
<1>2. \A k \in 1..Len(c) : c[k] = s[pos(k)] /\ pos(k) \in 1..Len(s)
  BY <1>0, <1>1
<1>3. \A j, k \in 1..Len(c) : j < k => pos(j) < pos(k)
  BY <1>0, <1>1
<1>4. ASSUME NEW j \in 1..Len(c), NEW k \in 1..Len(c), j < k
      PROVE  c[j] < c[k]
  <2>1. /\ pos(j) \in 1..Len(s) /\ pos(k) \in 1..Len(s) /\ pos(j) < pos(k)
        /\ c[j] = s[pos(j)] /\ c[k] = s[pos(k)]
    BY <1>2, <1>3, <1>4
  <2> HIDE DEF pos
  <2> QED
    BY <2>1 DEF Increasing
<1> QED
  BY <1>4 DEF Increasing, c

\* Both kinds of candidate keep the order of the slice.
LEMMA CandidateIncreasing ==
    ASSUME TypeOK, LoopBounds, Searching, Increasing(current)
    PROVE  Increasing(Candidate)
<1>1. /\ current \in Seq(1..N) /\ Len(current) \in Nat
      /\ granularity \in 2..Len(current)
      /\ index \in 0..(granularity - 1)
      /\ Parts = granularity
  BY CandidateInLoop DEF TypeOK, LoopBounds
<1>2. CASE phase = "subsets"
  BY <1>1, <1>2, PartIncreasing DEF Candidate
<1>3. CASE phase = "complements"
  <2> DEFINE a == Start(Len(current), granularity, index)
             b == Start(Len(current), granularity, index + 1)
  <2>1. granularity \in 1..Len(current)
    BY <1>1
  <2>2. a \in 0..Len(current) /\ b \in 0..Len(current) /\ a < b
    BY <1>1, <2>1, StartBounds
  <2>3. Candidate = Cut(current, a, b)
    BY <1>1, <1>3 DEF Candidate, Complement
  <2> HIDE DEF a, b
  <2>4. b \in a..Len(current)
    BY <1>1, <2>2
  <2> QED
    BY <1>1, <2>2, <2>3, <2>4, CutIncreasing
<1> QED
  BY <1>2, <1>3 DEF Searching

\* The kept set lists the caller's items in the caller's order, none twice.
THEOREM OrderIsPreserved == Spec => []OrderPreserved
<1> DEFINE Inv == SearchInv /\ Increasing(current)
<1>1. Init => Inv
  <2> SUFFICES ASSUME Init PROVE Increasing(current)
    BY SearchInvInit
  <2>1. current = [i \in 1..N |-> i] /\ Len(current) = N
    BY NAssumption DEF Init
  <2> QED
    BY <2>1 DEF Increasing
<1>2. Inv /\ [Next]_vars => Inv'
  <2> SUFFICES ASSUME SearchInv, Increasing(current), [Next]_vars
               PROVE  Increasing(current)'
    BY SearchInvStep
  <2>1. CASE KeepSubset \/ KeepComplement
    <3>1. current' = Candidate /\ Searching
      BY <2>1 DEF KeepSubset, KeepComplement, ReduceTo, Searching
    <3>2. Increasing(Candidate)
      BY <3>1, CandidateIncreasing DEF SearchInv
    <3> QED
      BY <3>1, <3>2 DEF Increasing
  <2>2. CASE NextPart \/ SubsetsExhausted \/ Refine \/ Finish
    BY <2>2 DEF NextPart, SubsetsExhausted, Refine, Finish, Refute, Increasing
  <2>3. CASE PredicateError \/ UNCHANGED vars
    BY <2>3 DEF PredicateError, vars, Increasing
  <2> QED
    BY <2>1, <2>2, <2>3 DEF Next
<1>3. Inv => OrderPreserved
  BY DEF Increasing, OrderPreserved
<1> QED
  BY <1>1, <1>2, <1>3, PTL DEF Spec
-------------------------------------------------------------------------------
(***************************************************************************)
(* The number of predicate calls.                                          *)
(***************************************************************************)

\* The most calls from the head of the loop, with n items cut into g parts: one
\* item per part, every smaller size costs two rounds at worst; before that, all
\* the rounds of fewer parts are refused.
CallsLeft(n, g) ==
    IF n < 2 THEN 0
    ELSE IF g < n THEN n * n + 5 * n - 6 - 2 * g
    ELSE n * n + n - 2

\* The calls made and the calls left are never more than `most`.
CallsWithin(most) ==
    IF Searching
    THEN tests + CallsLeft(Len(current), granularity)
            <= most + index + (IF phase = "complements" THEN granularity ELSE 0)
    ELSE tests <= most

\* The two rounds of one granularity are always within the calls left, ...
LEMMA RoundsLeft ==
    ASSUME NEW n \in Nat, NEW g \in 2..n
    PROVE  CallsLeft(n, g) \in Nat /\ 2 * g <= CallsLeft(n, g)
<1>1. n * n \in Nat /\ n * n >= 2 * n
  <2>1. (n - 2) * n >= 0
    OBVIOUS
  <2> QED
    BY <2>1
<1>2. n >= 2 /\ 2 * g <= 2 * n /\ (g < n => 2 * g <= 2 * n - 2)
  OBVIOUS
<1> DEFINE sq == n * n
<1> HIDE DEF sq
<1>3. sq \in Nat /\ sq >= 2 * n
  BY <1>1 DEF sq
<1>4. CallsLeft(n, g) = IF g < n THEN sq + 5 * n - 6 - 2 * g ELSE sq + n - 2
  BY <1>2 DEF CallsLeft, sq
<1> QED
  BY <1>2, <1>3, <1>4

\* ... so is what follows when all of them are refused, ...
LEMMA RefusedRounds ==
    ASSUME NEW n \in Nat, NEW g \in 2..n, g < n
    PROVE  2 * g + CallsLeft(n, Least(g * 2, n)) <= CallsLeft(n, g)
<1> DEFINE sq == n * n
<1>1. sq \in Nat
  OBVIOUS
<1> HIDE DEF sq
<1>2. CallsLeft(n, g) = sq + 5 * n - 6 - 2 * g
  BY DEF CallsLeft, sq
<1>3. CASE g * 2 < n
  <2>1. CallsLeft(n, Least(g * 2, n)) = sq + 5 * n - 6 - 2 * (g * 2)
    BY <1>3 DEF CallsLeft, Least, sq
  <2> QED
    BY <1>1, <1>2, <2>1
<1>4. CASE g * 2 >= n
  <2>1. CallsLeft(n, Least(g * 2, n)) = sq + n - 2
    BY <1>4 DEF CallsLeft, Least, sq
  <2> QED
    BY <1>1, <1>2, <2>1
<1> QED
  BY <1>3, <1>4

\* ... when a part of w items reproduces, ...
LEMMA SubsetKept ==
    ASSUME NEW n \in Nat, NEW g \in 2..n, NEW w \in 1..(n - g + 1)
    PROVE  g + CallsLeft(w, Least(2, w)) <= CallsLeft(n, g)
<1>1. CASE w = 1
  BY <1>1, RoundsLeft DEF CallsLeft
<1>2. CASE w >= 2
  <2> DEFINE sq == n * n
             k == n - w
  <2>1. k \in Nat /\ k >= g - 1 /\ w = n - k /\ g < n
    BY <1>2
  <2>2. /\ w * w \in Nat /\ sq \in Nat
        /\ sq = w * w + k * (n + w)
    BY <2>1
  <2>3. k * (n + w) >= k * 3
    <3>1. n + w - 3 \in Nat
      BY <1>2
    <3>2. k * (n + w - 3) >= 0
      BY <2>1, <3>1
    <3> QED
      BY <2>1, <3>2
  <2>4. CallsLeft(w, Least(2, w)) <= w * w + 5 * w - 10
    BY <1>2 DEF CallsLeft, Least
  <2>5. CallsLeft(n, g) = sq + 5 * n - 6 - 2 * g
    BY <1>2, <2>1 DEF CallsLeft
  <2> DEFINE sw == w * w
             kp == k * (n + w)
  <2>6. sw \in Nat /\ sq = sw + kp /\ kp >= 3 * k /\ kp \in Int
    BY <2>1, <2>2, <2>3
  <2>7. CallsLeft(w, Least(2, w)) \in Int /\ CallsLeft(w, Least(2, w)) <= sw + 5 * w - 10
    BY <1>2, <2>4 DEF CallsLeft, Least
  <2> HIDE DEF sq, sw, kp, k
  <2> QED
    BY <2>1, <2>5, <2>6, <2>7
<1> QED
  BY <1>1, <1>2

\* ... and when a complement of m items does.
LEMMA ComplementKept ==
    ASSUME NEW n \in Nat, NEW g \in 2..n, NEW m \in 1..(n - 1)
    PROVE  2 * g + CallsLeft(m, Least(Greatest(g - 1, 2), m)) <= CallsLeft(n, g)
<1>1. CASE m = 1
  BY <1>1, RoundsLeft DEF CallsLeft
<1>2. CASE m >= 2
  <2> DEFINE sq == n * n
             sm == m * m
             h == Least(Greatest(g - 1, 2), m)
  <2>1. sq \in Nat /\ sm \in Nat /\ h \in 2..m /\ (h < m => h >= g - 1)
    BY <1>2 DEF Least, Greatest
  <2>2. sm + 2 * n - 1 <= sq
    <3>1. (n - 1 - m) * (n - 1 + m) >= 0
      OBVIOUS
    <3>2. (n - 1 - m) * (n - 1 + m) = sq - 2 * n + 1 - sm
      OBVIOUS
    <3> QED
      BY <2>1, <3>1, <3>2
  <2>3. CallsLeft(m, h) = IF h < m THEN sm + 5 * m - 6 - 2 * h ELSE sm + m - 2
    BY <1>2 DEF CallsLeft
  <2>4. CallsLeft(n, g) = IF g < n THEN sq + 5 * n - 6 - 2 * g ELSE sq + n - 2
    BY DEF CallsLeft
  <2>5. g = n => (h < m => FALSE) \/ h >= n - 1
    BY <2>1
  <2> HIDE DEF sq, sm, h
  <2>6. 2 * g + CallsLeft(m, h) <= CallsLeft(n, g)
    BY <1>2, <2>1, <2>2, <2>3, <2>4, <2>5
  <2> QED
    BY <2>6 DEF h
<1> QED
  BY <1>1, <1>2

\* The other parts hold an item each.
LEMMA PartWidth ==
    ASSUME NEW n \in Nat, NEW g \in 1..n, NEW i \in 0..(g - 1)
    PROVE  Start(n, g, i + 1) - Start(n, g, i) <= n - g + 1
<1> DEFINE q == n \div g
           r == n % g
<1>1. q \in Nat \ {0} /\ r \in 0..(g - 1) /\ n = g * q + r
  BY DivMod
<1>2. /\ Start(n, g, i) = i * q + Least(i, r)
      /\ Start(n, g, i + 1) = (i + 1) * q + Least(i + 1, r)
  BY DEF Start
<1>3. (i + 1) * q = i * q + q /\ i * q \in Nat /\ g * q \in Nat
  BY <1>1
<1>4. /\ Least(i, r) \in Nat /\ Least(i + 1, r) \in Nat
      /\ Least(i + 1, r) <= Least(i, r) + 1 /\ (r = 0 => Least(i + 1, r) = 0)
  BY <1>1 DEF Least
<1>5. g * q - g - q + 1 >= 0
  <2>1. (g - 1) * (q - 1) >= 0
    BY <1>1
  <2>2. (g - 1) * (q - 1) = g * q - g - q + 1
    BY <1>1
  <2> QED
    BY <2>1, <2>2
<1> HIDE DEF q, r
<1> QED
  BY <1>1, <1>2, <1>3, <1>4, <1>5

LEMMA MostTestsTyped == ASSUME NEW n \in Nat PROVE MostTests(n) \in Nat
<1> DEFINE sq == n * n
<1>1. n >= 2 => sq >= 2 * n /\ sq \in Nat
  <2>1. n >= 2 => (n - 2) * n >= 0
    OBVIOUS
  <2> QED
    BY <2>1
<1>2. MostTests(n) = IF n < 2 THEN 0 ELSE sq + 5 * n - 10
  BY DEF MostTests
<1> HIDE DEF sq
<1> QED
  BY <1>1, <1>2

\* The calls left at the start, for n items cut in two.
LEMMA CallsAtStart ==
    ASSUME NEW n \in Nat
    PROVE  CallsLeft(n, Least(2, n)) <= MostTests(n)
<1> DEFINE sq == n * n
<1>1. sq \in Nat
  OBVIOUS
<1>2. /\ MostTests(n) = IF n < 2 THEN 0 ELSE sq + 5 * n - 10
      /\ CallsLeft(n, Least(2, n)) = IF n < 2 THEN 0
                                     ELSE IF 2 < n THEN sq + 5 * n - 10
                                     ELSE sq + n - 2
  BY DEF MostTests, CallsLeft, Least
<1> HIDE DEF sq
<1> QED
  BY <1>1, <1>2

LEMMA CallsStep ==
    ASSUME NEW most \in Nat, SearchInv, CallsWithin(most), [Next]_vars
    PROVE  CallsWithin(most)'
<1> DEFINE n == Len(current)
           g == granularity
<1>0. N \in Nat /\ TypeOK /\ LoopBounds /\ tests \in Nat /\ index \in Nat
  BY NAssumption DEF SearchInv, TypeOK
<1>1. CASE UNCHANGED vars
  BY <1>1 DEF vars, CallsWithin, Searching
<1> SUFFICES ASSUME Next PROVE CallsWithin(most)'
  BY <1>1
<1>2. Searching
  BY DEF Next, KeepSubset, KeepComplement, NextPart, SubsetsExhausted, Refine, Finish,
         PredicateError, Refute, Searching
<1>3. /\ Parts = g /\ Len(Candidate) \in 1..(n - 1)
      /\ n \in Nat /\ g \in 2..n /\ index \in 0..(g - 1)
  BY <1>0, <1>2, CandidateInLoop DEF LoopBounds, TypeOK
<1>4. CallsLeft(n, g) \in Nat /\ 2 * g <= CallsLeft(n, g)
  BY <1>3, RoundsLeft
<1>5. tests + CallsLeft(n, g) <= most + index + (IF phase = "complements" THEN g ELSE 0)
  BY <1>2 DEF CallsWithin
<1>6. ASSUME NEW s, NEW h, ReduceTo(s, h), Len(s) \in Nat \ {0},
             Len(s) >= 2 => h \in 2..Len(s),
             tests + 1 + CallsLeft(Len(s), h) <= most
      PROVE  CallsWithin(most)'
  <2>1. CallsLeft(Len(s), h) \in Nat
    BY <1>6, RoundsLeft DEF CallsLeft
  <2> DEFINE c == CallsLeft(Len(s), h)
  <2>2. /\ tests' = tests + 1 /\ index' = 0
        /\ CallsLeft(Len(current'), granularity') = c
        /\ phase' = IF Len(s) >= 2 THEN "subsets" ELSE "done"
    BY <1>6 DEF ReduceTo, LoopPhase
  <2> HIDE DEF c
  <2> QED
    BY <1>0, <1>6, <2>1, <2>2 DEF CallsWithin, Searching, c
<1> DEFINE left == CallsLeft(n, g)
<1>7. CASE KeepSubset
  <2> DEFINE w == Len(Candidate)
             h == AfterSubset(Candidate)
  <2>1. w \in 1..(n - g + 1)
    <3>1. current \in Seq(1..N)
      BY <1>0 DEF TypeOK
    <3>2. w = Start(n, g, index + 1) - Start(n, g, index)
      BY <1>3, <1>7, <3>1, PartProperties DEF KeepSubset, Candidate
    <3>3. Start(n, g, index + 1) - Start(n, g, index) <= n - g + 1
      BY <1>3, PartWidth
    <3> QED
      BY <1>3, <3>2, <3>3
  <2>2. h = Least(2, w)
    BY DEF AfterSubset
  <2>3. w >= 2 => h \in 2..w
    BY <1>3, <2>2 DEF Least
  <2>4. g + CallsLeft(w, h) <= left
    BY <1>3, <2>1, <2>2, SubsetKept
  <2>5. CallsLeft(w, h) \in Nat
    BY <2>1, <2>3, <1>3, RoundsLeft DEF CallsLeft
  <2>6. ReduceTo(Candidate, h) /\ phase = "subsets"
    BY <1>7 DEF KeepSubset
  <2>7. tests + left <= most + index
    BY <1>0, <1>3, <1>5, <2>6
  <2>8. left \in Nat
    BY <1>4
  <2>9. ASSUME NEW c \in Nat, c = CallsLeft(w, h) PROVE tests + 1 + c <= most
    <3> HIDE DEF left, n, g, w, h
    <3> QED
      BY <1>0, <1>3, <2>4, <2>7, <2>8, <2>9
  <2> QED
    BY <1>3, <1>6, <2>3, <2>5, <2>6, <2>9
<1>8. CASE KeepComplement
  <2> DEFINE m == Len(Candidate)
             h == AfterComplement(Candidate)
  <2>1. m \in 1..(n - 1)
    BY <1>3
  <2>2. h = Least(Greatest(g - 1, 2), m)
    BY DEF AfterComplement
  <2>3. m >= 2 => h \in 2..m
    BY <1>3, <2>2 DEF Least, Greatest
  <2>4. 2 * g + CallsLeft(m, h) <= left
    BY <1>3, <2>1, <2>2, ComplementKept
  <2>5. CallsLeft(m, h) \in Nat
    BY <2>1, <2>3, <1>3, RoundsLeft DEF CallsLeft
  <2>6. ReduceTo(Candidate, h) /\ phase = "complements"
    BY <1>8 DEF KeepComplement
  <2>7. tests + left <= most + index + g
    BY <1>5, <2>6
  <2>8. left \in Nat
    BY <1>4
  <2>9. ASSUME NEW c \in Nat, c = CallsLeft(m, h) PROVE tests + 1 + c <= most
    <3> HIDE DEF left, n, g, m, h
    <3> QED
      BY <1>0, <1>3, <2>4, <2>7, <2>8, <2>9
  <2> QED
    BY <1>3, <1>6, <2>3, <2>5, <2>6, <2>9
<1>9. CASE NextPart \/ SubsetsExhausted
  <2>1. /\ Refute /\ tests' = tests + 1 /\ current' = current
        /\ granularity' = granularity /\ phase' \in {"subsets", "complements"}
    BY <1>9, <1>2 DEF NextPart, SubsetsExhausted, Refute, Searching
  <2>2. \/ phase' = phase /\ index' = index + 1
        \/ /\ phase = "subsets" /\ phase' = "complements"
           /\ index + 1 = g /\ index' = 0
    BY <1>3, <1>9 DEF NextPart, SubsetsExhausted
  <2>3. CallsLeft(Len(current'), granularity') = left
    BY <2>1
  <2>4. left \in Nat /\ g' = g
    BY <1>4, <2>1
  <2> HIDE DEF left
  <2> QED
    BY <1>0, <1>3, <1>5, <2>1, <2>2, <2>3, <2>4 DEF CallsWithin, Searching, left
<1>10. CASE Refine
  <2>1. /\ tests' = tests + 1 /\ Len(current') = n /\ phase = "complements"
        /\ g < n /\ granularity' = Least(g * 2, n)
        /\ phase' = "subsets" /\ index' = 0
    BY <1>10 DEF Refine, Refute
  <2>2. 2 * g + CallsLeft(n, granularity') <= left
    BY <1>3, <2>1, RefusedRounds
  <2>3. CallsLeft(n, granularity') \in Nat
    <3>1. granularity' \in 2..n
      BY <1>3, <2>1 DEF Least
    <3> QED
      BY <1>3, <3>1, RoundsLeft
  <2>4. CallsLeft(Len(current'), granularity') = CallsLeft(n, granularity')
    BY <2>1
  <2>5. left \in Nat /\ tests + left <= most + index + g
    BY <1>4, <1>5, <2>1
  <2>6. ASSUME NEW c \in Nat, c = CallsLeft(n, granularity') PROVE tests' + c <= most
    <3> HIDE DEF left, n, g
    <3> QED
      BY <1>0, <1>3, <2>1, <2>2, <2>5, <2>6
  <2> QED
    BY <2>1, <2>3, <2>4, <2>6 DEF CallsWithin, Searching
<1>11. CASE Finish \/ PredicateError
  <2>1. tests' = tests + 1 /\ phase' \in {"done", "failed"}
    BY <1>11 DEF Finish, PredicateError, Refute
  <2>2. tests + 1 <= most
    <3>1. left \in Nat /\ 2 * g <= left
      BY <1>4
    <3> HIDE DEF left, n, g
    <3> QED
      BY <1>0, <1>3, <1>5, <3>1 DEF left
  <2> QED
    BY <2>1, <2>2 DEF CallsWithin, Searching
<1> QED
  BY <1>7, <1>8, <1>9, <1>10, <1>11 DEF Next

\* What was called is within the bound.
LEMMA CallsBound ==
    ASSUME NEW most \in Nat, SearchInv, CallsWithin(most)
    PROVE  tests <= most
<1> SUFFICES ASSUME Searching PROVE tests <= most
  BY DEF CallsWithin
<1> DEFINE left == CallsLeft(Len(current), granularity)
<1>1. /\ tests \in Nat /\ granularity \in 2..Len(current) /\ Len(current) \in Nat
      /\ index \in 0..(granularity - 1)
  BY DEF SearchInv, TypeOK, LoopBounds
<1>2. left \in Nat /\ 2 * granularity <= left
  BY <1>1, RoundsLeft
<1>3. tests + left <= most + index
          + (IF phase = "complements" THEN granularity ELSE 0)
  BY DEF CallsWithin
<1> HIDE DEF left
<1> QED
  BY <1>1, <1>2, <1>3

\* However the builds' verdicts fall, `minimize` calls its predicate at most
\* N * N + 5 * N - 10 times for N items, and never for one item.
THEOREM TestsAreBounded == Spec => []TestsBounded
<1>0. N \in Nat /\ MostTests(N) \in Nat
  BY NAssumption, MostTestsTyped
<1>1. Init => CallsWithin(MostTests(N))
  <2> SUFFICES ASSUME Init PROVE CallsWithin(MostTests(N))
    OBVIOUS
  <2>1. Len(current) = N /\ granularity = Least(2, N) /\ tests = 0 /\ index = 0
    BY <1>0 DEF Init
  <2>2. phase # "complements"
    BY DEF Init, LoopPhase
  <2>3. CallsLeft(N, Least(2, N)) <= MostTests(N) /\ CallsLeft(N, Least(2, N)) \in Int
    BY <1>0, CallsAtStart DEF CallsLeft, Least
  <2> QED
    BY <1>0, <2>1, <2>2, <2>3 DEF CallsWithin
<1>2. SearchInv /\ CallsWithin(MostTests(N)) /\ [Next]_vars => CallsWithin(MostTests(N))'
  BY <1>0, CallsStep
<1>3. SearchInv /\ CallsWithin(MostTests(N)) => TestsBounded
  BY <1>0, CallsBound DEF TestsBounded
<1> QED
  BY <1>1, <1>2, <1>3, SearchInvariant, PTL DEF Spec

-------------------------------------------------------------------------------
(* Ddmin implements OneMinimalSearch, for every number of items            *)

\* What the simulation argument needs of a reachable state.
RefinementInv == SearchInv /\ Increasing(current)

\* A part holds some of the items of `s`, and not all of them.
LEMMA PartItems ==
    ASSUME NEW s \in Seq(1..N), Increasing(s),
           NEW g \in 2..Len(s), NEW i \in 0..(g - 1)
    PROVE  /\ Items(Part(s, g, i)) \subseteq Items(s)
           /\ Items(Part(s, g, i)) # {}
           /\ Items(Part(s, g, i)) # Items(s)
<1> DEFINE a == Start(Len(s), g, i)
           b == Start(Len(s), g, i + 1)
           p == Part(s, g, i)
<1>s. \A j \in 1..Len(s) : s[j] \in 1..N
  BY ElementOfSeq
<1>0. Len(s) \in Nat /\ \A j \in 1..Len(s) : s[j] \in 1..N
  BY <1>s
<1>1. a \in 0..Len(s) /\ b \in 0..Len(s) /\ a < b
  <2>1. g \in 1..Len(s)
    BY <1>0
  <2> QED
    BY <1>0, <2>1, StartBounds
<1>2. /\ Len(p) = b - a /\ Len(p) \in 1..(Len(s) - 1)
      /\ \A k \in 1..Len(p) : p[k] = s[a + k]
  BY PartProperties
<1> HIDE DEF a, b, p
<1>3. \A k \in 1..Len(p) : a + k \in 1..Len(s)
  BY <1>0, <1>1, <1>2
<1>4. Items(p) \subseteq Items(s)
  BY <1>2, <1>3 DEF Items
<1>5. Items(p) # {}
  BY <1>2 DEF Items
<1>6. \E j \in 1..Len(s) : j \notin (a + 1)..b
  <2>1. CASE a >= 1
    <3>1. 1 \in 1..Len(s) /\ 1 \notin (a + 1)..b
      BY <1>0, <1>1, <2>1
    <3> QED
      BY <3>1
  <2>2. CASE a = 0
    <3>1. Len(s) \in 1..Len(s) /\ Len(s) \notin (a + 1)..b
      BY <1>0, <1>1, <1>2, <2>2
    <3> QED
      BY <3>1
  <2> QED
    BY <1>0, <1>1, <2>1, <2>2
<1>7. PICK j \in 1..Len(s) : j \notin (a + 1)..b
  BY <1>6
<1>8. s[j] \notin Items(p)
  <2>1. SUFFICES ASSUME NEW k \in 1..Len(p), s[j] = p[k]
                 PROVE  FALSE
    BY DEF Items
  <2>2. a + k \in 1..Len(s) /\ s[a + k] = s[j] /\ a + k \in (a + 1)..b
    BY <1>0, <1>1, <1>2, <1>3, <2>1
  <2>3. a + k < j \/ j < a + k
    BY <1>0, <1>1, <1>7, <2>2
  <2>4. s[j] \in 1..N
    BY <1>0
  <2> QED
    BY <2>2, <2>3, <2>4, NAssumption DEF Increasing
<1>9. Items(p) # Items(s)
  BY <1>8 DEF Items
<1> QED
  BY <1>4, <1>5, <1>9 DEF p

\* A cut removes exactly the items at the positions it cuts.
LEMMA CutItems ==
    ASSUME NEW s \in Seq(1..N), Increasing(s),
           NEW a \in 0..Len(s), NEW b \in a..Len(s)
    PROVE  /\ Items(Cut(s, a, b)) \subseteq Items(s)
           /\ \A j \in 1..Len(s) :
                 s[j] \in Items(Cut(s, a, b)) <=> j \notin (a + 1)..b
<1> DEFINE c == Cut(s, a, b)
           pos(k) == IF k <= a THEN k ELSE k + (b - a)
<1>s. \A j \in 1..Len(s) : s[j] \in 1..N
  BY ElementOfSeq
<1>0. /\ Len(s) \in Nat /\ a \in Nat /\ b \in Nat /\ a <= b /\ b <= Len(s)
      /\ \A j \in 1..Len(s) : s[j] \in 1..N
  BY <1>s
<1>1. /\ Len(c) = Len(s) - (b - a)
      /\ \A k \in 1..Len(c) : c[k] = IF k <= a THEN s[k] ELSE s[k + (b - a)]
  BY CutProperties
<1> HIDE DEF c
<1>2. \A k \in 1..Len(c) :
         c[k] = s[pos(k)] /\ pos(k) \in 1..Len(s) /\ pos(k) \notin (a + 1)..b
  BY <1>0, <1>1
<1>3. Items(c) \subseteq Items(s)
  BY <1>2 DEF Items
<1>4. ASSUME NEW j \in 1..Len(s), j \notin (a + 1)..b
      PROVE  s[j] \in Items(c)
  <2>1. CASE j <= a
    <3>1. j \in 1..Len(c) /\ c[j] = s[j]
      BY <1>0, <1>1, <2>1
    <3> QED
      BY <3>1 DEF Items
  <2>2. CASE j > b
    <3>1. /\ j - (b - a) \in 1..Len(c) /\ ~(j - (b - a) <= a)
          /\ (j - (b - a)) + (b - a) = j
      BY <1>0, <1>1, <2>2
    <3>2. c[j - (b - a)] = s[j]
      BY <1>1, <3>1
    <3> QED
      BY <3>1, <3>2 DEF Items
  <2> QED
    BY <1>0, <1>4, <2>1, <2>2
<1>5. ASSUME NEW j \in 1..Len(s), s[j] \in Items(c)
      PROVE  j \notin (a + 1)..b
  <2>1. PICK k \in 1..Len(c) : s[j] = c[k]
    BY <1>5 DEF Items
  <2>2. /\ pos(k) \in 1..Len(s) /\ pos(k) \notin (a + 1)..b
        /\ s[pos(k)] = s[j]
    BY <1>2, <2>1
  <2> HIDE DEF pos
  <2>3. s[j] \in 1..N /\ N \in Nat
    BY <1>0, NAssumption
  <2>4. ~(pos(k) < j) /\ ~(j < pos(k))
    BY <2>2, <2>3 DEF Increasing
  <2>5. pos(k) = j
    BY <1>0, <2>2, <2>4
  <2> QED
    BY <2>2, <2>5
<1> QED
  BY <1>3, <1>4, <1>5 DEF c

\* Every candidate is one the abstract search may try.
LEMMA CandidateIsAbstract ==
    ASSUME RefinementInv, Searching
    PROVE  Items(Candidate) \in Promise!Candidates
<1>1. /\ current \in Seq(1..N) /\ Len(current) \in Nat
      /\ Increasing(current)
      /\ granularity \in 2..Len(current)
      /\ index \in 0..(granularity - 1)
      /\ Parts = granularity
  BY CandidateInLoop DEF RefinementInv, SearchInv, TypeOK, LoopBounds
<1>2. CASE phase = "subsets"
  <2>1. Candidate = Part(current, granularity, index)
    BY <1>1, <1>2 DEF Candidate
  <2> QED
    BY <1>1, <2>1, PartItems DEF Promise!Candidates
<1>3. CASE phase = "complements"
  <2> DEFINE a == Start(Len(current), granularity, index)
             b == Start(Len(current), granularity, index + 1)
  <2>1. a \in 0..Len(current) /\ b \in 0..Len(current) /\ a < b
    <3>1. granularity \in 1..Len(current)
      BY <1>1
    <3> QED
      BY <1>1, <3>1, StartBounds
  <2>2. Candidate = Cut(current, a, b)
    BY <1>1, <1>3 DEF Candidate, Complement
  <2>3. Len(Candidate) >= 1
    BY CandidateInLoop DEF RefinementInv, SearchInv
  <2> HIDE DEF a, b
  <2>4. b \in a..Len(current) /\ a + 1 \in 1..Len(current) /\ a + 1 \in (a + 1)..b
    BY <1>1, <2>1
  <2>5. /\ Items(Candidate) \subseteq Items(current)
        /\ current[a + 1] \notin Items(Candidate)
    BY <1>1, <2>1, <2>2, <2>4, CutItems
  <2>6. current[a + 1] \in Items(current)
    BY <2>4 DEF Items
  <2>7. Candidate \in Seq(1..N)
    BY CandidateInLoop DEF RefinementInv, SearchInv
  <2>8. Items(Candidate) # {}
    BY <2>3, <2>7 DEF Items
  <2> QED
    BY <2>5, <2>6, <2>8 DEF Promise!Candidates
<1> QED
  BY <1>2, <1>3 DEF Searching

\* The history that makes the result one-minimal maps to the abstract one.
LEMMA OneMinimalMaps ==
    ASSUME NEW s \in Seq(1..N), Increasing(s), NEW tried,
           Len(s) >= 2 => \A k \in 1..Len(s) : Without(s, k) \in tried
    PROVE  Promise!OneMinimal(Items(s), {Items(t) : t \in tried})
<1> SUFFICES ASSUME NEW item \in Items(s)
             PROVE  \/ Items(s) = {item}
                    \/ Items(s) \ {item} \in {Items(t) : t \in tried}
  BY DEF Promise!OneMinimal
<1>0. Len(s) \in Nat
  OBVIOUS
<1>1. PICK k \in 1..Len(s) : item = s[k]
  BY DEF Items
<1>k. k \in Nat /\ k >= 1 /\ k <= Len(s)
  BY <1>0
<1>2. CASE Len(s) < 2
  <2>0. \A m, n \in Nat : m >= 1 /\ m <= n /\ n < 2 => n = 1 /\ m = 1
    OBVIOUS
  <2>1. Len(s) = 1 /\ k = 1
    BY <1>0, <1>k, <1>2, <2>0
  <2> QED
    BY <1>1, <2>1 DEF Items
<1>3. CASE ~(Len(s) < 2)
  <2>1. Without(s, k) \in tried
    BY <1>0, <1>3
  <2>2. k - 1 \in 0..Len(s) /\ k \in (k - 1)..Len(s)
    BY <1>0
  <2>3. /\ Items(Without(s, k)) \subseteq Items(s)
        /\ \A j \in 1..Len(s) :
              s[j] \in Items(Without(s, k)) <=> j \notin ((k - 1) + 1)..k
    BY <2>2, CutItems DEF Without
  <2>4. \A j \in 1..Len(s) : j \notin ((k - 1) + 1)..k <=> j # k
    BY <1>0
  <2>5. ASSUME NEW j \in 1..Len(s), j # k
        PROVE  s[j] # s[k]
    <3>1. j < k \/ k < j
      BY <1>0, <2>5
    <3>2. s[j] \in 1..N /\ s[k] \in 1..N
      BY ElementOfSeq
    <3> QED
      BY <3>1, <3>2, NAssumption DEF Increasing
  <2>6. \A j \in 1..Len(s) : s[j] \in Items(Without(s, k)) <=> s[j] # item
    BY <1>1, <2>3, <2>4, <2>5
  <2>7. Items(Without(s, k)) = Items(s) \ {item}
    BY <2>3, <2>6 DEF Items
  <2> QED
    BY <2>1, <2>7
<1> QED
  BY <1>2, <1>3

LEMMA InitMaps == Init => Promise!Init
<1> SUFFICES ASSUME Init PROVE Promise!Init
  OBVIOUS
<1>1. N \in Nat /\ current = [i \in 1..N |-> i] /\ Len(current) = N
  BY NAssumption DEF Init
<1>2. Items(current) = 1..N
  BY <1>1 DEF Items
<1>3. {Items(s) : s \in refuted} = {}
  BY DEF Init
<1>4. (IF Searching THEN "running" ELSE phase)
         = (IF N < 2 THEN "done" ELSE "running")
  BY <1>1 DEF Init, LoopPhase, Searching
<1> QED
  BY <1>2, <1>3, <1>4 DEF Promise!Init

LEMMA StepMaps ==
    RefinementInv /\ RefinementInv' /\ [Next]_vars => [Promise!Next]_(Promise!vars)
<1> SUFFICES ASSUME RefinementInv, RefinementInv', [Next]_vars
             PROVE  [Promise!Next]_(Promise!vars)
  OBVIOUS
<1>0. /\ current \in Seq(1..N) /\ current' \in Seq(1..N)
      /\ Increasing(current) /\ Increasing(current')
  BY DEF RefinementInv, SearchInv, TypeOK, Increasing
<1>1. CASE KeepSubset \/ KeepComplement
  <2>1. /\ Searching /\ current' = Candidate /\ refuted' = {}
        /\ phase' = IF Len(current') >= 2 THEN "subsets" ELSE "done"
    BY <1>1 DEF KeepSubset, KeepComplement, ReduceTo, Searching, LoopPhase
  <2>2. Items(current') \in Promise!Candidates
    BY <2>1, CandidateIsAbstract
  <2>3. {Items(s) : s \in refuted'} = {}
    BY <2>1
  <2>4. Promise!Settle
    <3>1. CASE Len(current') >= 2
      BY <2>1, <3>1 DEF Promise!Settle, Searching
    <3>2. CASE ~(Len(current') >= 2)
      <4>1. Promise!OneMinimal(Items(current'), {Items(s) : s \in refuted'})
        BY <1>0, <3>2, OneMinimalMaps
      <4> QED
        BY <2>1, <3>2, <4>1 DEF Promise!Settle, Searching
    <3> QED
      BY <3>1, <3>2
  <2>5. Promise!Accept
    BY <2>1, <2>2, <2>3, <2>4 DEF Promise!Accept
  <2> QED
    BY <2>5 DEF Promise!Next
<1>2. ASSUME Refute,
             \/ Searching'
             \/ /\ phase' = "done"
                /\ Promise!OneMinimal(Items(current'), {Items(s) : s \in refuted'})
      PROVE  Promise!Reject
  <2>1. /\ Searching /\ current' = current
        /\ refuted' = refuted \cup {Candidate}
    BY <1>2 DEF Refute
  <2>2. Items(Candidate) \in Promise!Candidates
    BY <2>1, CandidateIsAbstract
  <2>3. {Items(s) : s \in refuted'}
           = {Items(s) : s \in refuted} \cup {Items(Candidate)}
    BY <2>1
  <2>4. Promise!Settle
    BY <1>2 DEF Promise!Settle, Searching
  <2> QED
    BY <2>1, <2>2, <2>3, <2>4 DEF Promise!Reject
<1>3. CASE NextPart \/ SubsetsExhausted \/ Refine
  <2>1. Refute /\ Searching'
    BY <1>3 DEF NextPart, SubsetsExhausted, Refine, Refute, Searching
  <2> QED
    BY <1>2, <2>1 DEF Promise!Next
<1>4. CASE Finish
  <2>1. Refute /\ phase' = "done"
    BY <1>4 DEF Finish
  <2>2. Promise!OneMinimal(Items(current'), {Items(s) : s \in refuted'})
    <3>1. Len(current') >= 2
             => \A k \in 1..Len(current') : Without(current', k) \in refuted'
      BY <2>1 DEF RefinementInv, SearchInv, ResultOneMinimal
    <3> QED
      BY <1>0, <3>1, OneMinimalMaps
  <2> QED
    BY <1>2, <2>1, <2>2 DEF Promise!Next
<1>5. CASE PredicateError
  <2>1. /\ Searching /\ phase' = "failed"
        /\ UNCHANGED <<current, refuted>>
    BY <1>5 DEF PredicateError
  <2>2. Promise!Fail
    BY <2>1 DEF Promise!Fail, Searching
  <2> QED
    BY <2>2 DEF Promise!Next
<1>6. CASE UNCHANGED vars
  BY <1>6 DEF vars, Promise!vars, Searching
<1> QED
  BY <1>1, <1>3, <1>4, <1>5, <1>6 DEF Next

\* `minimize` implements what it promises, for every number of items: initial
\* states map to initial states and every step maps to a step or a stutter.
THEOREM Refinement == Spec => ImplementsOneMinimalSearch
<1>1. Spec => []RefinementInv
  <2>1. OrderPreserved <=> Increasing(current)
    BY DEF OrderPreserved, Increasing
  <2>2. RefinementInv <=> SearchInv /\ OrderPreserved
    BY <2>1 DEF RefinementInv
  <2> QED
    BY <2>2, SearchInvariant, OrderIsPreserved, PTL
<1>2. Init => Promise!Init
  BY InitMaps
<1>3. RefinementInv /\ RefinementInv' /\ [Next]_vars
         => [Promise!Next]_(Promise!vars)
  BY StepMaps
<1> QED
  BY <1>1, <1>2, <1>3, PTL DEF Spec, Promise!Spec, ImplementsOneMinimalSearch

-------------------------------------------------------------------------------
(***************************************************************************)
(* The partition arithmetic against its definition by concatenation.       *)
(***************************************************************************)

\* Induction over the numbers, for a set in place of a predicate.
LEMMA NatSetInduction ==
    ASSUME NEW S, 0 \in S, \A n \in Nat : n \in S => n + 1 \in S
    PROVE  Nat \subseteq S
<1> DEFINE T == Nat \ S
           R == OpToRel(<, Nat)
<1> SUFFICES ASSUME T # {} PROVE FALSE
  OBVIOUS
<1>1. IsWellFoundedOn(R, Nat)
  BY NatLessThanWellFounded
<1>2. PICK x \in T : \A y \in T : ~(<<y, x>> \in R)
  <2> HIDE DEF R
  <2>1. T \subseteq Nat
    OBVIOUS
  <2> HIDE DEF T
  <2> QED
    BY <1>1, <2>1, WFMin
<1>3. x # 0 /\ x \in Nat
  OBVIOUS
<1>4. x - 1 \in Nat /\ x - 1 < x /\ x - 1 + 1 = x
  BY <1>3
<1>5. <<x - 1, x>> \in R
  BY <1>3, <1>4 DEF OpToRel
<1> QED
  BY <1>2, <1>3, <1>4, <1>5

\* Flattening appends the parts one by one.  The recursive definition of the library
\* has a solution, and any running concatenation `acc` is it.
LEMMA Flattened ==
    ASSUME NEW seqs, Len(seqs) \in Nat \ {0}, NEW acc,
           acc[1] = seqs[1],
           \A i \in 2..Len(seqs) : acc[i] = acc[i - 1] \o seqs[i]
    PROVE  FlattenSeq(seqs) = acc[Len(seqs)]
<1> DEFINE L == Len(seqs)
           Solves(f) == f = [i \in 1..L |-> IF i = 1 THEN seqs[i] ELSE f[i - 1] \o seqs[i]]
           given == [i \in 1..L |-> acc[i]]
           flat == CHOOSE f : Solves(f)
<1>1. Solves(given)
  <2>1. ASSUME NEW i \in 1..L
        PROVE  given[i] = IF i = 1 THEN seqs[i] ELSE given[i - 1] \o seqs[i]
    <3>1. CASE i = 1
      BY <3>1
    <3>2. CASE i # 1
      <4>1. i \in 2..L /\ i - 1 \in 1..L
        BY <3>2
      <4> QED
        BY <3>2, <4>1
    <3> QED
      BY <3>1, <3>2
  <2>2. given = [i \in 1..L |-> given[i]]
    OBVIOUS
  <2> HIDE DEF given, L
  <2> QED
    BY <2>1, <2>2
<1>2. Solves(flat)
  <2> HIDE DEF Solves
  <2> QED
    BY <1>1
<1>3. FlattenSeq(seqs) = flat[L]
  BY DEF FlattenSeq
<1>4. \A i \in 1..L : flat[i] = IF i = 1 THEN seqs[i] ELSE flat[i - 1] \o seqs[i]
  <2> DEFINE F(i) == IF i = 1 THEN seqs[i] ELSE flat[i - 1] \o seqs[i]
  <2>1. flat = [i \in 1..L |-> F(i)]
    BY <1>2
  <2> HIDE DEF flat, F
  <2>2. \A i \in 1..L : flat[i] = F(i)
    BY <2>1
  <2> HIDE DEF L
  <2> QED
    BY <2>2 DEF F
<1> HIDE DEF Solves, flat, given
<1> DEFINE E == {n \in Nat : n + 1 <= L => flat[n + 1] = acc[n + 1]}
<1>5. 0 \in E
  BY <1>4
<1>6. ASSUME NEW n \in Nat, n \in E
      PROVE  n + 1 \in E
  <2> SUFFICES ASSUME n + 2 <= L PROVE flat[n + 2] = acc[n + 2]
    OBVIOUS
  <2>1. n + 2 \in 2..L /\ n + 2 \in 1..L /\ n + 1 <= L /\ n + 2 # 1 /\ n + 2 - 1 = n + 1
    OBVIOUS
  <2>2. flat[n + 2] = flat[n + 1] \o seqs[n + 2]
    <3> DEFINE m == n + 2
    <3>1. m \in 1..L /\ m # 1 /\ m - 1 = n + 1
      BY <2>1
    <3> HIDE DEF m, L
    <3>2. flat[m] = flat[m - 1] \o seqs[m]
      BY <1>4, <3>1
    <3> QED
      BY <3>1, <3>2 DEF m
  <2>3. acc[n + 2] = acc[n + 1] \o seqs[n + 2]
    <3> DEFINE m == n + 2
    <3>1. m \in 2..Len(seqs) /\ m - 1 = n + 1
      BY <2>1
    <3> HIDE DEF m
    <3>2. acc[m] = acc[m - 1] \o seqs[m]
      BY <3>1
    <3> QED
      BY <3>1, <3>2 DEF m
  <2> QED
    BY <1>6, <2>1, <2>2, <2>3
<1>7. L - 1 \in E
  <2> HIDE DEF E
  <2> QED
    BY <1>5, <1>6, NatSetInduction
<1> QED
  BY <1>3, <1>7

\* Adjacent slices make a slice.
LEMMA SlicesJoin ==
    ASSUME NEW S, NEW s \in Seq(S), NEW c \in 0..Len(s), NEW a \in c..Len(s), NEW b \in a..Len(s)
    PROVE  /\ SubSeq(s, c + 1, a) \in Seq(S)
           /\ SubSeq(s, a + 1, b) \in Seq(S)
           /\ SubSeq(s, c + 1, a) \o SubSeq(s, a + 1, b) = SubSeq(s, c + 1, b)
<1>0. Len(s) \in Nat /\ c \in Nat /\ a \in Nat /\ b \in Nat /\ c <= a /\ a <= b /\ b <= Len(s)
  OBVIOUS
<1>1. \A j \in 1..Len(s) : s[j] \in S
  BY ElementOfSeq
<1> DEFINE left == SubSeq(s, c + 1, a)
           right == SubSeq(s, a + 1, b)
           both == SubSeq(s, c + 1, b)
<1>2. /\ left \in Seq(S) /\ Len(left) = a - c
      /\ \A k \in 1..(a - c) : left[k] = s[c + k]
  BY <1>0, <1>1, SubSeqProperties
<1>3. /\ right \in Seq(S) /\ Len(right) = b - a
      /\ \A k \in 1..(b - a) : right[k] = s[a + k]
  BY <1>0, <1>1, SubSeqProperties
<1>4. /\ both \in Seq(S) /\ Len(both) = b - c
      /\ \A k \in 1..(b - c) : both[k] = s[c + k]
  BY <1>0, <1>1, SubSeqProperties
<1> HIDE DEF left, right, both
<1>5. /\ left \o right \in Seq(S)
      /\ Len(left \o right) = Len(left) + Len(right)
      /\ \A k \in 1..(Len(left) + Len(right)) :
            (left \o right)[k] = IF k <= Len(left) THEN left[k] ELSE right[k - Len(left)]
  BY <1>2, <1>3, ConcatProperties
<1>6. Len(left \o right) = b - c
  BY <1>0, <1>2, <1>3, <1>5
<1>7. ASSUME NEW k \in 1..(b - c)
      PROVE  (left \o right)[k] = both[k]
  <2>0. k \in Nat /\ k >= 1 /\ k <= b - c
    BY <1>0
  <2>1. CASE k <= a - c
    <3>1. k \in 1..(a - c)
      BY <1>0, <2>0, <2>1
    <3>2. k \in 1..(Len(left) + Len(right)) /\ k <= Len(left)
      BY <1>0, <1>2, <1>3, <2>0, <2>1
    <3> QED
      BY <1>2, <1>4, <1>5, <3>1, <3>2
  <2>2. CASE k > a - c
    <3>1. k - (a - c) \in 1..(b - a) /\ a + (k - (a - c)) = c + k
      BY <1>0, <2>0, <2>2
    <3>2. (left \o right)[k] = right[k - (a - c)]
      BY <1>0, <1>2, <1>3, <1>5, <2>0, <2>2
    <3>3. right[k - (a - c)] = s[a + (k - (a - c))]
      BY <1>3, <3>1
    <3>4. both[k] = s[c + k]
      BY <1>4
    <3> QED
      BY <3>1, <3>2, <3>3, <3>4
  <2>3. k <= a - c \/ k > a - c
    BY <1>0, <2>0
  <2> QED
    BY <2>1, <2>2, <2>3
<1>8. left \o right = both
  BY <1>4, <1>5, <1>6, <1>7, SeqEqual
<1> QED
  BY <1>2, <1>3, <1>8 DEF left, right, both

\* The first part starts at the first item, and the last ends at the last.
LEMMA StartEnds ==
    ASSUME NEW n \in Nat, NEW g \in 1..n
    PROVE  Start(n, g, 0) = 0 /\ Start(n, g, g) = n
<1> DEFINE q == n \div g
           r == n % g
<1>1. q \in Nat \ {0} /\ r \in 0..(g - 1) /\ n = g * q + r
  BY DivMod
<1>2. Start(n, g, 0) = 0 * q + Least(0, r) /\ Start(n, g, g) = g * q + Least(g, r)
  BY DEF Start
<1>3. Least(0, r) = 0 /\ Least(g, r) = r
  BY <1>1 DEF Least
<1> HIDE DEF q, r
<1> QED
  BY <1>1, <1>2, <1>3

\* partition's slices cover every item once and in order.
LEMMA PartsCover ==
    ASSUME NEW S, NEW s \in Seq(S), NEW g \in 2..Len(s)
    PROVE  FlattenSeq([i \in 1..g |-> Part(s, g, i - 1)]) = s
<1> DEFINE parts == [i \in 1..g |-> Part(s, g, i - 1)]
           start(i) == Start(Len(s), g, i)
           acc == [i \in 1..g |-> SubSeq(s, 1, start(i))]
<1>0. Len(s) \in Nat /\ g \in Nat /\ g \in 1..Len(s) /\ g >= 2
  OBVIOUS
<1>1. start(0) = 0 /\ start(g) = Len(s)
  BY <1>0, StartEnds
<1>2. ASSUME NEW i \in 1..g
      PROVE  /\ start(i - 1) \in 0..Len(s)
             /\ start(i) \in start(i - 1)..Len(s)
             /\ parts[i] = SubSeq(s, start(i - 1) + 1, start(i))
             /\ acc[i] = SubSeq(s, 0 + 1, start(i))
  <2> DEFINE h == i - 1
  <2>1. h \in 0..(g - 1) /\ h + 1 = i
    BY <1>0
  <2>2. parts[i] = SubSeq(s, start(h) + 1, start(h + 1)) /\ acc[i] = SubSeq(s, 1, start(i))
    BY DEF Part
  <2> HIDE DEF h
  <2>3. start(h) \in 0..Len(s) /\ start(h + 1) \in 0..Len(s) /\ start(h) < start(h + 1)
    BY <1>0, <2>1, StartBounds
  <2> HIDE DEF start, parts, acc
  <2>4. start(h) \in 0..Len(s) /\ start(i) \in start(h)..Len(s)
    BY <1>0, <2>1, <2>3
  <2>5. parts[i] = SubSeq(s, start(h) + 1, start(i))
    BY <2>1, <2>2
  <2>6. 0 + 1 = 1
    OBVIOUS
  <2>7. acc[i] = SubSeq(s, 0 + 1, start(i))
    BY <2>2, <2>6
  <2> QED
    BY <2>4, <2>5, <2>7 DEF h
<1>3. Len(parts) = g
  BY <1>0
<1> HIDE DEF start, parts, acc
<1>4. acc[1] = parts[1]
  <2>1. 1 \in 1..g /\ 1 - 1 = 0
    BY <1>0
  <2>2. acc[1] = SubSeq(s, 0 + 1, start(1)) /\ parts[1] = SubSeq(s, start(1 - 1) + 1, start(1))
    BY <1>2, <2>1
  <2>3. start(1 - 1) = 0
    BY <1>1, <2>1
  <2> QED
    BY <2>2, <2>3
<1>5. ASSUME NEW i \in 2..g
      PROVE  acc[i] = acc[i - 1] \o parts[i]
  <2>0. i \in 1..g /\ i - 1 \in 1..g /\ 0 \in 0..Len(s)
    BY <1>0
  <2>1. SubSeq(s, 0 + 1, start(i - 1)) \o SubSeq(s, start(i - 1) + 1, start(i))
          = SubSeq(s, 0 + 1, start(i))
    <3>1. start(i - 1) \in 0..Len(s) /\ start(i) \in start(i - 1)..Len(s)
      BY <1>2, <2>0
    <3> QED
      BY <2>0, <3>1, SlicesJoin
  <2>2. /\ acc[i] = SubSeq(s, 0 + 1, start(i))
        /\ acc[i - 1] = SubSeq(s, 0 + 1, start(i - 1))
        /\ parts[i] = SubSeq(s, start(i - 1) + 1, start(i))
    BY <1>2, <2>0
  <2> QED
    BY <2>1, <2>2
<1>6. FlattenSeq(parts) = acc[g]
  <2>0. g \in Nat \ {0}
    BY <1>0
  <2>1. g \in Nat \ {0} /\ \A i \in 2..g : acc[i] = acc[i - 1] \o parts[i]
    BY <1>5, <2>0
  <2>2. Len(parts) \in Nat \ {0} /\ \A i \in 2..Len(parts) : acc[i] = acc[i - 1] \o parts[i]
    BY <1>3, <2>1, Zenon
  <2>3. FlattenSeq(parts) = acc[Len(parts)]
    BY <1>4, <2>2, Flattened
  <2> QED
    BY <1>3, <2>3
<1>7. acc[g] = SubSeq(s, 0 + 1, Len(s))
  <2>1. g \in 1..g
    BY <1>0
  <2> QED
    BY <1>1, <1>2, <2>1
<1>8. SubSeq(s, 0 + 1, Len(s)) = s
  BY SubSeqFull
<1> QED
  BY <1>6, <1>7, <1>8 DEF parts

\* Widths differ by one at most.
LEMMA PartWidths ==
    ASSUME NEW n \in Nat, NEW g \in 1..n, NEW i \in 0..(g - 1), NEW j \in 0..(g - 1)
    PROVE  Start(n, g, i + 1) - Start(n, g, i) <= Start(n, g, j + 1) - Start(n, g, j) + 1
<1> DEFINE q == n \div g
           r == n % g
<1>1. q \in Nat \ {0} /\ r \in 0..(g - 1)
  BY DivMod
<1>2. \A k \in 0..(g - 1) :
         /\ Start(n, g, k + 1) - Start(n, g, k) >= q
         /\ Start(n, g, k + 1) - Start(n, g, k) <= q + 1
         /\ Start(n, g, k + 1) - Start(n, g, k) \in Int
  <2> TAKE k \in 0..(g - 1)
  <2>1. /\ Start(n, g, k) = k * q + Least(k, r)
        /\ Start(n, g, k + 1) = (k + 1) * q + Least(k + 1, r)
    BY DEF Start
  <2>2. (k + 1) * q = k * q + q /\ k * q \in Nat
    BY <1>1
  <2>3. /\ Least(k, r) \in Nat /\ Least(k + 1, r) \in Nat
        /\ Least(k + 1, r) <= Least(k, r) + 1 /\ Least(k + 1, r) >= Least(k, r)
    BY <1>1 DEF Least
  <2> HIDE DEF q, r
  <2> QED
    BY <1>1, <2>1, <2>2, <2>3
<1> HIDE DEF q, r
<1> QED
  BY <1>1, <1>2

\* Offsets do not decrease.
LEMMA StartMonotone ==
    ASSUME NEW n \in Nat, NEW g \in 1..n, NEW i \in 0..g, NEW j \in i..g
    PROVE  Start(n, g, i) \in 0..n /\ Start(n, g, j) \in Start(n, g, i)..n
<1> DEFINE q == n \div g
           r == n % g
<1>1. q \in Nat \ {0} /\ r \in 0..(g - 1) /\ n = g * q + r
  BY DivMod
<1>2. Start(n, g, i) = i * q + Least(i, r) /\ Start(n, g, j) = j * q + Least(j, r)
  BY DEF Start
<1>3. /\ Least(i, r) \in Nat /\ Least(j, r) \in Nat
      /\ Least(i, r) <= Least(j, r) /\ Least(j, r) <= r
  BY <1>1 DEF Least
<1>4. i * q <= j * q /\ j * q <= g * q /\ i * q \in Nat /\ j * q \in Nat /\ g * q \in Nat
  <2>1. j - i \in Nat /\ g - j \in Nat
    OBVIOUS
  <2>2. (j - i) * q >= 0 /\ (g - j) * q >= 0
    BY <1>1, <2>1
  <2> QED
    BY <1>1, <2>2
<1> HIDE DEF q, r
<1> QED
  BY <1>1, <1>2, <1>3, <1>4

\* The other parts, flattened, are the complement.
LEMMA ComplementIsTheRest ==
    ASSUME NEW S, NEW s \in Seq(S), NEW g \in 2..Len(s), NEW i \in 1..g
    PROVE  Complement(s, g, i - 1)
              = FlattenSeq(RemoveAt([k \in 1..g |-> Part(s, g, k - 1)], i))
<1> DEFINE parts == [k \in 1..g |-> Part(s, g, k - 1)]
           rest == RemoveAt(parts, i)
           start(k) == Start(Len(s), g, k)
           before(k) == SubSeq(s, 1, start(IF k < i THEN k ELSE i - 1))
           after(k) == SubSeq(s, start(i) + 1, start(k + 1))
           acc == [k \in 1..(g - 1) |-> before(k) \o after(k)]
<1>0. Len(s) \in Nat /\ g \in Nat /\ g \in 1..Len(s) /\ g >= 2 /\ 0 + 1 = 1
  OBVIOUS
<1>1. start(0) = 0 /\ start(g) = Len(s)
  BY <1>0, StartEnds
<1>2. ASSUME NEW k \in 1..g
      PROVE  /\ start(k - 1) \in 0..Len(s)
             /\ start(k) \in 0..Len(s)
             /\ start(k - 1) < start(k)
             /\ parts[k] = SubSeq(s, start(k - 1) + 1, start(k))
             /\ parts[k] \in Seq(S)
  <2> DEFINE h == k - 1
  <2>1. h \in 0..(g - 1) /\ h + 1 = k
    BY <1>0
  <2>2. parts[k] = SubSeq(s, start(h) + 1, start(h + 1)) /\ parts[k] = Part(s, g, h)
    BY DEF Part
  <2> HIDE DEF h
  <2>3. start(h) \in 0..Len(s) /\ start(h + 1) \in 0..Len(s) /\ start(h) < start(h + 1)
    BY <1>0, <2>1, StartBounds
  <2>4. Part(s, g, h) \in Seq(S)
    BY <2>1, PartProperties
  <2> HIDE DEF start, parts
  <2> QED
    BY <2>1, <2>2, <2>3, <2>4 DEF h
<1>3. /\ Len(rest) = g - 1
      /\ \A k \in 1..(g - 1) : rest[k] = IF k < i THEN parts[k] ELSE parts[k + 1]
  <2> DEFINE low == SubSeq(parts, 1, i - 1)
             high == SubSeq(parts, i + 1, Len(parts))
             T == Seq(S)
  <2>1. Len(parts) = g
    BY <1>0
  <2>2. rest = low \o high
    BY DEF RemoveAt
  <2> HIDE DEF parts, start, T
  <2>3. \A k \in 1..g : parts[k] \in T
    BY <1>2 DEF T
  <2>4. low \in Seq(T) /\ Len(low) = i - 1 /\ \A k \in 1..(i - 1) : low[k] = parts[k]
    <3>1. i - 1 \in Int /\ \A k \in 1..(i - 1) : parts[k] \in T
      BY <1>0, <2>3
    <3> QED
      BY <1>0, <3>1, SubSeqProperties
  <2>5. /\ high \in Seq(T) /\ Len(high) = g - i
        /\ \A k \in 1..(g - i) : high[k] = parts[i + k]
    <3>1. i + 1 \in Int /\ g \in Int /\ \A k \in (i + 1)..g : parts[k] \in T
      BY <1>0, <2>3
    <3> QED
      BY <1>0, <2>1, <3>1, SubSeqProperties
  <2> HIDE DEF low, high, rest
  <2>6. /\ Len(rest) = Len(low) + Len(high)
        /\ \A k \in 1..(Len(low) + Len(high)) :
              rest[k] = IF k <= Len(low) THEN low[k] ELSE high[k - Len(low)]
    BY <2>2, <2>4, <2>5, ConcatProperties
  <2>7. Len(rest) = g - 1 /\ Len(low) + Len(high) = g - 1
    BY <1>0, <2>4, <2>5, <2>6
  <2>8. ASSUME NEW k \in 1..(g - 1)
        PROVE  rest[k] = IF k < i THEN parts[k] ELSE parts[k + 1]
    <3>1. CASE k < i
      <4>1. k \in 1..(i - 1) /\ k <= Len(low)
        BY <1>0, <2>4, <3>1
      <4> QED
        BY <2>4, <2>6, <2>7, <3>1, <4>1
    <3>2. CASE ~(k < i)
      <4>1. k - (i - 1) \in 1..(g - i) /\ i + (k - (i - 1)) = k + 1 /\ ~(k <= i - 1)
        BY <1>0, <3>2
      <4>2. rest[k] = high[k - (i - 1)]
        BY <2>4, <2>6, <2>7, <4>1
      <4>3. high[k - (i - 1)] = parts[i + (k - (i - 1))]
        BY <2>5, <4>1
      <4> QED
        BY <3>2, <4>1, <4>2, <4>3
    <3> QED
      BY <3>1, <3>2
  <2> QED
    BY <2>7, <2>8
<1>4. \A k \in 1..(g - 1) : acc[k] = before(k) \o after(k)
  OBVIOUS
<1> HIDE DEF parts, rest, acc
<1>5. \A a \in 0..g : \A b \in a..g : start(a) \in 0..Len(s) /\ start(b) \in start(a)..Len(s)
  BY <1>0, StartMonotone
<1>6. Complement(s, g, i - 1) = SubSeq(s, 1, start(i - 1)) \o SubSeq(s, start(i) + 1, Len(s))
  <2> DEFINE h == i - 1
  <2>1. h + 1 = i
    OBVIOUS
  <2>2. Complement(s, g, h) = SubSeq(s, 1, start(h)) \o SubSeq(s, start(h + 1) + 1, Len(s))
    BY DEF Complement, Cut
  <2> HIDE DEF h, start
  <2>3. Complement(s, g, h) = SubSeq(s, 1, start(h)) \o SubSeq(s, start(i) + 1, Len(s))
    BY <2>1, <2>2
  <2> QED
    BY <2>3 DEF h
<1> HIDE DEF start
<1>7. ASSUME NEW k \in 1..(g - 1), k < i
      PROVE  /\ after(k) = <<>>
             /\ before(k) = SubSeq(s, 1, start(k))
             /\ rest[k] = parts[k]
  <2>1. k + 1 \in 0..g /\ i \in (k + 1)..g
    BY <1>0, <1>7
  <2>2. start(k + 1) \in 0..Len(s) /\ start(i) \in start(k + 1)..Len(s)
    BY <1>5, <2>1
  <2>3. start(k + 1) < start(i) + 1 /\ start(i) + 1 \in Int /\ start(k + 1) \in Int
    BY <1>0, <2>2
  <2> QED
    BY <1>3, <1>7, <2>3, SubSeqEmpty
<1>8. ASSUME NEW k \in 1..(g - 1), ~(k < i)
      PROVE  /\ before(k) = SubSeq(s, 1, start(i - 1))
             /\ rest[k] = parts[k + 1]
             /\ rest[k] = SubSeq(s, start(k) + 1, start(k + 1))
  <2> DEFINE m == k + 1
  <2>1. m \in 1..g /\ m - 1 = k
    BY <1>0
  <2> HIDE DEF m
  <2>2. parts[m] = SubSeq(s, start(k) + 1, start(m))
    BY <1>2, <2>1
  <2> QED
    BY <1>3, <1>8, <2>2 DEF m
<1>9. \A k \in 1..(g - 1) : before(k) \in Seq(S) /\ after(k) \in Seq(S)
  <2> TAKE k \in 1..(g - 1)
  <2>0. \A j \in 1..Len(s) : s[j] \in S
    BY ElementOfSeq
  <2>1. \A a \in 0..g : start(a) \in Int /\ start(a) >= 0 /\ start(a) <= Len(s)
    <3> TAKE a \in 0..g
    <3>1. a \in a..g
      BY <1>0
    <3>2. start(a) \in 0..Len(s)
      BY <1>5, <3>1
    <3> QED
      BY <1>0, <3>2
  <2>2. k \in 0..g /\ i - 1 \in 0..g /\ i \in 0..g /\ k + 1 \in 0..g
    BY <1>0
  <2>3. \A b \in 0..g : SubSeq(s, 1, start(b)) \in Seq(S)
    <3> TAKE b \in 0..g
    <3>1. start(b) \in Int /\ \A j \in 1..start(b) : s[j] \in S
      BY <1>0, <2>0, <2>1
    <3> QED
      BY <3>1, SubSeqProperties
  <2>4. after(k) \in Seq(S)
    <3>1. /\ start(i) + 1 \in Int /\ start(k + 1) \in Int
          /\ \A j \in (start(i) + 1)..start(k + 1) : s[j] \in S
      BY <1>0, <2>0, <2>1, <2>2
    <3> QED
      BY <3>1, SubSeqProperties
  <2> QED
    BY <2>2, <2>3, <2>4
<1>10. acc[1] = rest[1]
  <2>0. 1 \in 1..(g - 1)
    BY <1>0
  <2>1. 1 \in 1..(g - 1) /\ acc[1] = before(1) \o after(1)
    BY <1>4, <2>0, Zenon
  <2>2. CASE i = 1
    <3>1. before(1) = SubSeq(s, 1, start(i - 1)) /\ rest[1] = SubSeq(s, start(1) + 1, start(1 + 1))
      BY <1>8, <2>1, <2>2
    <3>2. start(i - 1) = 0 /\ SubSeq(s, 1, 0) = <<>>
      <4>1. i - 1 = 0
        BY <2>2
      <4> QED
        BY <1>1, <4>1, SubSeqEmpty
    <3>3. before(1) = <<>> /\ after(1) = rest[1]
      BY <2>2, <3>1, <3>2
    <3> HIDE DEF before, after
    <3> QED
      BY <1>9, <2>1, <3>3, ConcatEmptySeq
  <2>3. CASE i # 1
    <3>1. 1 < i
      BY <2>3
    <3>2. after(1) = <<>> /\ before(1) = SubSeq(s, 1, start(1)) /\ rest[1] = parts[1]
      BY <1>7, <2>1, <3>1
    <3>3. parts[1] = SubSeq(s, 1, start(1))
      <4>1. 1 \in 1..g /\ 1 - 1 = 0
        BY <1>0
      <4>2. parts[1] = SubSeq(s, start(1 - 1) + 1, start(1))
        BY <1>2, <4>1
      <4>3. start(1 - 1) + 1 = 1
        BY <1>1, <4>1
      <4> QED
        BY <4>2, <4>3
    <3> HIDE DEF before, after
    <3> QED
      BY <1>9, <2>1, <3>2, <3>3, ConcatEmptySeq
  <2> QED
    BY <2>2, <2>3
<1>11. ASSUME NEW k \in 2..(g - 1)
       PROVE  acc[k] = acc[k - 1] \o rest[k]
  <2> DEFINE h == k - 1
  <2>1. /\ h \in 1..(g - 1) /\ k \in 1..(g - 1) /\ h + 1 = k /\ k \in 1..g /\ k + 1 \in 1..g
        /\ k \in 0..g /\ k + 1 \in k..g /\ h \in 0..g /\ k \in h..g /\ 0 \in 0..Len(s)
    BY <1>0
  <2>2. acc[k] = before(k) \o after(k) /\ acc[h] = before(h) \o after(h)
    BY <1>4, <2>1
  <2> HIDE DEF h
  <2>3. CASE k < i
    <3>1. h < i
      BY <2>1, <2>3
    <3>2. /\ after(k) = <<>> /\ before(k) = SubSeq(s, 1, start(k)) /\ rest[k] = parts[k]
      BY <1>7, <2>1, <2>3
    <3>3. after(h) = <<>> /\ before(h) = SubSeq(s, 1, start(h))
      BY <1>7, <2>1, <3>1
    <3>4. parts[k] = SubSeq(s, start(h) + 1, start(k))
      <4>1. k - 1 = h
        BY <2>1
      <4> QED
        BY <1>2, <2>1, <4>1
    <3>5. start(h) \in 0..Len(s) /\ start(k) \in start(h)..Len(s)
      BY <1>5, <2>1
    <3>6. SubSeq(s, 0 + 1, start(h)) \o SubSeq(s, start(h) + 1, start(k)) = SubSeq(s, 0 + 1, start(k))
      BY <2>1, <3>5, SlicesJoin
    <3>7. before(h) \o rest[k] = before(k)
      BY <1>0, <3>2, <3>3, <3>4, <3>6
    <3> HIDE DEF before, after
    <3>8. acc[k] = before(k) /\ acc[h] = before(h)
      BY <1>9, <2>1, <2>2, <3>2, <3>3, ConcatEmptySeq
    <3> QED
      BY <3>7, <3>8 DEF h
  <2>4. CASE ~(k < i)
    <3>1. before(k) = SubSeq(s, 1, start(i - 1)) /\ rest[k] = SubSeq(s, start(k) + 1, start(k + 1))
      BY <1>8, <2>1, <2>4
    <3>2. before(h) = SubSeq(s, 1, start(i - 1))
      <4>1. CASE h < i
        <5>1. h = i - 1
          BY <2>1, <2>4, <4>1
        <5> QED
          BY <4>1, <5>1
      <4>2. CASE ~(h < i)
        BY <1>8, <2>1, <4>2
      <4> QED
        BY <4>1, <4>2
    <3>3. after(k) = SubSeq(s, start(i) + 1, start(k + 1)) /\ after(h) = SubSeq(s, start(i) + 1, start(k))
      BY <2>1
    <3>4. /\ start(i) \in 0..Len(s) /\ start(k) \in start(i)..Len(s)
          /\ start(k + 1) \in start(k)..Len(s)
      <4>1. i \in 0..g /\ k \in i..g
        BY <1>0, <2>4
      <4> QED
        BY <1>5, <2>1, <4>1
    <3>5. SubSeq(s, start(i) + 1, start(k)) \o SubSeq(s, start(k) + 1, start(k + 1))
             = SubSeq(s, start(i) + 1, start(k + 1))
          /\ SubSeq(s, start(k) + 1, start(k + 1)) \in Seq(S)
      <4> DEFINE c == start(i)
                 a == start(k)
                 b == start(k + 1)
      <4>1. c \in 0..Len(s) /\ a \in c..Len(s) /\ b \in a..Len(s)
        BY <3>4
      <4> HIDE DEF a, b, c
      <4>2. /\ SubSeq(s, a + 1, b) \in Seq(S)
            /\ SubSeq(s, c + 1, a) \o SubSeq(s, a + 1, b) = SubSeq(s, c + 1, b)
        BY <4>1, SlicesJoin
      <4> QED
        BY <4>2 DEF a, b, c
    <3>6. before(k) = before(h) /\ after(k) = after(h) \o rest[k] /\ rest[k] \in Seq(S)
      BY <3>1, <3>2, <3>3, <3>5
    <3> HIDE DEF before, after
    <3>7. before(h) \in Seq(S) /\ after(h) \in Seq(S)
      BY <1>9, <2>1
    <3>8. (before(h) \o after(h)) \o rest[k] = before(h) \o (after(h) \o rest[k])
      <4> DEFINE x == before(h)
                 y == after(h)
                 z == rest[k]
      <4>1. x \in Seq(S) /\ y \in Seq(S) /\ z \in Seq(S)
        BY <3>6, <3>7
      <4> HIDE DEF x, y, z
      <4>2. (x \o y) \o z = x \o (y \o z)
        BY <4>1, ConcatAssociative
      <4> QED
        BY <4>2 DEF x, y, z
    <3> QED
      BY <2>2, <3>6, <3>8 DEF h
  <2> QED
    BY <2>3, <2>4
<1>12. FlattenSeq(rest) = acc[g - 1]
  <2>1. Len(rest) = g - 1 /\ g - 1 \in Nat \ {0}
    BY <1>0, <1>3
  <2>2. \A k \in 2..(g - 1) : acc[k] = acc[k - 1] \o rest[k]
    BY <1>11
  <2>3. Len(rest) \in Nat \ {0} /\ \A k \in 2..Len(rest) : acc[k] = acc[k - 1] \o rest[k]
    BY <2>1, <2>2, Zenon
  <2>4. FlattenSeq(rest) = acc[Len(rest)]
    BY <1>10, <2>3, Flattened
  <2> QED
    BY <1>3, <2>4
<1>13. acc[g - 1] = Complement(s, g, i - 1)
  <2>1. g - 1 \in 1..(g - 1) /\ (g - 1) + 1 = g
    BY <1>0
  <2>2. acc[g - 1] = before(g - 1) \o after(g - 1)
    BY <1>4, <2>1
  <2>3. after(g - 1) = SubSeq(s, start(i) + 1, Len(s))
    BY <1>1, <2>1
  <2>4. before(g - 1) = SubSeq(s, 1, start(i - 1))
    <3>1. CASE g - 1 < i
      <4>1. g - 1 = i - 1
        BY <1>0, <3>1
      <4> QED
        BY <3>1, <4>1
    <3>2. CASE ~(g - 1 < i)
      BY <1>8, <2>1, <3>2
    <3> QED
      BY <3>1, <3>2
  <2> HIDE DEF before, after
  <2> QED
    BY <1>6, <2>2, <2>3, <2>4
<1> QED
  BY <1>12, <1>13 DEF rest, parts

\* For every number of items and every verdict pattern, the parts of every round
\* cover the kept items once and in order, and its complements are the other parts
\* (partition, complement).
THEOREM PartitionsAreExact == Spec => []PartitionExact
<1>1. SearchInv => PartitionExact
  <2> SUFFICES ASSUME SearchInv, Searching PROVE PartitionExact
    BY DEF PartitionExact
  <2>1. current \in Seq(1..N) /\ Len(current) \in Nat /\ granularity \in 2..Len(current)
    BY DEF SearchInv, TypeOK, LoopBounds
  <2>2. Parts = granularity
    BY CandidateInLoop DEF SearchInv
  <2> DEFINE g == granularity
             s == current
  <2>3. PartList = [i \in 1..g |-> Part(s, g, i - 1)]
    BY <2>2 DEF PartList
  <2>4. FlattenSeq(PartList) = s
    BY <2>1, <2>3, PartsCover
  <2>5. ASSUME NEW i \in 1..g, NEW j \in 1..g
        PROVE  Len(PartList[i]) >= 1 /\ Len(PartList[i]) <= Len(PartList[j]) + 1
    <3> DEFINE a == i - 1
               b == j - 1
    <3>1. a \in 0..(g - 1) /\ b \in 0..(g - 1) /\ g \in 1..Len(s)
      BY <2>1
    <3>2. PartList[i] = Part(s, g, a) /\ PartList[j] = Part(s, g, b)
      BY <2>3
    <3> HIDE DEF a, b, s, g
    <3>3. /\ Len(Part(s, g, a)) = Start(Len(s), g, a + 1) - Start(Len(s), g, a)
          /\ Len(Part(s, g, b)) = Start(Len(s), g, b + 1) - Start(Len(s), g, b)
          /\ Len(Part(s, g, a)) >= 1
      BY <2>1, <3>1, PartProperties DEF s, g
    <3>4. Start(Len(s), g, a + 1) - Start(Len(s), g, a)
             <= Start(Len(s), g, b + 1) - Start(Len(s), g, b) + 1
      BY <2>1, <3>1, PartWidths DEF s, g
    <3> QED
      BY <3>2, <3>3, <3>4
  <2>6. ASSUME NEW i \in 1..g
        PROVE  Complement(s, g, i - 1) = FlattenSeq(RemoveAt(PartList, i))
    BY <2>1, <2>3, ComplementIsTheRest
  <2> QED
    BY <2>2, <2>4, <2>5, <2>6 DEF PartitionExact
<1> QED
  BY <1>1, SearchInvariant, PTL
===============================================================================
