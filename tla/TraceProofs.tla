----------------------------- MODULE TraceProofs -----------------------------
(***************************************************************************)
(* Machine-checked facts about TraceReducer, for all processes,            *)
(* descriptors, files and traces.                                          *)
(***************************************************************************)
EXTENDS TraceReducer, FiniteSetTheorems, WellFoundedInduction, TLAPS

-------------------------------------------------------------------------------
(* Following creations upwards                                             *)

\* Induction over the numbers, for a set in place of a predicate.
LEMMA NatSetInduction ==
    ASSUME NEW S, 0 \in S, \A n \in Nat : n \in S => n + 1 \in S
    PROVE  Nat \subseteq S
<1> DEFINE T == Nat \ S
           R == OpToRel(<, Nat)
<1> SUFFICES ASSUME T # {} PROVE FALSE
  OBVIOUS
<1>1. IsWellFoundedOn(R, Nat)
  BY NatLessThanWellFounded
<1>2. PICK x \in T : \A y \in T : ~(<<y, x>> \in R)
  <2> HIDE DEF R
  <2>1. T \subseteq Nat
    OBVIOUS
  <2> HIDE DEF T
  <2> QED
    BY <1>1, <2>1, WFMin
<1>3. x # 0 /\ x \in Nat
  OBVIOUS
<1>4. x - 1 \in Nat /\ x - 1 < x /\ x - 1 + 1 = x
  BY <1>3
<1>5. <<x - 1, x>> \in R
  BY <1>3, <1>4 DEF OpToRel
<1> QED
  BY <1>2, <1>3, <1>4, <1>5

Creators == [Pids -> Pids \cup {NoPid}]

\* With every process of X its creator is in X.
UpClosed(up, X) == \A q \in X : up[q] # NoPid => up[q] \in X

Up(up, X) == X \cup {up[q] : q \in {r \in X : up[r] # NoPid}}

\* The levels of `Above`.
Climb(up, p) ==
    CHOOSE climb : climb = [n \in 0..Cardinality(Pids) |->
                               IF n = 0 THEN {p} ELSE Up(up, climb[n - 1])]

LEMMA PidsFinite == Cardinality(Pids) \in Nat /\ IsFiniteSet(Pids)
  BY TraceAssumption, FS_CardinalityType

LEMMA AboveIsClimb ==
    ASSUME NEW up, NEW p
    PROVE  Above(up, p) = Climb(up, p)[Cardinality(Pids)] \ {p}
  BY DEF Above, Climb, Up

\* The recursive definition of the levels has a solution.
LEMMA ClimbUnfolds ==
    ASSUME NEW up, NEW p
    PROVE  Climb(up, p) = [n \in 0..Cardinality(Pids) |->
                              IF n = 0 THEN {p} ELSE Up(up, Climb(up, p)[n - 1])]
<1> DEFINE Solves(g, N) == g = [n \in 0..N |-> IF n = 0 THEN {p} ELSE Up(up, g[n - 1])]
           S == {N \in Nat : \E g : Solves(g, N)}
<1>1. 0 \in S
  <2> DEFINE g == [n \in 0..0 |-> {p}]
  <2>1. Solves(g, 0)
    OBVIOUS
  <2> QED
    BY <2>1
<1>2. ASSUME NEW N \in Nat, N \in S
      PROVE  N + 1 \in S
  <2>1. PICK g : Solves(g, N)
    BY <1>2
  <2> DEFINE h == [n \in 0..(N + 1) |-> IF n = N + 1 THEN Up(up, g[N]) ELSE g[n]]
  <2>2. ASSUME NEW n \in 0..(N + 1)
        PROVE  h[n] = IF n = 0 THEN {p} ELSE Up(up, h[n - 1])
    <3>1. CASE n = N + 1
      <4>1. h[n] = Up(up, g[N]) /\ n - 1 = N /\ n # 0 /\ h[N] = g[N]
        BY <1>2, <3>1
      <4> QED
        BY <4>1
    <3>2. CASE n = 0
      <4>1. h[n] = g[0] /\ g[0] = {p}
        BY <1>2, <2>1, <3>2
      <4> QED
        BY <4>1, <3>2
    <3>3. CASE n \in 1..N
      <4>1. n \in 0..N /\ n # 0 /\ n # N + 1 /\ n - 1 \in 0..(N + 1) /\ n - 1 # N + 1
        BY <1>2, <3>3
      <4>2. h[n] = g[n] /\ h[n - 1] = g[n - 1]
        BY <1>2, <4>1
      <4>3. g[n] = Up(up, g[n - 1])
        BY <2>1, <4>1
      <4> QED
        BY <4>1, <4>2, <4>3
    <3> QED
      BY <1>2, <3>1, <3>2, <3>3
  <2>3. Solves(h, N + 1)
    <3>1. h = [n \in 0..(N + 1) |-> h[n]]
      OBVIOUS
    <3> HIDE DEF h
    <3> QED
      BY <2>2, <3>1
  <2>4. N + 1 \in Nat /\ \E f : Solves(f, N + 1)
    <3> HIDE DEF h, Solves
    <3> QED
      BY <1>2, <2>3
  <2> QED
    BY <2>4
<1>3. Cardinality(Pids) \in S
  <2> HIDE DEF S
  <2> QED
    BY <1>1, <1>2, NatSetInduction, PidsFinite
<1>4. PICK g : Solves(g, Cardinality(Pids))
  BY <1>3
<1> QED
  BY <1>4 DEF Climb

LEMMA ClimbSteps ==
    ASSUME NEW up, NEW p
    PROVE  /\ Climb(up, p)[0] = {p}
           /\ \A n \in Nat : n + 1 <= Cardinality(Pids) =>
                 Climb(up, p)[n + 1] = Up(up, Climb(up, p)[n])
<1> DEFINE K == Cardinality(Pids)
           c == Climb(up, p)
<1>0. K \in Nat
  BY PidsFinite
<1>1. c = [n \in 0..K |-> IF n = 0 THEN {p} ELSE Up(up, c[n - 1])]
  BY ClimbUnfolds
<1> HIDE DEF K, c
<1>4. \A m \in 0..K : c[m] = IF m = 0 THEN {p} ELSE Up(up, c[m - 1])
  <2> DEFINE F(m) == IF m = 0 THEN {p} ELSE Up(up, c[m - 1])
  <2>1. c = [m \in 0..K |-> F(m)]
    BY <1>1
  <2> HIDE DEF F
  <2>2. \A m \in 0..K : c[m] = F(m)
    BY <2>1
  <2> QED
    BY <2>2 DEF F
<1>2. c[0] = {p}
  BY <1>0, <1>4
<1>3. ASSUME NEW n \in Nat, n + 1 <= K
      PROVE  c[n + 1] = Up(up, c[n])
  <2>1. n + 1 \in 0..K /\ n + 1 # 0 /\ n + 1 - 1 = n
    BY <1>0, <1>3
  <2>2. c[n + 1] = Up(up, c[n + 1 - 1])
    BY <1>4, <2>1
  <2> QED
    BY <2>1, <2>2
<1> QED
  BY <1>2, <1>3 DEF K, c

\* The creations lead from a process only to processes, and in as many steps as there
\* are processes to all of them: a level that is not the last one is a larger set.
LEMMA ClimbGrows ==
    ASSUME NEW up \in Creators, NEW p \in Pids
    PROVE  \A n \in Nat : n <= Cardinality(Pids) =>
              /\ p \in Climb(up, p)[n]
              /\ Climb(up, p)[n] \subseteq Pids
              /\ \/ UpClosed(up, Climb(up, p)[n])
                 \/ Cardinality(Climb(up, p)[n]) >= n + 1
<1> DEFINE K == Cardinality(Pids)
           c == Climb(up, p)
           Good(n) == /\ p \in c[n]
                      /\ c[n] \subseteq Pids
                      /\ \/ UpClosed(up, c[n])
                         \/ Cardinality(c[n]) >= n + 1
           S == {n \in Nat : n <= K => Good(n)}
<1>0. /\ K \in Nat
      /\ c[0] = {p}
      /\ \A n \in Nat : n + 1 <= K => c[n + 1] = Up(up, c[n])
  BY PidsFinite, ClimbSteps
<1> HIDE DEF c, K
<1>1. 0 \in S
  <2>1. Cardinality({p}) = 1
    BY FS_Singleton
  <2> QED
    BY <1>0, <2>1
<1>2. ASSUME NEW n \in Nat, n \in S
      PROVE  n + 1 \in S
  <2>1. SUFFICES ASSUME n + 1 <= K
                 PROVE  Good(n + 1)
    BY <1>2
  <2>2. Good(n) /\ c[n + 1] = Up(up, c[n])
    BY <1>0, <1>2, <2>1
  <2>3. c[n] \subseteq c[n + 1] /\ c[n + 1] \subseteq Pids
    BY <2>2 DEF Up, Creators
  <2>4. CASE UpClosed(up, c[n])
    <3>1. c[n + 1] = c[n]
      BY <2>2, <2>4 DEF Up, UpClosed
    <3> QED
      BY <2>2, <2>4, <3>1
  <2>5. CASE ~UpClosed(up, c[n])
    <3>1. PICK q \in c[n] : up[q] # NoPid /\ up[q] \notin c[n]
      BY <2>5 DEF UpClosed
    <3>2. up[q] \in c[n + 1]
      BY <2>2, <3>1 DEF Up
    <3>3. c[n] # c[n + 1]
      BY <3>1, <3>2
    <3>4. IsFiniteSet(c[n + 1])
      BY <2>3, PidsFinite, FS_Subset
    <3>5. /\ Cardinality(c[n]) < Cardinality(c[n + 1])
          /\ Cardinality(c[n]) \in Nat /\ Cardinality(c[n + 1]) \in Nat
      BY <2>3, <3>3, <3>4, FS_Subset, FS_CardinalityType
    <3>6. Cardinality(c[n]) >= n + 1
      BY <2>2, <2>5
    <3>7. Cardinality(c[n + 1]) >= n + 1 + 1
      BY <3>5, <3>6
    <3> QED
      BY <2>2, <2>3, <3>7
  <2> QED
    BY <2>4, <2>5
<1>3. Nat \subseteq S
  <2> HIDE DEF S
  <2> QED
    BY <1>1, <1>2, NatSetInduction
<1> QED
  BY <1>3 DEF K, c

\* A set that contains p and with every process its creator contains every level.
LEMMA ClimbLeast ==
    ASSUME NEW up \in Creators, NEW p \in Pids, NEW X, p \in X, UpClosed(up, X)
    PROVE  \A n \in Nat : n <= Cardinality(Pids) => Climb(up, p)[n] \subseteq X
<1> DEFINE K == Cardinality(Pids)
           c == Climb(up, p)
           S == {n \in Nat : n <= K => c[n] \subseteq X}
<1>0. /\ K \in Nat
      /\ c[0] = {p}
      /\ \A n \in Nat : n + 1 <= K => c[n + 1] = Up(up, c[n])
  BY PidsFinite, ClimbSteps
<1> HIDE DEF c, K
<1>1. 0 \in S
  BY <1>0
<1>2. ASSUME NEW n \in Nat, n \in S
      PROVE  n + 1 \in S
  <2>1. SUFFICES ASSUME n + 1 <= K
                 PROVE  c[n + 1] \subseteq X
    BY <1>2
  <2>2. c[n] \subseteq X /\ c[n + 1] = Up(up, c[n])
    BY <1>0, <1>2, <2>1
  <2> QED
    BY <2>2 DEF Up, UpClosed
<1>3. Nat \subseteq S
  <2> HIDE DEF S
  <2> QED
    BY <1>1, <1>2, NatSetInduction
<1> QED
  BY <1>3 DEF K, c

\* Above(up, p) is what the creations lead to from p: with p it is closed, ...
LEMMA AboveClosed ==
    ASSUME NEW up \in Creators, NEW p \in Pids
    PROVE  /\ UpClosed(up, Above(up, p) \cup {p})
           /\ Above(up, p) \subseteq Pids
           /\ p \notin Above(up, p)
<1> DEFINE K == Cardinality(Pids)
           top == Climb(up, p)[K]
<1>1. K \in Nat /\ IsFiniteSet(Pids)
  BY PidsFinite
<1>2. p \in top /\ top \subseteq Pids /\ (UpClosed(up, top) \/ Cardinality(top) >= K + 1)
  BY <1>1, ClimbGrows
<1>3. Cardinality(top) <= K /\ Cardinality(top) \in Nat
  BY <1>1, <1>2, FS_Subset, FS_CardinalityType
<1>4. UpClosed(up, top)
  BY <1>1, <1>2, <1>3
<1>5. Above(up, p) = top \ {p}
  BY AboveIsClimb
<1>6. Above(up, p) \cup {p} = top
  BY <1>2, <1>5
<1> QED
  BY <1>2, <1>4, <1>5, <1>6

\* ... and it is the least such set.
LEMMA AboveLeast ==
    ASSUME NEW up \in Creators, NEW p \in Pids, NEW X, p \in X, UpClosed(up, X)
    PROVE  Above(up, p) \subseteq X
  BY AboveIsClimb, ClimbLeast, PidsFinite
\* Some process of every set has its creator outside of it.
Acyclic(up) == \A S \in SUBSET Pids : S # {} => \E x \in S : up[x] \notin S

\* What is above a process is its creator and what is above that one.
LEMMA AboveOfChild ==
    ASSUME NEW up \in Creators, Acyclic(up), NEW p \in Pids, up[p] # NoPid
    PROVE  /\ up[p] \in Pids /\ up[p] # p
           /\ up[p] \notin Above(up, up[p])
           /\ Above(up, p) = Above(up, up[p]) \cup {up[p]}
<1> DEFINE q == up[p]
           C == Above(up, q) \cup {q}
<1>1. q \in Pids
  BY DEF Creators
<1>2. q # p
  <2>1. {p} \in SUBSET Pids /\ {p} # {}
    OBVIOUS
  <2>2. \E x \in {p} : up[x] \notin {p}
    BY <2>1 DEF Acyclic
  <2> QED
    BY <2>2
<1>3. q \notin Above(up, q) /\ C \subseteq Pids /\ UpClosed(up, C)
  BY <1>1, AboveClosed
<1>4. p \notin Above(up, p) /\ UpClosed(up, Above(up, p) \cup {p})
  BY AboveClosed
<1>5. Above(up, p) \subseteq C \cup {p}
  <2>1. UpClosed(up, C \cup {p})
    BY <1>3 DEF UpClosed
  <2> QED
    BY <2>1, AboveLeast
<1>6. q \in Above(up, p)
  BY <1>2, <1>4 DEF UpClosed
<1>7. Above(up, q) \subseteq Above(up, p) \cup {p}
  BY <1>1, <1>4, <1>6, AboveLeast
<1>8. p \notin Above(up, q)
  <2>1. SUFFICES ASSUME p \in Above(up, q)
                 PROVE  FALSE
    OBVIOUS
  <2> DEFINE S == {x \in C : p \in Above(up, x) \cup {x}}
  <2>2. S \in SUBSET Pids /\ q \in S
    BY <1>3, <2>1
  <2>3. PICK x \in S : up[x] \notin S
    BY <2>2 DEF Acyclic
  <2>4. x \in Pids /\ x \in C /\ p \in Above(up, x) \cup {x}
    BY <2>2
  <2>5. x # p
    BY <2>2, <2>3
  <2>6. up[x] # NoPid
    <3>1. SUFFICES ASSUME up[x] = NoPid
                   PROVE  FALSE
      OBVIOUS
    <3>2. UpClosed(up, {x})
      BY <3>1 DEF UpClosed
    <3>3. Above(up, x) \subseteq {x}
      BY <2>4, <3>2, AboveLeast
    <3> QED
      BY <2>4, <2>5, <3>3
  <2>7. up[x] \in C /\ up[x] \in Pids
    BY <1>3, <2>4, <2>6 DEF UpClosed
  <2> DEFINE X == Above(up, up[x]) \cup {up[x]}
  <2>8. UpClosed(up, X)
    BY <2>7, AboveClosed
  <2>9. UpClosed(up, X \cup {x})
    BY <2>8 DEF UpClosed
  <2>10. Above(up, x) \subseteq X \cup {x}
    BY <2>4, <2>9, AboveLeast
  <2>11. p \in X
    BY <2>4, <2>5, <2>10
  <2> QED
    BY <2>3, <2>7, <2>11
<1> QED
  BY <1>1, <1>2, <1>3, <1>4, <1>5, <1>6, <1>7, <1>8

LEMMA DepthGrows ==
    ASSUME NEW up \in Creators, Acyclic(up), NEW p \in Pids, up[p] # NoPid
    PROVE  Cardinality(Above(up, p)) = Cardinality(Above(up, up[p])) + 1
<1>1. /\ up[p] \in Pids /\ up[p] \notin Above(up, up[p])
      /\ Above(up, p) = Above(up, up[p]) \cup {up[p]}
  BY AboveOfChild
<1>2. IsFiniteSet(Above(up, up[p]))
  BY <1>1, AboveClosed, PidsFinite, FS_Subset
<1> QED
  BY <1>1, <1>2, FS_AddElement

\* Fewer known creations lead to fewer processes.
LEMMA AboveMonotone ==
    ASSUME NEW up \in Creators, NEW all \in Creators, NEW p \in Pids,
           \A x \in Pids : up[x] # NoPid => up[x] = all[x]
    PROVE  Above(up, p) \subseteq Above(all, p)
<1> DEFINE X == Above(all, p) \cup {p}
<1>1. UpClosed(all, X) /\ X \subseteq Pids
  BY AboveClosed
<1>2. UpClosed(up, X)
  BY <1>1 DEF UpClosed
<1>3. Above(up, p) \subseteq X /\ p \notin Above(up, p)
  BY <1>2, AboveLeast, AboveClosed
<1> QED
  BY <1>3
-------------------------------------------------------------------------------
(* The inductive invariant                                                 *)

\* A process that was not created has no part in anything, the creations that the
\* pre-pass knows are real, and they do not go around in circles.
LineageInv ==
    /\ \A x \in Pids \ alive :
        /\ family[x] = NoPid /\ parents[x] = NoPid /\ blocked[x] = NoPid
        /\ ~classes[x].seen
        /\ \A y \in Pids : parents[y] # x
    /\ \A x \in Pids : blocked[x] # NoPid => blocked[x] \in alive
    /\ \A x \in Pids : parents[x] # NoPid => parents[x] = family[x]
    /\ Acyclic(parents)

LinesAreTrue == gaps \cap {"threads", "lateEntry", "misread"} = {}

\* What a line of the process would go by.
Known(x, fd) == OrDefault(Inherited(x))[fd]

\* A process without an entry, while its creator has one, is just being created.
EntriesInOrder ==
    /\ \A x, q \in Pids :
        parents[x] = q /\ ~classes[x].seen => blocked[q] = x \/ ~Inherited(q).seen
    /\ \A q \in Pids : blocked[q] # NoPid /\ Inherited(q).seen => classes[q].seen

\* What is known of a descriptor is true of it, unless its last change was missed, ...
TrueOf(class, descriptor) ==
    class.input # "none" =>
        /\ descriptor.open
        /\ descriptor.input = class.input
        /\ descriptor.cloexec = class.cloexec

KnownIsTrue == \A x \in alive : \A fd \in Fds \ stale[x] : TrueOf(Known(x, fd), fds[x][fd])

\* ... and a descriptor of an input is known.
KnownOf(class, descriptor) ==
    descriptor.open /\ descriptor.input # "none" => class.input = descriptor.input

TruthIsKnown == \A x \in alive : \A fd \in Fds \ stale[x] : KnownOf(Known(x, fd), fds[x][fd])

DescriptorInv ==
    /\ LinesAreTrue => /\ table = [x \in Pids |-> x]
                       /\ EntriesInOrder
                       /\ KnownIsTrue
    /\ LinesAreTrue /\ "cut" \notin gaps => TruthIsKnown

\* A process or one above it is said to have opened such an input.
OpenedBy(up, said, x, input) == \E a \in Above(up, x) \cup {x} : Did(input, "read") \in said[a]

Opened(x, input) == OpenedBy(parents, activity, x, input)

\* What is known of descriptors, and said of mappings, goes back to an open.
OriginInv ==
    /\ \A x \in Pids : classes[x].seen =>
        \A fd \in Fds : classes[x].fds[fd].input # "none" => Opened(x, classes[x].fds[fd].input)
    /\ \A x \in Pids : \A e \in activity[x] \cap Mmaps : Opened(x, e.what)

WritersAreTrue == gaps \cap {"split", "overwritten", "removed", "alias"} = {}

EvidenceInv ==
    /\ "misread" \notin gaps =>
        \A x \in Pids : activity[x] \ (Mmaps \cup Publications) \subseteq did[x]
    /\ \A x \in Pids : Network \in activity[x] => Network \in did[x]
    /\ LinesAreTrue /\ "stale" \notin gaps =>
        \A x \in Pids : activity[x] \cap Mmaps \subseteq did[x]
    /\ WritersAreTrue =>
        /\ \A x \in Pids : activity[x] \cap Publications \subseteq did[x]
        /\ \A f \in Files : writers[f] \subseteq authors[f]

NothingLost == gaps \cap Losses = {}

CompletenessInv ==
    NothingLost => /\ parents = family
                   /\ \A f \in Files : authors[f] \subseteq writers[f]
                   /\ \A x \in Pids : did[x] \subseteq activity[x]

TraceInv == LineageInv /\ DescriptorInv /\ OriginInv /\ EvidenceInv /\ CompletenessInv
-------------------------------------------------------------------------------
(* Types                                                                   *)

Entries == {Unseen} \cup [seen : {TRUE}, fds : [Fds -> FdClasses]]

Gaps == {"split", "threads", "cut", "lateEntry", "untraced", "stale",
         "misread", "alias", "overwritten", "removed", "inProgress"}

LEMMA ClassifiedType ==
    ASSUME NEW input \in Inputs \cup {"none"}, NEW cloexec \in BOOLEAN
    PROVE  Classified(input, cloexec) \in FdClasses
  BY DEF Classified, FdClasses, Inputs

LEMMA ClassType ==
    ASSUME NEW class \in FdClasses
    PROVE  class.input \in Inputs \cup {"none"} /\ class.cloexec \in BOOLEAN
<1>1. CASE class = Unclassified
  BY <1>1 DEF Unclassified
<1>2. CASE class \in [input : Inputs, cloexec : BOOLEAN]
  BY <1>2
<1> QED
  BY <1>1, <1>2 DEF FdClasses

LEMMA SeenType ==
    ASSUME NEW known \in [Fds -> FdClasses]
    PROVE  Seen(known) \in Entries /\ Seen(known).seen /\ Seen(known).fds = known
  BY DEF Seen, Entries

LEMMA EntryType ==
    ASSUME NEW entry \in Entries
    PROVE  /\ entry.seen \in BOOLEAN
           /\ entry.seen => entry.fds \in [Fds -> FdClasses]
           /\ OrDefault(entry) \in [Fds -> FdClasses]
<1>1. Empty \in [Fds -> FdClasses]
  BY DEF Empty, FdClasses
<1>2. CASE entry = Unseen
  BY <1>1, <1>2 DEF Unseen, OrDefault
<1>3. CASE entry \in [seen : {TRUE}, fds : [Fds -> FdClasses]]
  BY <1>3 DEF OrDefault
<1> QED
  BY <1>2, <1>3 DEF Entries

LEMMA InheritedType ==
    ASSUME TypeOK, NEW x \in Pids
    PROVE  Inherited(x) \in Entries
<1>1. classes \in [Pids -> Entries] /\ parents \in [Pids -> Pids \cup {NoPid}]
  BY DEF TypeOK, Entries
<1> QED
  BY <1>1 DEF Inherited

LEMMA DescriptorType ==
    ASSUME NEW d \in Descriptors
    PROVE  /\ d.open \in BOOLEAN
           /\ d.open => d.input \in Inputs \cup {"none"} /\ d.cloexec \in BOOLEAN
<1>1. CASE d = Closed
  BY <1>1 DEF Closed
<1>2. CASE d \in [open : {TRUE}, input : Inputs \cup {"none"}, cloexec : BOOLEAN]
  BY <1>2
<1> QED
  BY <1>1, <1>2 DEF Descriptors

LEMMA FlagType ==
    ASSUME NEW d \in Descriptors, d.open, NEW cloexec \in BOOLEAN
    PROVE  [d EXCEPT !.cloexec = cloexec] \in Descriptors
<1>1. d # Closed
  BY DEF Closed
<1>2. d \in [open : {TRUE}, input : Inputs \cup {"none"}, cloexec : BOOLEAN]
  BY <1>1 DEF Descriptors
<1>3. [d EXCEPT !.cloexec = cloexec]
        \in [open : {TRUE}, input : Inputs \cup {"none"}, cloexec : BOOLEAN]
  BY <1>2
<1> QED
  BY <1>3 DEF Descriptors

LEMMA LineType ==
    ASSUME TypeOK, NEW x \in Pids, Runs(x), NEW whole \in BOOLEAN, NEW entry \in Entries,
           NEW evidence \in SUBSET Evidence, NEW paths \in [Files -> SUBSET Pids],
           NEW lost \in SUBSET Gaps, Line(x, whole, entry, evidence, paths, lost)
    PROVE  /\ calls' \in 0..MaxCalls
           /\ parents' \in Creators
           /\ classes' \in [Pids -> Entries]
           /\ writers' \in [Files -> SUBSET Pids]
           /\ activity' \in [Pids -> SUBSET Evidence]
           /\ gaps' \subseteq Gaps
<1>1. calls' \in 0..MaxCalls
  BY TraceAssumption DEF TypeOK, Runs, Line
<1>2. parents' \in Creators
  BY DEF TypeOK, Line, Creators
<1>3. classes' \in [Pids -> Entries]
  <2>1. classes \in [Pids -> Entries]
    BY DEF TypeOK, Entries
  <2>2. Inherited(x) \in Entries
    BY InheritedType
  <2>3. (IF whole THEN entry ELSE Inherited(x)) \in Entries
    BY <2>2
  <2>4. classes' = [classes EXCEPT ![x] = IF whole THEN entry ELSE Inherited(x)]
    BY DEF Line
  <2> HIDE DEF Entries
  <2> QED
    BY <2>1, <2>3, <2>4
<1>4. writers' \in [Files -> SUBSET Pids]
  BY DEF TypeOK, Line
<1>5. activity' \in [Pids -> SUBSET Evidence]
  <2>1. activity \in [Pids -> SUBSET Evidence]
    BY DEF TypeOK
  <2>2. (IF whole THEN activity[x] \cup evidence ELSE activity[x]) \in SUBSET Evidence
    BY <2>1
  <2> QED
    BY <2>1, <2>2 DEF Line
<1>6. gaps' \subseteq Gaps
  BY DEF TypeOK, Line, Gaps
<1> QED
  BY <1>1, <1>2, <1>3, <1>4, <1>5, <1>6

LEMMA TruthType ==
    ASSUME TypeOK, NEW x \in Pids, NEW evidence \in SUBSET Evidence, Truth(x, evidence)
    PROVE  did' \in [Pids -> SUBSET Evidence]
<1>1. did \in [Pids -> SUBSET Evidence] /\ did[x] \cup evidence \in SUBSET Evidence
  BY DEF TypeOK
<1> QED
  BY <1>1 DEF Truth

\* The evidence of the calls.
LEMMA EvidenceTypes ==
    /\ \A file \in Files, writing \in BOOLEAN :
        /\ InputOf(file, writing) \in Inputs \cup {"none"}
        /\ OpenEvidence(file, writing) \subseteq Evidence
    /\ \A file, path : Misread(file, path) \subseteq Gaps /\ Alias(file, path) \subseteq Gaps
    /\ \A x, destination, authorsOfSource, related :
        RenameEvidence(x, destination, authorsOfSource, related) \subseteq Evidence
    /\ Network \in Evidence /\ Reads \subseteq Evidence
<1>1. ASSUME NEW file \in Files, NEW writing \in BOOLEAN
      PROVE  /\ InputOf(file, writing) \in Inputs \cup {"none"}
             /\ OpenEvidence(file, writing) \subseteq Evidence
  BY DEF InputOf, OpenEvidence, Evidence
<1>2. /\ Did("output", "publication") \in Publications
      /\ Did("output", "temp") \in Publications
      /\ Did("output", "lineageTemp") \in Publications
  BY DEF Did, Publications
<1>3. ASSUME NEW x, NEW destination, NEW authorsOfSource, NEW related
      PROVE  RenameEvidence(x, destination, authorsOfSource, related) \subseteq Evidence
  BY <1>2 DEF RenameEvidence, Evidence
<1>4. ASSUME NEW file, NEW path
      PROVE  Misread(file, path) \subseteq Gaps /\ Alias(file, path) \subseteq Gaps
  BY DEF Misread, Alias, Gaps
<1> QED
  BY <1>1, <1>3, <1>4 DEF Evidence

\* The parts of the type invariant.
KernelType ==
    /\ alive \subseteq Pids
    /\ family \in Creators
    /\ table \in [Pids -> Pids]
    /\ fds \in [Pids -> [Fds -> Descriptors]]
    /\ authors \in [Files -> SUBSET Pids]
    /\ blocked \in [Pids -> Pids \cup {NoPid}]

ParserType ==
    /\ calls \in 0..MaxCalls
    /\ parents \in Creators
    /\ classes \in [Pids -> Entries]
    /\ writers \in [Files -> SUBSET Pids]
    /\ activity \in [Pids -> SUBSET Evidence]
    /\ did \in [Pids -> SUBSET Evidence]
    /\ gaps \subseteq Gaps

StaleType == stale \in [Pids -> SUBSET Fds]

LEMMA TypeParts == TypeOK <=> KernelType /\ ParserType /\ StaleType
  BY DEF TypeOK, KernelType, ParserType, StaleType, Creators, Entries, Gaps

\* A line with its truth keeps the parser's half.
LEMMA LineKeepsParserType ==
    ASSUME TypeOK, NEW x \in Pids, Runs(x), NEW whole \in BOOLEAN, NEW entry \in Entries,
           NEW evidence \in SUBSET Evidence, NEW paths \in [Files -> SUBSET Pids],
           NEW lost \in SUBSET Gaps, Line(x, whole, entry, evidence, paths, lost),
           NEW truth \in SUBSET Evidence, Truth(x, truth)
    PROVE  ParserType'
<1>1. did' \in [Pids -> SUBSET Evidence]
  BY TruthType
<1> QED
  BY <1>1, LineType DEF ParserType

\* What the calls make of an entry is an entry, and an entry stays one.
LEMMA EntriesOfCalls ==
    ASSUME TypeOK, NEW x \in Pids
    PROVE  /\ Inherited(x) \in Entries
           /\ \A fd \in Fds, class \in FdClasses :
                Seen([OrDefault(Inherited(x)) EXCEPT ![fd] = class]) \in Entries
           /\ Inherited(x).seen =>
                /\ \A fd \in Fds, class \in FdClasses :
                    Seen([Inherited(x).fds EXCEPT ![fd] = class]) \in Entries
                /\ \A fd \in Fds, cloexec \in BOOLEAN :
                    Inherited(x).fds[fd].input # "none" =>
                    Seen([Inherited(x).fds EXCEPT ![fd].cloexec = cloexec]) \in Entries
           /\ AfterExec(Inherited(x)) \in Entries
<1> DEFINE known == OrDefault(Inherited(x))
           table_ == Inherited(x).fds
<1>1. Inherited(x) \in Entries
  BY InheritedType
<1>2. known \in [Fds -> FdClasses]
  BY <1>1, EntryType
<1>3. Inherited(x).seen => table_ \in [Fds -> FdClasses]
  BY <1>1, EntryType
<1> HIDE DEF known, table_
<1>4. ASSUME NEW fd \in Fds, NEW class \in FdClasses
      PROVE  Seen([known EXCEPT ![fd] = class]) \in Entries
  BY <1>2, SeenType
<1>5. ASSUME Inherited(x).seen, NEW fd \in Fds, NEW class \in FdClasses
      PROVE  Seen([table_ EXCEPT ![fd] = class]) \in Entries
  BY <1>3, <1>5, SeenType
<1>6. ASSUME Inherited(x).seen, NEW fd \in Fds, NEW cloexec \in BOOLEAN,
             table_[fd].input # "none"
      PROVE  Seen([table_ EXCEPT ![fd].cloexec = cloexec]) \in Entries
  <2>1. table_[fd] \in FdClasses
    BY <1>3, <1>6
  <2>2. table_[fd] # Unclassified
    BY <1>6 DEF Unclassified
  <2>3. table_[fd] \in [input : Inputs, cloexec : BOOLEAN]
    BY <2>1, <2>2 DEF FdClasses
  <2>4. [table_[fd] EXCEPT !.cloexec = cloexec] \in FdClasses
    BY <2>3 DEF FdClasses
  <2>5. [table_ EXCEPT ![fd].cloexec = cloexec]
            = [table_ EXCEPT ![fd] = [table_[fd] EXCEPT !.cloexec = cloexec]]
    OBVIOUS
  <2> QED
    BY <1>5, <1>6, <2>4, <2>5
<1>7. AfterExec(Inherited(x)) \in Entries
  <2>1. CASE ~Inherited(x).seen
    BY <1>1, <2>1 DEF AfterExec
  <2>2. CASE Inherited(x).seen
    <3> DEFINE after == [fd \in Fds |-> IF table_[fd].cloexec THEN Unclassified
                                        ELSE table_[fd]]
    <3>1. after \in [Fds -> FdClasses]
      BY <1>3, <2>2 DEF FdClasses
    <3>2. AfterExec(Inherited(x)) = Seen(after)
      BY <2>2 DEF AfterExec, table_
    <3> QED
      BY <3>1, <3>2, SeenType
  <2> QED
    BY <2>1, <2>2
<1> QED
  BY <1>1, <1>4, <1>5, <1>6, <1>7 DEF known, table_
\* What the calls of a process do to the types, one call at a time.
LEMMA OpenType ==
    ASSUME TypeOK, NEW x \in Pids, NEW file \in Files, NEW path \in Files,
           NEW writing \in BOOLEAN, NEW cloexec \in BOOLEAN, NEW whole \in BOOLEAN,
           Open(x, file, path, writing, cloexec, whole)
    PROVE  KernelType' /\ ParserType'
<1> DEFINE input == InputOf(file, writing)
           class == Classified(InputOf(path, writing), cloexec)
           paths == IF writing /\ Kind[path] # "output"
                    THEN [writers EXCEPT ![path] = @ \cup {x}] ELSE writers
           lost == Misread(file, path) \cup IF writing THEN Alias(file, path) ELSE {}
<1>0. KernelType /\ ParserType
  BY TypeParts
<1>1. /\ input \in Inputs \cup {"none"} /\ class \in FdClasses
      /\ OpenEvidence(path, writing) \in SUBSET Evidence
      /\ OpenEvidence(file, writing) \in SUBSET Evidence
      /\ lost \in SUBSET Gaps
  BY EvidenceTypes, ClassifiedType
<1>2. paths \in [Files -> SUBSET Pids]
  BY <1>0 DEF ParserType
<1> HIDE DEF paths, input, class, lost
<1>3. PICK fd \in Fds :
        /\ fds' = [fds EXCEPT ![table[x]][fd] =
                      [open |-> TRUE, input |-> input, cloexec |-> cloexec]]
        /\ Line(x, whole, Seen([OrDefault(Inherited(x)) EXCEPT ![fd] = class]),
                OpenEvidence(path, writing), paths, lost)
  BY DEF Open, input, paths, class, lost
<1>5. ParserType'
  <2>1. Seen([OrDefault(Inherited(x)) EXCEPT ![fd] = class]) \in Entries
    BY <1>1, EntriesOfCalls
  <2>2. Runs(x) /\ Truth(x, OpenEvidence(file, writing))
    BY DEF Open
  <2> QED
    BY <1>1, <1>2, <1>3, <2>1, <2>2, LineKeepsParserType
<1>6. fds' \in [Pids -> [Fds -> Descriptors]]
  <2>1. [open |-> TRUE, input |-> input, cloexec |-> cloexec] \in Descriptors
    BY <1>1 DEF Descriptors
  <2>2. fds \in [Pids -> [Fds -> Descriptors]] /\ table[x] \in Pids
    BY <1>0 DEF KernelType
  <2> QED
    BY <1>3, <2>1, <2>2
<1>7. authors' \in [Files -> SUBSET Pids]
  BY <1>0 DEF KernelType, Open
<1>8. UNCHANGED <<alive, family, table, blocked>>
  BY DEF Open
<1>9. KernelType'
  BY <1>0, <1>6, <1>7, <1>8 DEF KernelType
<1> QED
  BY <1>5, <1>9

LEMMA UntracedType ==
    ASSUME TypeOK, NEW x \in Pids, NEW fd \in Fds, NEW after \in Descriptors,
           Untraced(x, fd, after)
    PROVE  KernelType' /\ ParserType'
<1>0. KernelType /\ ParserType
  BY TypeParts
<1>3. fds' \in [Pids -> [Fds -> Descriptors]]
  BY <1>0 DEF KernelType, Untraced
<1>4. KernelType'
  BY <1>0, <1>3 DEF KernelType, Untraced
<1>5. calls' \in 0..MaxCalls
  BY <1>0, TraceAssumption DEF ParserType, Untraced, Runs
<1>6. gaps' \subseteq Gaps
  BY <1>0 DEF ParserType, Untraced, Gaps
<1>7. ParserType'
  BY <1>0, <1>5, <1>6 DEF ParserType, Untraced, parserVars
<1> QED
  BY <1>4, <1>7

LEMMA CloseType ==
    ASSUME TypeOK, NEW x \in Pids, NEW fd \in Fds, NEW whole \in BOOLEAN,
           Close(x, fd, whole)
    PROVE  KernelType' /\ ParserType'
<1>0. KernelType /\ ParserType
  BY TypeParts
<1>2. ParserType'
  <2>1. Line(x, whole, Inherited(x), {}, writers, {}) /\ Runs(x) /\ Truth(x, {})
    BY DEF Close
  <2>2. writers \in [Files -> SUBSET Pids] /\ Inherited(x) \in Entries
    BY <1>0, InheritedType DEF ParserType
  <2> QED
    BY <2>1, <2>2, LineKeepsParserType
<1>3. fds' \in [Pids -> [Fds -> Descriptors]]
  <2>1. Closed \in Descriptors
    BY DEF Descriptors
  <2> QED
    BY <1>0, <2>1 DEF KernelType, Close
<1>4. KernelType'
  BY <1>0, <1>3 DEF KernelType, Close
<1> QED
  BY <1>2, <1>4

LEMMA DuplicateType ==
    ASSUME TypeOK, NEW x \in Pids, NEW old \in Fds, NEW new \in Fds,
           NEW cloexec \in BOOLEAN, NEW whole \in BOOLEAN, NEW long \in BOOLEAN,
           Duplicate(x, old, new, cloexec, whole, long)
    PROVE  KernelType' /\ ParserType'
<1> DEFINE known == OrDefault(Inherited(x))
           class == Classified(known[old].input, cloexec)
           entry == IF long THEN Seen([known EXCEPT ![new] = class]) ELSE Inherited(x)
<1>0. KernelType /\ ParserType
  BY TypeParts
<1>1. class \in FdClasses
  <2>1. known[old] \in FdClasses
    BY InheritedType, EntryType
  <2>2. known[old].input \in Inputs \cup {"none"}
    BY <2>1, ClassType
  <2> QED
    BY <2>2, ClassifiedType
<1>2. ParserType'
  <2>1. Line(x, whole, entry, {}, writers, {})
    BY DEF Duplicate
  <2>2. Runs(x) /\ Truth(x, {})
    BY DEF Duplicate
  <2>3. writers \in [Files -> SUBSET Pids]
    BY <1>0 DEF ParserType
  <2>4. entry \in Entries
    BY <1>1, EntriesOfCalls
  <2> HIDE DEF entry
  <2> QED
    BY <2>1, <2>2, <2>3, <2>4, LineKeepsParserType
<1>3. fds' \in [Pids -> [Fds -> Descriptors]]
  <2>1. CASE old = new
    BY <1>0, <2>1 DEF KernelType, Duplicate
  <2>2. CASE old # new
    <3>1. table[x] \in Pids /\ fds[table[x]][old] \in Descriptors /\ fds[table[x]][old].open
      BY <1>0 DEF KernelType, Duplicate, Descriptor
    <3>3. [fds[table[x]][old] EXCEPT !.cloexec = cloexec] \in Descriptors
      BY <3>1, FlagType
    <3>4. fds' = [fds EXCEPT ![table[x]][new] =
                    [fds[table[x]][old] EXCEPT !.cloexec = cloexec]]
      BY <2>2 DEF Duplicate, Descriptor
    <3> DEFINE d == [fds[table[x]][old] EXCEPT !.cloexec = cloexec]
    <3>5. fds \in [Pids -> [Fds -> Descriptors]] /\ d \in Descriptors
      BY <1>0, <3>3 DEF KernelType
    <3>6. fds' = [fds EXCEPT ![table[x]][new] = d]
      BY <3>4
    <3> HIDE DEF d
    <3> QED
      BY <3>1, <3>5, <3>6
  <2> QED
    BY <2>1, <2>2
<1>4. KernelType'
  BY <1>0, <1>3 DEF KernelType, Duplicate
<1> QED
  BY <1>2, <1>4

LEMMA SetCloexecType ==
    ASSUME TypeOK, NEW x \in Pids, NEW fd \in Fds, NEW cloexec \in BOOLEAN,
           NEW whole \in BOOLEAN, NEW long \in BOOLEAN,
           SetCloexec(x, fd, cloexec, whole, long)
    PROVE  KernelType' /\ ParserType'
<1> DEFINE entry == Inherited(x)
           after == IF long /\ entry.seen /\ entry.fds[fd].input # "none"
                    THEN Seen([entry.fds EXCEPT ![fd].cloexec = cloexec]) ELSE entry
<1>0. KernelType /\ ParserType
  BY TypeParts
<1>1. after \in Entries
  BY EntriesOfCalls
<1>2. ParserType'
  <2>1. Line(x, whole, after, {}, writers, {}) /\ Runs(x) /\ Truth(x, {})
    BY DEF SetCloexec
  <2>2. writers \in [Files -> SUBSET Pids]
    BY <1>0 DEF ParserType
  <2> HIDE DEF after
  <2> QED
    BY <1>1, <2>1, <2>2, LineKeepsParserType
<1>3. fds' \in [Pids -> [Fds -> Descriptors]]
  <2>1. table[x] \in Pids /\ fds[table[x]][fd] \in Descriptors /\ fds[table[x]][fd].open
    BY <1>0 DEF KernelType, SetCloexec, Descriptor
  <2>3. [fds[table[x]][fd] EXCEPT !.cloexec = cloexec] \in Descriptors
    BY <2>1, FlagType
  <2>4. fds' = [fds EXCEPT ![table[x]][fd] = [fds[table[x]][fd] EXCEPT !.cloexec = cloexec]]
    BY DEF SetCloexec
  <2> DEFINE d == [fds[table[x]][fd] EXCEPT !.cloexec = cloexec]
  <2>5. fds \in [Pids -> [Fds -> Descriptors]] /\ d \in Descriptors
    BY <1>0, <2>3 DEF KernelType
  <2>6. fds' = [fds EXCEPT ![table[x]][fd] = d]
    BY <2>4
  <2> HIDE DEF d
  <2> QED
    BY <2>1, <2>5, <2>6
<1>4. KernelType'
  BY <1>0, <1>3 DEF KernelType, SetCloexec
<1> QED
  BY <1>2, <1>4
LEMMA ExecType ==
    ASSUME TypeOK, NEW x \in Pids, NEW whole \in BOOLEAN, NEW at \in BOOLEAN,
           Exec(x, whole, at)
    PROVE  KernelType' /\ ParserType'
<1>0. KernelType /\ ParserType
  BY TypeParts
<1> DEFINE entry == IF at THEN Inherited(x) ELSE AfterExec(Inherited(x))
<1>1. entry \in Entries
  BY EntriesOfCalls
<1>2. ParserType'
  <2>1. Line(x, whole, entry, {}, writers, {}) /\ Runs(x) /\ Truth(x, {})
    BY DEF Exec
  <2>2. writers \in [Files -> SUBSET Pids]
    BY <1>0 DEF ParserType
  <2> HIDE DEF entry
  <2> QED
    BY <1>1, <2>1, <2>2, LineKeepsParserType
<1>3. fds' \in [Pids -> [Fds -> Descriptors]]
  <2> DEFINE t == fds[table[x]]
             after == [fd \in Fds |-> IF t[fd].open /\ t[fd].cloexec THEN Closed ELSE t[fd]]
  <2>1. table[x] \in Pids /\ t \in [Fds -> Descriptors]
    BY <1>0 DEF KernelType
  <2>2. after \in [Fds -> Descriptors]
    BY <2>1 DEF Descriptors
  <2>3. fds' = [fds EXCEPT ![table[x]] = after]
    BY DEF Exec
  <2>4. fds \in [Pids -> [Fds -> Descriptors]]
    BY <1>0 DEF KernelType
  <2> HIDE DEF after
  <2> QED
    BY <2>1, <2>2, <2>3, <2>4
<1>4. KernelType'
  BY <1>0, <1>3 DEF KernelType, Exec
<1> QED
  BY <1>2, <1>4

LEMMA MmapType ==
    ASSUME TypeOK, NEW x \in Pids, NEW fd \in Fds, NEW whole \in BOOLEAN, Mmap(x, fd, whole)
    PROVE  KernelType' /\ ParserType'
<1> DEFINE entry == Inherited(x)
           said == {e \in Reads : entry.seen /\ e = Did(entry.fds[fd].input, "mmap")}
           truth == {e \in Reads : e = Did(Descriptor(x, fd).input, "mmap")}
           lost == IF fd \in stale[x] THEN {"stale"} ELSE {}
<1>0. KernelType /\ ParserType
  BY TypeParts
<1>1. said \in SUBSET Evidence /\ truth \in SUBSET Evidence /\ lost \in SUBSET Gaps
  BY DEF Evidence, Gaps
<1>2. ParserType'
  <2>1. Line(x, whole, entry, said, writers, lost) /\ Runs(x) /\ Truth(x, truth)
    BY DEF Mmap
  <2>2. writers \in [Files -> SUBSET Pids] /\ entry \in Entries
    BY <1>0, InheritedType DEF ParserType
  <2> HIDE DEF said, truth, entry, lost
  <2> QED
    BY <1>1, <2>1, <2>2, LineKeepsParserType
<1>3. KernelType'
  BY <1>0 DEF KernelType, Mmap, kernelVars
<1> QED
  BY <1>2, <1>3

LEMMA RenameType ==
    ASSUME TypeOK, NEW x \in Pids, NEW source \in Files, NEW destination \in Files,
           NEW from \in Files, NEW to \in Files, NEW whole \in BOOLEAN,
           Rename(x, source, destination, from, to, whole)
    PROVE  KernelType' /\ ParserType'
<1> DEFINE kin == Kin(x)
           said == RenameEvidence(x, to, writers[from], kin)
           truth == RenameEvidence(x, destination, authors[source], TrueKin(x))
           lost == Alias(source, from) \cup Alias(destination, to)
                       \cup IF authors[destination] # {} THEN {"overwritten"} ELSE {}
<1>0. KernelType /\ ParserType
  BY TypeParts
<1>1. said \in SUBSET Evidence /\ truth \in SUBSET Evidence /\ lost \in SUBSET Gaps
  <2>1. \A where, related, who : RenameEvidence(x, where, who, related) \in SUBSET Evidence
    BY EvidenceTypes
  <2>2. lost \in SUBSET Gaps
    BY EvidenceTypes DEF Gaps
  <2> HIDE DEF kin, lost
  <2> QED
    BY <2>1, <2>2
<1>2. WritersMoved(from, to) \in [Files -> SUBSET Pids]
  BY <1>0 DEF WritersMoved, ParserType
<1>3. ParserType'
  <2>1. /\ Line(x, whole, Inherited(x), said, WritersMoved(from, to), lost)
        /\ Runs(x) /\ Truth(x, truth)
    BY DEF Rename
  <2>2. Inherited(x) \in Entries
    BY InheritedType
  <2> HIDE DEF said, truth, lost
  <2> QED
    BY <1>1, <1>2, <2>1, <2>2, LineKeepsParserType
<1>4. authors' \in [Files -> SUBSET Pids]
  BY <1>0 DEF KernelType, Rename
<1>5. KernelType'
  BY <1>0, <1>4 DEF KernelType, Rename
<1> QED
  BY <1>3, <1>5

LEMMA UnlinkType ==
    ASSUME TypeOK, NEW x \in Pids, NEW file \in Files, NEW whole \in BOOLEAN,
           Unlink(x, file, whole)
    PROVE  KernelType' /\ ParserType'
<1> DEFINE lost == IF authors[file] # {} THEN {"removed"} ELSE {}
<1>0. KernelType /\ ParserType
  BY TypeParts
<1>1. ParserType'
  <2>1. Line(x, whole, Inherited(x), {}, writers, lost) /\ Runs(x) /\ Truth(x, {})
    BY DEF Unlink
  <2>2. /\ writers \in [Files -> SUBSET Pids] /\ Inherited(x) \in Entries
        /\ lost \in SUBSET Gaps
    BY <1>0, InheritedType DEF ParserType, Gaps
  <2> HIDE DEF lost
  <2> QED
    BY <2>1, <2>2, LineKeepsParserType
<1>2. authors' \in [Files -> SUBSET Pids]
  BY <1>0 DEF KernelType, Unlink
<1>3. KernelType'
  BY <1>0, <1>2 DEF KernelType, Unlink
<1> QED
  BY <1>1, <1>3

LEMMA ConnectType ==
    ASSUME TypeOK, NEW x \in Pids, NEW scope \in TracedScopes,
           NEW completes \in BOOLEAN, NEW whole \in BOOLEAN,
           Connect(x, scope, completes, whole)
    PROVE  KernelType' /\ ParserType'
<1> DEFINE traffic == IF scope \in NonlocalScopes THEN {Network} ELSE {}
           said == IF completes THEN traffic ELSE {}
           lost == IF traffic # {} /\ ~completes THEN {"inProgress"} ELSE {}
<1>0. KernelType /\ ParserType
  BY TypeParts
<1>1. said \in SUBSET Evidence /\ traffic \in SUBSET Evidence /\ lost \in SUBSET Gaps
  <2>1. {Network} \in SUBSET Evidence /\ {} \in SUBSET Evidence
    BY EvidenceTypes
  <2>2. traffic \in SUBSET Evidence
    BY <2>1
  <2>3. said \in SUBSET Evidence
    BY <2>1, <2>2
  <2>4. lost \in SUBSET Gaps
    BY DEF Gaps
  <2> QED
    BY <2>2, <2>3, <2>4
<1>2. ParserType'
  <2>1. Line(x, whole, Inherited(x), said, writers, lost) /\ Runs(x) /\ Truth(x, traffic)
    BY DEF Connect
  <2>2. writers \in [Files -> SUBSET Pids] /\ Inherited(x) \in Entries
    BY <1>0, InheritedType DEF ParserType
  <2> HIDE DEF traffic, said, lost
  <2> QED
    BY <1>1, <2>1, <2>2, LineKeepsParserType
<1>3. KernelType'
  BY <1>0 DEF KernelType, Connect, kernelVars
<1> QED
  BY <1>2, <1>3

LEMMA FailedCallType ==
    ASSUME TypeOK, NEW x \in Pids, FailedCall(x)
    PROVE  KernelType' /\ ParserType'
<1>0. KernelType /\ ParserType
  BY TypeParts
<1>1. ParserType'
  <2>1. PICK whole \in BOOLEAN :
            Line(x, whole, Inherited(x), {}, writers, {}) /\ Runs(x) /\ Truth(x, {})
    BY Zenon DEF FailedCall
  <2>2. writers \in [Files -> SUBSET Pids] /\ Inherited(x) \in Entries
    BY <1>0, InheritedType DEF ParserType
  <2> QED
    BY <2>1, <2>2, LineKeepsParserType
<1>2. KernelType'
  BY <1>0 DEF KernelType, FailedCall, kernelVars
<1> QED
  BY <1>1, <1>2

LEMMA CloneType ==
    ASSUME TypeOK, NEW x \in Pids, NEW child \in Pids,
           NEW threads \in BOOLEAN, NEW known \in BOOLEAN,
           Clone(x, child, threads, known)
    PROVE  KernelType' /\ ParserType'
<1>0. KernelType /\ ParserType
  BY TypeParts
<1>1. KernelType'
  <2>1. table' \in [Pids -> Pids]
    BY <1>0 DEF KernelType, Clone
  <2>2. fds' \in [Pids -> [Fds -> Descriptors]]
    <3>1. fds \in [Pids -> [Fds -> Descriptors]] /\ fds[table[x]] \in [Fds -> Descriptors]
      BY <1>0 DEF KernelType
    <3>2. fds' = fds \/ fds' = [fds EXCEPT ![child] = fds[table[x]]]
      BY DEF Clone
    <3> QED
      BY <3>1, <3>2
  <2>3. /\ alive' \subseteq Pids /\ family' \in Creators
        /\ blocked' \in [Pids -> Pids \cup {NoPid}]
    BY <1>0 DEF KernelType, Clone, Creators
  <2> QED
    BY <1>0, <2>1, <2>2, <2>3 DEF KernelType, Clone
<1>2. ParserType'
  <2>1. Inherited(x) \in Entries
    BY InheritedType
  <2>2. classes' \in [Pids -> Entries]
    <3> HIDE DEF Entries
    <3> QED
      BY <1>0, <2>1 DEF ParserType, Clone
  <2>3. parents' \in Creators
    BY <1>0 DEF ParserType, Clone, Creators
  <2>4. calls' \in 0..MaxCalls
    BY <1>0, TraceAssumption DEF ParserType, Clone, Runs
  <2>5. gaps' \subseteq Gaps
    BY <1>0 DEF ParserType, Clone, Gaps
  <2> QED
    BY <1>0, <2>2, <2>3, <2>4, <2>5 DEF ParserType, Clone
<1> QED
  BY <1>1, <1>2

LEMMA CloneReturnsType ==
    ASSUME TypeOK, NEW x \in Pids, CloneReturns(x)
    PROVE  KernelType' /\ ParserType'
<1>0. KernelType /\ ParserType
  BY TypeParts
<1>1. KernelType'
  BY <1>0 DEF KernelType, CloneReturns
<1>2. Inherited(x) \in Entries /\ blocked[x] \in Pids
  BY <1>0, InheritedType DEF KernelType, CloneReturns
<1>3. classes' \in [Pids -> Entries]
  <2> DEFINE entry == Inherited(x)
             child == blocked[x]
  <2>1. classes' = [classes EXCEPT ![x] = entry, ![child] = IF @.seen THEN @ ELSE entry]
    BY DEF CloneReturns
  <2>2. classes \in [Pids -> Entries]
    BY <1>0 DEF ParserType
  <2> HIDE DEF entry, child, Entries
  <2> QED
    BY <1>2, <2>1, <2>2 DEF entry, child
<1>4. ParserType'
  BY <1>0, <1>3 DEF ParserType, CloneReturns
<1> QED
  BY <1>1, <1>4

\* The names of a call are files, too.
LEMMA SpellingsAreFiles == \A file \in Files : Spellings[file] \subseteq Files
  BY TraceAssumption

\* One call of one process.
Call(x) ==
    \/ \E file, path \in Files, writing, cloexec, whole \in BOOLEAN :
            Open(x, file, path, writing, cloexec, whole)
    \/ \E fd \in Fds, whole \in BOOLEAN : Close(x, fd, whole) \/ Mmap(x, fd, whole)
    \/ \E old, new \in Fds, cloexec, whole, long \in BOOLEAN :
            Duplicate(x, old, new, cloexec, whole, long)
    \/ \E fd \in Fds, cloexec, whole, long \in BOOLEAN : SetCloexec(x, fd, cloexec, whole, long)
    \/ \E whole, at \in BOOLEAN : Exec(x, whole, at)
    \/ \E scope \in TracedScopes, completes, whole \in BOOLEAN :
            Connect(x, scope, completes, whole)
    \/ \E source, destination, from, to \in Files, whole \in BOOLEAN :
            Rename(x, source, destination, from, to, whole)
    \/ \E file \in Files, whole \in BOOLEAN : Unlink(x, file, whole)
    \/ FailedCall(x)

LEMMA NextIsCall ==
    ASSUME Next
    PROVE  \E x \in Pids :
              \/ Call(x)
              \/ \E fd \in Fds, after \in Descriptors : Untraced(x, fd, after)
              \/ \E child \in Pids, threads, known \in BOOLEAN :
                    Clone(x, child, threads, known)
              \/ CloneReturns(x)
  BY SpellingsAreFiles DEF Next, Call

LEMMA StaleStep == TypeOK /\ Next => StaleType'
<1> SUFFICES ASSUME TypeOK, Next
             PROVE  StaleType'
  OBVIOUS
<1>1. stale \in [Pids -> SUBSET Fds]
  BY DEF TypeOK
<1>2. ASSUME NEW x \in Pids, Unlearned(x)
      PROVE  StaleType'
  <2> DEFINE more == {fd \in Fds : LET before == Descriptor(x, fd)
                                       after == fds'[table[x]][fd]
                                   IN  before # after
                                       /\ {InputAt(before), InputAt(after)} # {"none"}}
  <2>1. more \subseteq Fds /\ stale' = [stale EXCEPT ![x] = @ \cup more]
    BY <1>2 DEF Unlearned
  <2> HIDE DEF more
  <2> QED
    BY <1>1, <2>1 DEF StaleType
<1>3. ASSUME UNCHANGED stale
      PROVE  StaleType'
  BY <1>1, <1>3 DEF StaleType
<1>4. ASSUME NEW x \in Pids, Call(x)
      PROVE  StaleType'
  <2> DEFINE One == \E fd \in Fds : \/ stale' = [stale EXCEPT ![x] = @ \ {fd}]
                                    \/ stale' = [stale EXCEPT ![x] = @ \cup {fd}]
  <2>1. Unlearned(x) \/ UNCHANGED stale \/ One
    <3>1. ASSUME NEW old \in Fds, NEW new \in Fds, NEW cloexec, NEW whole, NEW long,
                 Duplicate(x, old, new, cloexec, whole, long)
          PROVE  Unlearned(x) \/ One
      <4>1. CASE old \in stale[x]
        BY <1>1, <3>1, <4>1 DEF Duplicate
      <4>2. CASE old \notin stale[x]
        BY <1>1, <3>1, <4>2 DEF Duplicate
      <4> QED
        BY <4>1, <4>2
    <3>2. ASSUME NEW file, NEW path, NEW writing, NEW cloexec, NEW whole,
                 Open(x, file, path, writing, cloexec, whole)
          PROVE  Unlearned(x) \/ One
      <4>1. PICK fd \in Fds : IF whole THEN stale' = [stale EXCEPT ![x] = @ \ {fd}]
                              ELSE Unlearned(x)
        BY <3>2 DEF Open
      <4> QED
        BY <4>1
    <3>3. ASSUME NEW fd, NEW whole, Close(x, fd, whole)
          PROVE  Unlearned(x)
      BY <3>3 DEF Close
    <3>4. ASSUME NEW fd, NEW cloexec, NEW whole, NEW long,
                 SetCloexec(x, fd, cloexec, whole, long)
          PROVE  Unlearned(x) \/ UNCHANGED stale
      BY <3>4 DEF SetCloexec
    <3>5. ASSUME NEW whole, NEW at, Exec(x, whole, at)
          PROVE  Unlearned(x) \/ UNCHANGED stale
      BY <3>5 DEF Exec
    <3>6. \/ \E fd, whole : Mmap(x, fd, whole)
          \/ \E scope, completes, whole : Connect(x, scope, completes, whole)
          \/ \E source, destination, from, to, whole :
                Rename(x, source, destination, from, to, whole)
          \/ \E file, whole : Unlink(x, file, whole)
          \/ FailedCall(x)
          => UNCHANGED stale
      BY DEF Mmap, Connect, Rename, Unlink, FailedCall
    <3> HIDE DEF One
    <3> QED
      BY <1>4, <3>1, <3>2, <3>3, <3>4, <3>5, <3>6 DEF Call
  <2>2. ASSUME NEW fd \in Fds, \/ stale' = [stale EXCEPT ![x] = @ \ {fd}]
                               \/ stale' = [stale EXCEPT ![x] = @ \cup {fd}]
        PROVE  StaleType'
    BY <1>1, <2>2 DEF StaleType
  <2> QED
    BY <1>2, <1>3, <2>1, <2>2
<1>5. ASSUME NEW x \in Pids, NEW child \in Pids, NEW threads, NEW known,
             Clone(x, child, threads, known)
      PROVE  StaleType'
  BY <1>1, <1>5 DEF StaleType, Clone
<1> QED
  BY <1>2, <1>3, <1>4, <1>5, NextIsCall DEF Untraced, CloneReturns

LEMMA TypeStep == TypeOK /\ [Next]_vars => TypeOK'
<1> SUFFICES ASSUME TypeOK, [Next]_vars
             PROVE  TypeOK'
  OBVIOUS
<1>1. CASE UNCHANGED vars
  BY <1>1 DEF vars, kernelVars, parserVars, TypeOK
<1>2. CASE Next
  <2>1. KernelType' /\ ParserType'
    <3>1. ASSUME NEW x \in Pids, Call(x)
          PROVE  KernelType' /\ ParserType'
      BY <3>1, OpenType, CloseType, MmapType, DuplicateType, SetCloexecType, ExecType,
         ConnectType, RenameType, UnlinkType, FailedCallType DEF Call
    <3> QED
      BY <1>2, <3>1, NextIsCall, UntracedType, CloneType, CloneReturnsType
  <2>2. StaleType'
    BY <1>2, StaleStep
  <2> QED
    BY <2>1, <2>2, TypeParts, PTL
<1> QED
  BY <1>1, <1>2

LEMMA TypeInit == Init => TypeOK
<1> SUFFICES ASSUME Init PROVE TypeOK
  OBVIOUS
<1>1. fds \in [Pids -> [Fds -> Descriptors]]
  BY DEF Init, Descriptors
<1>2. classes \in [Pids -> Entries]
  BY DEF Init, Entries
<1> QED
  BY <1>1, <1>2, TraceAssumption DEF Init, TypeOK, Entries

\* The tables of the kernel and of the parser of `parse_process_trace` keep their
\* shape: every entry is a class of descriptors, every gap one that is named.
THEOREM TypeCorrect == Spec => []TypeOK
<1> QED
  BY TypeInit, TypeStep, PTL DEF Spec
-------------------------------------------------------------------------------
(* Lineage                                                                 *)

\* What all lines of system calls have in common: only the entry of the process
\* changes, and it does not go away.
EntryStep(x, entry) ==
    /\ Runs(x)
    /\ UNCHANGED <<alive, family, table, blocked, parents>>
    /\ gaps \subseteq gaps'
    /\ classes' = [classes EXCEPT ![x] = entry]
    /\ Inherited(x).seen => entry.seen
    /\ LinesAreTrue' => ~LateEntry(x, entry)

KnownInput(x, input) == \E fd \in Fds : Known(x, fd).input = input

\* What is known and said after a line was known before, or is opened in it.
Traceable(x, entry) ==
    /\ \A y \in Pids : activity[y] \subseteq activity'[y]
    /\ \A y \in Pids \ {x} : activity'[y] = activity[y]
    /\ \A fd \in Fds :
        LET input == OrDefault(entry)[fd].input
        IN  input # "none" => KnownInput(x, input) \/ Did(input, "read") \in activity'[x]
    /\ \A e \in activity'[x] \cap Mmaps : e \in activity[x] \/ KnownInput(x, e.what)

LineStep(x) == \E entry \in Entries : EntryStep(x, entry) /\ Traceable(x, entry)

LEMMA LineIsEntryStep ==
    ASSUME TypeOK, NEW x \in Pids, Runs(x), NEW whole \in BOOLEAN, NEW entry \in Entries,
           NEW evidence, NEW paths, NEW lost,
           Line(x, whole, entry, evidence, paths, lost),
           Inherited(x).seen => entry.seen,
           UNCHANGED <<alive, family, table, blocked>>
    PROVE  EntryStep(x, IF whole THEN entry ELSE Inherited(x))
<1> DEFINE e == IF whole THEN entry ELSE Inherited(x)
<1>1. classes' = [classes EXCEPT ![x] = e] /\ gaps \subseteq gaps' /\ parents' = parents
  BY DEF Line
<1>2. Inherited(x).seen => e.seen
  OBVIOUS
<1>3. ASSUME LinesAreTrue'
      PROVE  ~LateEntry(x, e)
  <2>1. CASE whole
    <3>1. "lateEntry" \notin gaps'
      BY <1>3 DEF LinesAreTrue
    <3>2. ~LateEntry(x, entry)
      BY <2>1, <3>1 DEF Line
    <3> QED
      BY <2>1, <3>2
  <2>2. CASE ~whole
    BY <2>2 DEF LateEntry
  <2> QED
    BY <2>1, <2>2
<1> HIDE DEF e
<1>4. EntryStep(x, e)
  BY <1>1, <1>2, <1>3 DEF EntryStep
<1> QED
  BY <1>4 DEF e

LEMMA LineIsTraceable ==
    ASSUME TypeOK, NEW x \in Pids, NEW whole \in BOOLEAN, NEW entry,
           NEW evidence, NEW paths, NEW lost,
           Line(x, whole, entry, evidence, paths, lost),
           \A fd \in Fds :
                LET input == OrDefault(entry)[fd].input
                IN  input # "none" => KnownInput(x, input) \/ Did(input, "read") \in evidence,
           \A e \in evidence \cap Mmaps : KnownInput(x, e.what)
    PROVE  Traceable(x, IF whole THEN entry ELSE Inherited(x))
<1>1. activity \in [Pids -> SUBSET Evidence]
  BY DEF TypeOK
<1>2. activity' = [activity EXCEPT ![x] = IF whole THEN @ \cup evidence ELSE @]
  BY DEF Line
<1>3. /\ activity'[x] = IF whole THEN activity[x] \cup evidence ELSE activity[x]
      /\ \A y \in Pids \ {x} : activity'[y] = activity[y]
  BY <1>1, <1>2
<1>4. \A fd \in Fds : KnownInput(x, OrDefault(Inherited(x))[fd].input)
  BY DEF KnownInput, Known
<1>5. CASE whole
  <2>1. activity'[x] = activity[x] \cup evidence
    BY <1>3, <1>5
  <2>2. Traceable(x, entry)
    BY <1>3, <2>1 DEF Traceable
  <2> QED
    BY <1>5, <2>2
<1>6. CASE ~whole
  <2>1. activity'[x] = activity[x]
    BY <1>3, <1>6
  <2>2. Traceable(x, Inherited(x))
    BY <1>3, <1>4, <2>1 DEF Traceable
  <2> QED
    BY <1>6, <2>2
<1> QED
  BY <1>5, <1>6

LEMMA LineIsStep ==
    ASSUME TypeOK, NEW x \in Pids, Runs(x), NEW whole \in BOOLEAN, NEW entry \in Entries,
           NEW evidence, NEW paths, NEW lost,
           Line(x, whole, entry, evidence, paths, lost),
           Inherited(x).seen => entry.seen,
           \A fd \in Fds :
                LET input == OrDefault(entry)[fd].input
                IN  input # "none" => KnownInput(x, input) \/ Did(input, "read") \in evidence,
           \A e \in evidence \cap Mmaps : KnownInput(x, e.what),
           UNCHANGED <<alive, family, table, blocked>>
    PROVE  LineStep(x)
<1> DEFINE e == IF whole THEN entry ELSE Inherited(x)
<1>1. e \in Entries
  BY InheritedType
<1>2. EntryStep(x, e) /\ Traceable(x, e)
  BY LineIsEntryStep, LineIsTraceable
<1> HIDE DEF e
<1> QED
  BY <1>1, <1>2 DEF LineStep

\* A line that says nothing of descriptors.
LEMMA QuietLineIsStep ==
    ASSUME TypeOK, NEW x \in Pids, Runs(x), NEW whole \in BOOLEAN,
           NEW evidence, NEW paths, NEW lost,
           Line(x, whole, Inherited(x), evidence, paths, lost),
           \A e \in evidence \cap Mmaps : KnownInput(x, e.what),
           UNCHANGED <<alive, family, table, blocked>>
    PROVE  LineStep(x)
<1>1. \A fd \in Fds : KnownInput(x, OrDefault(Inherited(x))[fd].input)
  BY DEF KnownInput, Known
<1> QED
  BY <1>1, InheritedType, LineIsStep

LEMMA MmapsOnly ==
    /\ \A input \in Inputs : Did(input, "read") \notin Mmaps
    /\ OutputWrite \notin Mmaps /\ Network \notin Mmaps
    /\ Publications \cap Mmaps = {}
  BY DEF Did, Mmaps, Reads, OutputWrite, Network, Publications, Inputs

LEMMA OpenIsLine ==
    ASSUME TypeOK, NEW x \in Pids, NEW file \in Files, NEW path \in Files,
           NEW writing \in BOOLEAN, NEW cloexec \in BOOLEAN, NEW whole \in BOOLEAN,
           Open(x, file, path, writing, cloexec, whole)
    PROVE  LineStep(x)
<1> DEFINE known == OrDefault(Inherited(x))
           input == InputOf(path, writing)
           class == Classified(input, cloexec)
           said == OpenEvidence(path, writing)
           paths == IF writing /\ Kind[path] # "output"
                    THEN [writers EXCEPT ![path] = @ \cup {x}] ELSE writers
           lost == Misread(file, path) \cup IF writing THEN Alias(file, path) ELSE {}
<1>1. input \in Inputs \cup {"none"} /\ class \in FdClasses
  BY EvidenceTypes, ClassifiedType
<1>2. class.input = input
  BY DEF Classified, Unclassified
<1>3. input # "none" => Did(input, "read") \in said
  BY <1>1 DEF OpenEvidence, Did, Reads
<1>4. \A e \in said : e \notin Mmaps
  BY <1>1, MmapsOnly DEF OpenEvidence, Did, Mmaps
<1> HIDE DEF input, class, said, paths, lost
<1>5. PICK fd \in Fds :
        Line(x, whole, Seen([known EXCEPT ![fd] = class]), said, paths, lost)
  BY DEF Open, input, class, said, paths, lost
<1> DEFINE entry == Seen([known EXCEPT ![fd] = class])
<1>6. entry \in Entries /\ entry.seen
  BY <1>1, EntriesOfCalls DEF Seen
<1>7. known \in [Fds -> FdClasses]
  BY InheritedType, EntryType
<1>8. OrDefault(entry) = [known EXCEPT ![fd] = class]
  BY DEF OrDefault, Seen
<1>9. \A f \in Fds : KnownInput(x, known[f].input)
  BY DEF KnownInput, Known
<1> HIDE DEF entry, known
<1>10. \A f \in Fds : LET i == OrDefault(entry)[f].input
                      IN  i # "none" => KnownInput(x, i) \/ Did(i, "read") \in said
  BY <1>2, <1>3, <1>7, <1>8, <1>9
<1>11. Runs(x) /\ UNCHANGED <<alive, family, table, blocked>>
  BY DEF Open
<1>12. Line(x, whole, entry, said, paths, lost)
  BY <1>5 DEF entry
<1> QED
  BY <1>4, <1>6, <1>10, <1>11, <1>12, LineIsStep

LEMMA MmapIsLine ==
    ASSUME TypeOK, NEW x \in Pids, NEW fd \in Fds, NEW whole \in BOOLEAN, Mmap(x, fd, whole)
    PROVE  LineStep(x)
<1> DEFINE entry == Inherited(x)
           said == {e \in Reads : entry.seen /\ e = Did(entry.fds[fd].input, "mmap")}
           lost == IF fd \in stale[x] THEN {"stale"} ELSE {}
<1>1. \A e \in said : e.what = Known(x, fd).input
  BY DEF Did, Known, OrDefault
<1>2. \A e \in said : KnownInput(x, e.what)
  BY <1>1 DEF KnownInput
<1>3. Runs(x) /\ UNCHANGED <<alive, family, table, blocked>>
      /\ Line(x, whole, Inherited(x), said, writers, lost)
  BY DEF Mmap, kernelVars
<1> HIDE DEF said, lost
<1> QED
  BY <1>2, <1>3, QuietLineIsStep

LEMMA DuplicateIsLine ==
    ASSUME TypeOK, NEW x \in Pids, NEW old \in Fds, NEW new \in Fds, NEW cloexec \in BOOLEAN,
           NEW whole \in BOOLEAN, NEW long \in BOOLEAN,
           Duplicate(x, old, new, cloexec, whole, long)
    PROVE  LineStep(x)
<1> DEFINE known == OrDefault(Inherited(x))
           class == Classified(known[old].input, cloexec)
           entry == Seen([known EXCEPT ![new] = class])
<1>1. Runs(x) /\ UNCHANGED <<alive, family, table, blocked>>
      /\ Line(x, whole, IF long THEN entry ELSE Inherited(x), {}, writers, {})
  BY DEF Duplicate
<1>2. CASE ~long
  BY <1>1, <1>2, QuietLineIsStep
<1>3. CASE long
  <2>1. known \in [Fds -> FdClasses]
    BY InheritedType, EntryType
  <2>2. known[old] \in FdClasses
    BY <2>1
  <2>3. class \in FdClasses
    BY <2>2, ClassType, ClassifiedType
  <2>4. class.input = known[old].input
    BY DEF Classified, Unclassified
  <2> HIDE DEF class
  <2>5. entry \in Entries /\ entry.seen
    BY <2>3, EntriesOfCalls DEF Seen
  <2>6. OrDefault(entry) = [known EXCEPT ![new] = class]
    BY DEF OrDefault, Seen
  <2>7. \A f \in Fds : KnownInput(x, known[f].input)
    BY DEF KnownInput, Known
  <2> HIDE DEF entry, known
  <2>8. \A f \in Fds : KnownInput(x, OrDefault(entry)[f].input)
    BY <2>1, <2>4, <2>6, <2>7
  <2> QED
    BY <1>1, <1>3, <2>5, <2>8, LineIsStep
<1> QED
  BY <1>2, <1>3

LEMMA SetCloexecIsLine ==
    ASSUME TypeOK, NEW x \in Pids, NEW fd \in Fds, NEW cloexec \in BOOLEAN,
           NEW whole \in BOOLEAN, NEW long \in BOOLEAN, SetCloexec(x, fd, cloexec, whole, long)
    PROVE  LineStep(x)
<1> DEFINE known == Inherited(x)
           changes == long /\ known.seen /\ known.fds[fd].input # "none"
           entry == Seen([known.fds EXCEPT ![fd].cloexec = cloexec])
<1>1. Runs(x) /\ UNCHANGED <<alive, family, table, blocked>>
      /\ Line(x, whole, IF changes THEN entry ELSE known, {}, writers, {})
  BY DEF SetCloexec
<1>2. CASE ~changes
  BY <1>1, <1>2, QuietLineIsStep
<1>3. CASE changes
  <2>1. entry \in Entries /\ entry.seen
    BY <1>3, EntriesOfCalls DEF Seen
  <2>2. known.fds \in [Fds -> FdClasses] /\ OrDefault(known) = known.fds
    <3>1. known \in Entries
      BY InheritedType
    <3>2. known.fds \in [Fds -> FdClasses]
      BY <1>3, <3>1, EntryType
    <3> QED
      BY <1>3, <3>2 DEF OrDefault
  <2>3. known.fds[fd] \in [input : Inputs, cloexec : BOOLEAN]
    BY <1>3, <2>2 DEF FdClasses, Unclassified
  <2>4. [known.fds[fd] EXCEPT !.cloexec = cloexec].input = known.fds[fd].input
    BY <2>3
  <2>5. OrDefault(entry) = [known.fds EXCEPT ![fd].cloexec = cloexec]
    BY DEF OrDefault, Seen
  <2>6. \A f \in Fds : KnownInput(x, known.fds[f].input)
    BY <2>2 DEF KnownInput, Known
  <2> HIDE DEF known, entry
  <2>7. \A f \in Fds : OrDefault(entry)[f].input = known.fds[f].input
    BY <2>2, <2>4, <2>5
  <2>8. \A f \in Fds : KnownInput(x, OrDefault(entry)[f].input)
    BY <2>6, <2>7
  <2>9. Line(x, whole, entry, {}, writers, {})
    BY <1>1, <1>3
  <2> QED
    BY <1>1, <2>1, <2>8, <2>9, LineIsStep
<1> QED
  BY <1>2, <1>3

LEMMA AfterExecKnows ==
    ASSUME NEW entry, NEW fd \in Fds
    PROVE  OrDefault(AfterExec(entry))[fd] =
               IF OrDefault(entry)[fd].cloexec THEN Unclassified ELSE OrDefault(entry)[fd]
<1>1. CASE entry.seen
  BY <1>1 DEF AfterExec, OrDefault, Seen
<1>2. CASE ~entry.seen
  BY <1>2 DEF AfterExec, OrDefault, Empty, Unclassified
<1> QED
  BY <1>1, <1>2

LEMMA ExecIsLine ==
    ASSUME TypeOK, NEW x \in Pids, NEW whole \in BOOLEAN, NEW at \in BOOLEAN,
           Exec(x, whole, at)
    PROVE  LineStep(x)
<1> DEFINE entry == AfterExec(Inherited(x))
<1>1. Runs(x) /\ UNCHANGED <<alive, family, table, blocked>>
      /\ Line(x, whole, IF at THEN Inherited(x) ELSE entry, {}, writers, {})
  BY DEF Exec
<1>2. CASE at
  BY <1>1, <1>2, QuietLineIsStep
<1>3. CASE ~at
  <2>1. entry \in Entries /\ (Inherited(x).seen => entry.seen)
    BY EntriesOfCalls DEF AfterExec, Seen
  <2>2. \A fd \in Fds : OrDefault(entry)[fd].input = "none"
                        \/ OrDefault(entry)[fd].input = Known(x, fd).input
    BY AfterExecKnows DEF Known, Unclassified
  <2> HIDE DEF entry
  <2>3. \A fd \in Fds : OrDefault(entry)[fd].input # "none"
                            => KnownInput(x, OrDefault(entry)[fd].input)
    BY <2>2 DEF KnownInput
  <2> QED
    BY <1>1, <1>3, <2>1, <2>3, LineIsStep
<1> QED
  BY <1>2, <1>3

LEMMA CallsAreLines ==
    ASSUME TypeOK, NEW x \in Pids, Call(x)
    PROVE  LineStep(x)
<1>1. ASSUME NEW fd \in Fds, NEW whole \in BOOLEAN, Close(x, fd, whole)
      PROVE  LineStep(x)
  BY <1>1, QuietLineIsStep DEF Close
<1>2. ASSUME NEW scope \in TracedScopes, NEW completes \in BOOLEAN,
             NEW whole \in BOOLEAN, Connect(x, scope, completes, whole)
      PROVE  LineStep(x)
  <2> DEFINE traffic == IF scope \in NonlocalScopes THEN {Network} ELSE {}
             said == IF completes THEN traffic ELSE {}
             lost == IF traffic # {} /\ ~completes THEN {"inProgress"} ELSE {}
  <2>1. Line(x, whole, Inherited(x), said, writers, lost)
    BY <1>2 DEF Connect
  <2>2. Runs(x) /\ UNCHANGED <<alive, family, table, blocked>>
    BY <1>2 DEF Connect, kernelVars
  <2>3. said \cap Mmaps = {}
    BY MmapsOnly
  <2> HIDE DEF said, lost
  <2> QED
    BY <2>1, <2>2, <2>3, QuietLineIsStep
<1>3. ASSUME NEW source \in Files, NEW destination \in Files, NEW from \in Files,
             NEW to \in Files, NEW whole \in BOOLEAN,
             Rename(x, source, destination, from, to, whole)
      PROVE  LineStep(x)
  <2> DEFINE kin == Kin(x)
             said == RenameEvidence(x, to, writers[from], kin)
             lost == Alias(source, from) \cup Alias(destination, to)
                        \cup IF authors[destination] # {} THEN {"overwritten"} ELSE {}
  <2>1. Line(x, whole, Inherited(x), said, WritersMoved(from, to), lost)
    BY <1>3 DEF Rename
  <2>2. Runs(x) /\ UNCHANGED <<alive, family, table, blocked>>
    BY <1>3 DEF Rename
  <2>3. said \subseteq Publications
    BY DEF RenameEvidence, Did, Publications
  <2> HIDE DEF said, lost
  <2> QED
    BY <2>1, <2>2, <2>3, MmapsOnly, QuietLineIsStep
<1>4. ASSUME NEW file \in Files, NEW whole \in BOOLEAN, Unlink(x, file, whole)
      PROVE  LineStep(x)
  <2> DEFINE lost == IF authors[file] # {} THEN {"removed"} ELSE {}
  <2>1. Line(x, whole, Inherited(x), {}, writers, lost)
        /\ Runs(x) /\ UNCHANGED <<alive, family, table, blocked>>
    BY <1>4 DEF Unlink
  <2> HIDE DEF lost
  <2> QED
    BY <2>1, QuietLineIsStep
<1>5. ASSUME FailedCall(x)
      PROVE  LineStep(x)
  <2>1. PICK whole \in BOOLEAN :
            Line(x, whole, Inherited(x), {}, writers, {}) /\ Runs(x)
    BY <1>5, Zenon DEF FailedCall
  <2>2. UNCHANGED <<alive, family, table, blocked>>
    BY <1>5 DEF FailedCall, kernelVars
  <2> QED
    BY <2>1, <2>2, QuietLineIsStep
<1> QED
  BY <1>1, <1>2, <1>3, <1>4, <1>5, OpenIsLine, MmapIsLine, DuplicateIsLine, SetCloexecIsLine,
     ExecIsLine DEF Call

\* The steps of the traced build, as far as creations are concerned.
LEMMA KindsOfSteps ==
    ASSUME TypeOK, Next
    PROVE  \E x \in Pids :
              \/ LineStep(x)
              \/ \E fd \in Fds, after \in Descriptors : Untraced(x, fd, after)
              \/ \E child \in Pids, threads, known \in BOOLEAN :
                    Clone(x, child, threads, known)
              \/ CloneReturns(x)
  BY CallsAreLines, NextIsCall

LEMMA LineageUnchanged ==
    ASSUME LineageInv, UNCHANGED <<alive, family, blocked, parents>>,
           \A x \in Pids \ alive : classes'[x] = classes[x]
    PROVE  LineageInv'
  BY DEF LineageInv, Acyclic

LEMMA NewChildIsAcyclic ==
    ASSUME TypeOK, LineageInv, NEW x \in Pids, NEW child \in Pids,
           NEW threads \in BOOLEAN, NEW known \in BOOLEAN, Clone(x, child, threads, known)
    PROVE  Acyclic(parents)'
<1>1. x \in alive /\ child \notin alive /\ x # child
  BY DEF Clone, Runs
<1>2. \A y \in Pids : parents[y] # child
  BY <1>1 DEF LineageInv
<1>3. parents \in [Pids -> Pids \cup {NoPid}]
  BY DEF TypeOK
<1>4. parents' = parents \/ parents' = [parents EXCEPT ![child] = x]
  BY DEF Clone
<1>5. \A S \in SUBSET Pids : S # {} => \E y \in S : parents[y] \notin S
  BY DEF LineageInv, Acyclic
<1>6. ASSUME NEW S \in SUBSET Pids, S # {}
      PROVE  \E y \in S : parents'[y] \notin S
  <2>1. CASE parents' = parents
    BY <1>5, <1>6, <2>1
  <2>2. CASE parents' = [parents EXCEPT ![child] = x] /\ S = {child}
    BY <1>1, <1>3, <2>2
  <2>3. CASE parents' = [parents EXCEPT ![child] = x] /\ S # {child}
    <3>1. S \ {child} \in SUBSET Pids /\ S \ {child} # {}
      BY <1>6, <2>3
    <3>2. PICK y \in S \ {child} : parents[y] \notin S \ {child}
      BY <1>5, <3>1
    <3>3. parents'[y] = parents[y] /\ parents[y] # child
      BY <1>2, <1>3, <2>3, <3>2
    <3> QED
      BY <3>2, <3>3
  <2> QED
    BY <1>4, <2>1, <2>2, <2>3
<1> QED
  BY <1>6 DEF Acyclic

LEMMA CloneLineage ==
    ASSUME TypeOK, LineageInv, NEW x \in Pids, NEW child \in Pids,
           NEW threads \in BOOLEAN, NEW known \in BOOLEAN, Clone(x, child, threads, known)
    PROVE  LineageInv'
<1>1. /\ x \in alive /\ child \notin alive /\ x # child
      /\ alive' = alive \cup {child}
      /\ family' = [family EXCEPT ![child] = x]
      /\ blocked' = [blocked EXCEPT ![x] = child]
      /\ classes' = [classes EXCEPT ![x] = Inherited(x)]
      /\ parents' = parents \/ parents' = [parents EXCEPT ![child] = x]
  BY DEF Clone, Runs
<1>2. /\ family \in [Pids -> Pids \cup {NoPid}] /\ parents \in [Pids -> Pids \cup {NoPid}]
      /\ blocked \in [Pids -> Pids \cup {NoPid}]
      /\ DOMAIN classes = Pids
  BY DEF TypeOK
<1>3. Acyclic(parents)'
  BY NewChildIsAcyclic
<1>4. \A y \in Pids \ alive' :
        /\ family'[y] = NoPid /\ parents'[y] = NoPid /\ blocked'[y] = NoPid
        /\ ~classes'[y].seen
        /\ \A z \in Pids : parents'[z] # y
  BY <1>1, <1>2 DEF LineageInv
<1>5. \A y \in Pids : blocked'[y] # NoPid => blocked'[y] \in alive'
  BY <1>1, <1>2 DEF LineageInv
<1>6. \A y \in Pids : parents'[y] # NoPid => parents'[y] = family'[y]
  BY <1>1, <1>2 DEF LineageInv
<1> QED
  BY <1>3, <1>4, <1>5, <1>6 DEF LineageInv

LEMMA CloneReturnsLineage ==
    ASSUME TypeOK, LineageInv, NEW x \in Pids, CloneReturns(x)
    PROVE  LineageInv'
<1> DEFINE child == blocked[x]
<1>1. child # NoPid /\ child \in alive /\ x \in alive
  BY DEF CloneReturns, LineageInv
<1>2. /\ UNCHANGED <<alive, family, parents>>
      /\ blocked' = [blocked EXCEPT ![x] = NoPid]
      /\ classes' = [classes EXCEPT ![x] = Inherited(x),
                                    ![child] = IF @.seen THEN @ ELSE Inherited(x)]
  BY DEF CloneReturns
<1>3. blocked \in [Pids -> Pids \cup {NoPid}] /\ DOMAIN classes = Pids
  BY DEF TypeOK
<1>4. \A y \in Pids \ alive : classes'[y] = classes[y]
  BY <1>1, <1>2, <1>3
<1>5. \A y \in Pids : blocked'[y] = blocked[y] \/ blocked'[y] = NoPid
  BY <1>2, <1>3
<1>6. Acyclic(parents)'
  BY <1>2 DEF LineageInv, Acyclic
<1>7. UNCHANGED <<alive, family, parents>>
  BY <1>2
<1> HIDE DEF child
<1>8. \A y \in Pids \ alive' :
        /\ family'[y] = NoPid /\ parents'[y] = NoPid /\ blocked'[y] = NoPid
        /\ ~classes'[y].seen
        /\ \A z \in Pids : parents'[z] # y
  BY <1>4, <1>5, <1>7 DEF LineageInv
<1>9. \A y \in Pids : blocked'[y] # NoPid => blocked'[y] \in alive'
  BY <1>5, <1>7 DEF LineageInv
<1>10. \A y \in Pids : parents'[y] # NoPid => parents'[y] = family'[y]
  BY <1>7 DEF LineageInv
<1> QED
  BY <1>6, <1>8, <1>9, <1>10 DEF LineageInv

LEMMA LineageStep == TypeOK /\ LineageInv /\ [Next]_vars => LineageInv'
<1> SUFFICES ASSUME TypeOK, LineageInv, [Next]_vars
             PROVE  LineageInv'
  OBVIOUS
<1>1. CASE UNCHANGED vars
  BY <1>1, LineageUnchanged DEF vars, kernelVars, parserVars
<1>2. ASSUME NEW x \in Pids, LineStep(x)
      PROVE  LineageInv'
  <2>1. PICK entry \in Entries : classes' = [classes EXCEPT ![x] = entry]
    BY <1>2 DEF LineStep, EntryStep
  <2>2. x \in alive /\ UNCHANGED <<alive, family, blocked, parents>>
    BY <1>2 DEF LineStep, EntryStep, Runs
  <2>3. \A y \in Pids \ alive : classes'[y] = classes[y]
    BY <2>1, <2>2 DEF TypeOK
  <2> QED
    BY <2>2, <2>3, LineageUnchanged
<1>3. ASSUME NEW x \in Pids, NEW fd, NEW after, Untraced(x, fd, after)
      PROVE  LineageInv'
  BY <1>3, LineageUnchanged DEF Untraced, parserVars
<1> QED
  BY <1>1, <1>2, <1>3, KindsOfSteps, CloneLineage, CloneReturnsLineage

LEMMA LineageInit == Init => LineageInv
<1> SUFFICES ASSUME Init PROVE LineageInv
  OBVIOUS
<1>1. Acyclic(parents)
  BY TraceAssumption DEF Init, Acyclic
<1> QED
  BY <1>1, TraceAssumption DEF Init, LineageInv, Unseen
-------------------------------------------------------------------------------
(* Descriptors                                                             *)

LEMMA UnseenEntry ==
    ASSUME NEW entry \in Entries, ~entry.seen
    PROVE  entry = Unseen
  BY DEF Entries

\* Without an entry of its own and of its creator, a process has none.
LEMMA NothingInherited ==
    ASSUME TypeOK, NEW x \in Pids, ~Inherited(x).seen
    PROVE  /\ ~classes[x].seen /\ classes[x] = Unseen /\ Inherited(x) = Unseen
           /\ parents[x] # NoPid => classes[parents[x]] = Unseen
<1>1. classes \in [Pids -> Entries] /\ parents \in Creators
  BY TypeParts DEF ParserType
<1>2. ~classes[x].seen
  BY DEF Inherited
<1>3. ASSUME parents[x] # NoPid
      PROVE  classes[parents[x]] = Unseen
  <2>1. parents[x] \in Pids /\ Inherited(x) = classes[parents[x]]
    BY <1>1, <1>2, <1>3 DEF Inherited, Creators
  <2> QED
    BY <1>1, <2>1, UnseenEntry
<1>4. classes[x] = Unseen
  BY <1>1, <1>2, UnseenEntry
<1>5. Inherited(x) = Unseen
  BY InheritedType, UnseenEntry
<1> QED
  BY <1>2, <1>3, <1>4, <1>5

LEMMA NoOwnParent ==
    ASSUME LineageInv, NEW x \in Pids
    PROVE  parents[x] # x
<1>1. {x} \in SUBSET Pids /\ {x} # {}
  OBVIOUS
<1>2. \E y \in {x} : parents[y] \notin {x}
  BY <1>1 DEF LineageInv, Acyclic
<1> QED
  BY <1>2

LEMMA NoMutualParents ==
    ASSUME LineageInv, NEW x \in Pids, NEW y \in Pids, parents[x] = y
    PROVE  parents[y] # x
<1>1. {x, y} \in SUBSET Pids /\ {x, y} # {}
  OBVIOUS
<1>2. \E z \in {x, y} : parents[z] \notin {x, y}
  BY <1>1 DEF LineageInv, Acyclic
<1> QED
  BY <1>2

\* A line of one process does not change what another one goes by.
LEMMA LineInherits ==
    ASSUME TypeOK, LineageInv, EntriesInOrder, NEW x \in Pids, NEW entry \in Entries,
           Runs(x), classes' = [classes EXCEPT ![x] = entry],
           Inherited(x).seen => entry.seen, ~LateEntry(x, entry),
           UNCHANGED <<alive, blocked, parents>>
    PROVE  /\ Inherited(x)' = entry
           /\ \A y \in Pids \ {x} : Inherited(y)' = Inherited(y)
           /\ EntriesInOrder'
<1>1. /\ classes \in [Pids -> Entries] /\ parents \in [Pids -> Pids \cup {NoPid}]
      /\ blocked[x] = NoPid /\ parents[x] # x /\ NoPid \notin Pids
      /\ \A y \in Pids : (parents[y] = x) => y # x
  BY TypeParts, NoOwnParent, TraceAssumption DEF ParserType, Creators, Runs
<1>2. \A y \in Pids : classes'[y] = IF y = x THEN entry ELSE classes[y]
  BY <1>1
<1>3. Inherited(x)' = entry
  <2>1. CASE entry.seen
    BY <1>1, <2>1 DEF Inherited
  <2>2. CASE ~entry.seen
    <3>1. entry = Unseen /\ ~Inherited(x).seen
      BY <2>2, UnseenEntry
    <3>2. parents[x] # NoPid => classes'[parents[x]] = Unseen
      BY <1>1, <3>1, NothingInherited
    <3> QED
      BY <1>1, <3>1, <3>2 DEF Inherited
  <2> QED
    BY <2>1, <2>2
<1>4. ASSUME NEW y \in Pids, parents[y] = x, ~classes[y].seen
      PROVE  ~Inherited(x).seen /\ ~entry.seen
  <2>1. ~Inherited(x).seen
    BY <1>1, <1>4 DEF EntriesInOrder
  <2> QED
    BY <1>4, <2>1 DEF LateEntry
<1>5. ASSUME NEW y \in Pids \ {x}
      PROVE  Inherited(y)' = Inherited(y)
  <2>1. classes'[y] = classes[y]
    BY <1>2
  <2>2. CASE classes[y].seen \/ parents[y] = NoPid
    BY <2>1, <2>2 DEF Inherited
  <2>3. CASE ~classes[y].seen /\ parents[y] # NoPid /\ parents[y] # x
    BY <1>1, <1>2, <2>1, <2>3 DEF Inherited
  <2>4. CASE ~classes[y].seen /\ parents[y] = x
    <3>1. ~Inherited(x).seen /\ entry = Unseen
      BY <1>4, <2>4, UnseenEntry
    <3>2. classes[x] = Unseen /\ classes'[x] = Unseen
      BY <1>2, <3>1, NothingInherited
    <3> QED
      BY <2>1, <2>4, <3>2 DEF Inherited
  <2> QED
    BY <2>2, <2>3, <2>4
<1>6. EntriesInOrder'
  <2>1. ASSUME NEW y \in Pids, NEW q \in Pids, parents[y] = q, ~classes'[y].seen
        PROVE  blocked[q] = y \/ ~Inherited(q)'.seen
    <3>1. ~classes[y].seen
      <4>1. CASE y = x
        BY <1>2, <2>1, <4>1, NothingInherited
      <4>2. CASE y # x
        BY <1>2, <2>1, <4>2
      <4> QED
        BY <4>1, <4>2
    <3>2. CASE q = x
      BY <1>3, <1>4, <2>1, <3>1, <3>2
    <3>3. CASE q # x
      BY <1>5, <2>1, <3>1, <3>3 DEF EntriesInOrder
    <3> QED
      BY <3>2, <3>3
  <2>2. ASSUME NEW q \in Pids, blocked[q] # NoPid, Inherited(q)'.seen
        PROVE  classes'[q].seen
    <3>1. q # x
      BY <1>1, <2>2
    <3> QED
      BY <1>2, <1>5, <2>2, <3>1 DEF EntriesInOrder
  <2> QED
    BY <2>1, <2>2 DEF EntriesInOrder
<1> QED
  BY <1>3, <1>5, <1>6

\* A child starts with what its creator goes by, if the pre-pass knows it.
LEMMA CloneInherits ==
    ASSUME TypeOK, LineageInv, EntriesInOrder, NEW x \in Pids, NEW child \in Pids,
           NEW threads \in BOOLEAN, NEW known \in BOOLEAN, Clone(x, child, threads, known)
    PROVE  /\ Inherited(child)' = IF known THEN Inherited(x) ELSE Unseen
           /\ \A y \in Pids \ {child} : Inherited(y)' = Inherited(y)
           /\ EntriesInOrder'
<1>1. /\ classes \in [Pids -> Entries] /\ parents \in [Pids -> Pids \cup {NoPid}]
      /\ blocked \in [Pids -> Pids \cup {NoPid}]
      /\ blocked[x] = NoPid /\ parents[x] # x /\ NoPid \notin Pids
      /\ x \in alive /\ child \notin alive /\ x # child
  BY TypeParts, NoOwnParent, TraceAssumption DEF ParserType, KernelType, Creators, Runs, Clone
<1>2. /\ ~classes[child].seen /\ parents[child] = NoPid /\ blocked[child] = NoPid
      /\ \A y \in Pids : parents[y] # child
  BY <1>1 DEF LineageInv
<1>3. /\ \A y \in Pids : classes'[y] = IF y = x THEN Inherited(x) ELSE classes[y]
      /\ \A y \in Pids \ {child} : parents'[y] = parents[y]
      /\ parents'[child] = IF known THEN x ELSE NoPid
      /\ \A y \in Pids : blocked'[y] = IF y = x THEN child ELSE blocked[y]
  BY <1>1, <1>2 DEF Clone
<1>4. Inherited(child)' = IF known THEN Inherited(x) ELSE Unseen
  BY <1>1, <1>2, <1>3, UnseenEntry DEF Inherited
<1>5. Inherited(x)' = Inherited(x)
  <2>1. CASE Inherited(x).seen
    BY <1>1, <1>3, <2>1 DEF Inherited
  <2>2. CASE ~Inherited(x).seen
    <3>1. Inherited(x) = Unseen /\ (parents[x] # NoPid => classes[parents[x]] = Unseen)
      BY <2>2, NothingInherited
    <3> QED
      BY <1>1, <1>3, <3>1 DEF Inherited, Unseen
  <2> QED
    BY <2>1, <2>2
<1>6. ASSUME NEW y \in Pids, parents[y] = x, ~classes[y].seen
      PROVE  ~Inherited(x).seen
  BY <1>1, <1>6 DEF EntriesInOrder
<1>7. ASSUME NEW y \in Pids \ {child}
      PROVE  Inherited(y)' = Inherited(y)
  <2>1. CASE y = x
    BY <1>5, <2>1
  <2>2. CASE y # x /\ (classes[y].seen \/ parents[y] = NoPid)
    BY <1>3, <2>2 DEF Inherited
  <2>3. CASE y # x /\ ~classes[y].seen /\ parents[y] # NoPid /\ parents[y] # x
    BY <1>1, <1>3, <2>3 DEF Inherited
  <2>4. CASE y # x /\ ~classes[y].seen /\ parents[y] = x
    <3>1. classes[x] = Unseen /\ Inherited(x) = Unseen
      BY <1>6, <2>4, NothingInherited
    <3> QED
      BY <1>3, <2>4, <3>1 DEF Inherited
  <2> QED
    BY <2>1, <2>2, <2>3, <2>4
<1>8. EntriesInOrder'
  <2>1. ASSUME NEW y \in Pids, NEW q \in Pids, parents'[y] = q, ~classes'[y].seen
        PROVE  blocked'[q] = y \/ ~Inherited(q)'.seen
    <3>1. CASE y = child
      BY <1>1, <1>3, <2>1, <3>1
    <3>2. CASE y # child
      <4>1. parents[y] = q /\ q # child
        BY <1>2, <1>3, <2>1, <3>2
      <4>2. ~classes[y].seen
        <5>1. CASE y = x
          BY <1>3, <2>1, <5>1, NothingInherited
        <5>2. CASE y # x
          BY <1>3, <2>1, <5>2
        <5> QED
          BY <5>1, <5>2
      <4>3. CASE q = x
        BY <1>5, <1>6, <4>1, <4>2, <4>3
      <4>4. CASE q # x
        BY <1>3, <1>7, <4>1, <4>2, <4>4 DEF EntriesInOrder
      <4> QED
        BY <4>3, <4>4
    <3> QED
      BY <3>1, <3>2
  <2>2. ASSUME NEW q \in Pids, blocked'[q] # NoPid, Inherited(q)'.seen
        PROVE  classes'[q].seen
    <3>1. CASE q = x
      BY <1>3, <1>5, <2>2, <3>1
    <3>2. CASE q # x
      BY <1>2, <1>3, <1>7, <2>2, <3>2 DEF EntriesInOrder
    <3> QED
      BY <3>1, <3>2
  <2> QED
    BY <2>1, <2>2 DEF EntriesInOrder
<1> QED
  BY <1>4, <1>7, <1>8

\* The end of a creation changes for nobody what it goes by.
LEMMA CloneReturnsInherits ==
    ASSUME TypeOK, LineageInv, EntriesInOrder, NEW x \in Pids, CloneReturns(x)
    PROVE  /\ \A y \in Pids : Inherited(y)' = Inherited(y)
           /\ EntriesInOrder'
<1> DEFINE entry == Inherited(x)
<1>0. PICK child \in Pids : child = blocked[x] /\ parents[child] = x
  BY TypeParts DEF CloneReturns, KernelType
<1>1. /\ classes \in [Pids -> Entries] /\ parents \in [Pids -> Pids \cup {NoPid}]
      /\ blocked \in [Pids -> Pids \cup {NoPid}]
      /\ parents[x] # x /\ parents[x] # child /\ child # x /\ NoPid \notin Pids
  BY <1>0, TypeParts, NoOwnParent, NoMutualParents, TraceAssumption
     DEF ParserType, KernelType, Creators
<1>2. entry.seen => classes[x].seen /\ entry = classes[x]
  BY <1>0, <1>1 DEF EntriesInOrder, Inherited
<1>3. ~entry.seen => /\ entry = Unseen /\ classes[x] = Unseen
                     /\ parents[x] # NoPid => classes[parents[x]] = Unseen
  BY NothingInherited
<1>4. classes[x] = entry
  BY <1>2, <1>3
<1>5. ~classes[child].seen => classes[child] = Unseen /\ Inherited(child) = entry
  BY <1>0, <1>1, <1>4, UnseenEntry DEF Inherited
<1>6. /\ \A y \in Pids \ {child} : classes'[y] = classes[y]
      /\ classes'[child] = IF classes[child].seen THEN classes[child] ELSE entry
      /\ UNCHANGED parents
      /\ \A y \in Pids : blocked'[y] = IF y = x THEN NoPid ELSE blocked[y]
  <2>1. /\ classes' = [classes EXCEPT ![x] = entry, ![child] = IF @.seen THEN @ ELSE entry]
        /\ blocked' = [blocked EXCEPT ![x] = NoPid]
        /\ UNCHANGED parents
    BY <1>0 DEF CloneReturns
  <2> HIDE DEF entry
  <2> QED
    BY <1>1, <1>4, <2>1
<1>7. ASSUME NEW y \in Pids, parents[y] = child, ~classes[y].seen, ~classes[child].seen
      PROVE  ~entry.seen
  <2>1. SUFFICES ASSUME entry.seen
                 PROVE  FALSE
    OBVIOUS
  <2>2. Inherited(child).seen
    BY <1>5, <1>7, <2>1
  <2>3. blocked[child] = y
    BY <1>7, <2>2 DEF EntriesInOrder
  <2>4. classes[child].seen
    BY <1>1, <2>2, <2>3 DEF EntriesInOrder
  <2> QED
    BY <1>7, <2>4
<1>8. ASSUME NEW y \in Pids
      PROVE  Inherited(y)' = Inherited(y)
  <2>1. CASE y = child
    <3>1. CASE classes[child].seen
      BY <1>6, <2>1, <3>1 DEF Inherited
    <3>2. CASE ~classes[child].seen
      <4>1. classes'[child] = entry /\ classes'[x] = entry /\ Inherited(child) = entry
        BY <1>1, <1>4, <1>5, <1>6, <3>2
      <4>2. Inherited(child)' = entry
        BY <1>0, <1>1, <1>6, <4>1 DEF Inherited
      <4> QED
        BY <2>1, <4>1, <4>2
    <3> QED
      BY <3>1, <3>2
  <2>2. CASE y # child /\ (classes[y].seen \/ parents[y] = NoPid \/ parents[y] # child)
    BY <1>1, <1>6, <2>2 DEF Inherited
  <2>3. CASE y # child /\ ~classes[y].seen /\ parents[y] = child
    <3>1. CASE classes[child].seen
      BY <1>1, <1>6, <2>3, <3>1 DEF Inherited
    <3>2. CASE ~classes[child].seen
      <4>1. classes[child] = Unseen /\ classes'[child] = Unseen
        BY <1>3, <1>5, <1>6, <1>7, <2>3, <3>2
      <4> QED
        BY <1>1, <1>6, <2>3, <4>1 DEF Inherited
    <3> QED
      BY <3>1, <3>2
  <2> QED
    BY <2>1, <2>2, <2>3
<1>9. EntriesInOrder'
  <2>1. ASSUME NEW y \in Pids, NEW q \in Pids, parents[y] = q, ~classes'[y].seen
        PROVE  blocked'[q] = y \/ ~Inherited(q)'.seen
    <3>1. ~classes[y].seen
      BY <1>6, <2>1
    <3>2. blocked[q] = y \/ ~Inherited(q).seen
      BY <2>1, <3>1 DEF EntriesInOrder
    <3>3. CASE q = x /\ y = child
      BY <1>6, <1>8, <2>1, <3>1, <3>3
    <3>4. CASE q = x /\ y # child
      BY <1>0, <1>8, <3>2, <3>4
    <3>5. CASE q # x
      BY <1>6, <1>8, <3>2, <3>5
    <3> QED
      BY <3>3, <3>4, <3>5
  <2>2. ASSUME NEW q \in Pids, blocked'[q] # NoPid, Inherited(q)'.seen
        PROVE  classes'[q].seen
    <3>1. q # x /\ blocked[q] # NoPid /\ Inherited(q).seen
      BY <1>6, <1>8, <2>2
    <3>2. classes[q].seen
      BY <3>1 DEF EntriesInOrder
    <3> QED
      BY <1>6, <3>2
  <2>3. UNCHANGED parents
    BY <1>6
  <2> QED
    BY <2>1, <2>2, <2>3 DEF EntriesInOrder
<1> QED
  BY <1>8, <1>9
LEMMA DescriptorsUnchanged ==
    ASSUME DescriptorInv, UNCHANGED <<alive, table, fds, blocked, parents, classes, stale, gaps>>
    PROVE  DescriptorInv'
  BY DEF DescriptorInv, LinesAreTrue, EntriesInOrder, KnownIsTrue, TruthIsKnown, Known,
         Inherited

\* What is known stays true if what x goes by changes with its descriptors, those left
\* out whose change the parser missed.
Followed(x, entry) ==
    LET known == OrDefault(Inherited(x))
        all == \A fd \in Fds \ stale[x] : TrueOf(known[fd], fds[x][fd])
    IN  /\ \A y \in Pids \ {x} : fds'[y] = fds[y] /\ stale'[y] = stale[y]
        /\ all => \A fd \in Fds \ stale'[x] : TrueOf(OrDefault(entry)[fd], fds'[x][fd])
        /\ all /\ (\A fd \in Fds \ stale[x] : KnownOf(known[fd], fds[x][fd]))
                => \A fd \in Fds \ stale'[x] : KnownOf(OrDefault(entry)[fd], fds'[x][fd])

LEMMA FollowedDescriptors ==
    ASSUME TypeOK, DescriptorInv, NEW x \in Pids, NEW entry, x \in alive,
           UNCHANGED <<alive, table>>, gaps \subseteq gaps',
           LinesAreTrue' =>
                /\ Inherited(x)' = entry
                /\ \A y \in Pids \ {x} : Inherited(y)' = Inherited(y)
                /\ EntriesInOrder',
           LinesAreTrue' /\ table = [y \in Pids |-> y] => Followed(x, entry)
    PROVE  DescriptorInv'
<1>1. SUFFICES ASSUME LinesAreTrue'
               PROVE  DescriptorInv'
  BY DEF DescriptorInv
<1>2. LinesAreTrue /\ ("cut" \notin gaps' => "cut" \notin gaps)
  BY <1>1 DEF LinesAreTrue
<1>3. table = [y \in Pids |-> y] /\ KnownIsTrue /\ table' = table
  BY <1>2 DEF DescriptorInv
<1>4. Followed(x, entry)
  BY <1>1, <1>3
<1>5. /\ \A fd \in Fds : Known(x, fd)' = OrDefault(entry)[fd]
      /\ \A y \in Pids \ {x}, fd \in Fds : Known(y, fd)' = Known(y, fd)
  BY <1>1 DEF Known, OrDefault, Empty
<1>6. alive \subseteq Pids
  BY DEF TypeOK
<1>7. \A fd \in Fds \ stale[x] : TrueOf(OrDefault(Inherited(x))[fd], fds[x][fd])
  BY <1>3 DEF KnownIsTrue, Known
<1>8. \A fd \in Fds \ stale'[x] : TrueOf(OrDefault(entry)[fd], fds'[x][fd])
  BY <1>4, <1>7 DEF Followed
<1>9. \A y \in Pids \ {x} : fds'[y] = fds[y] /\ stale'[y] = stale[y]
  BY <1>4 DEF Followed
<1>10. KnownIsTrue'
  <2>1. ASSUME NEW y \in alive, NEW fd \in Fds \ stale'[y]
        PROVE  TrueOf(Known(y, fd)', fds'[y][fd])
    <3>1. CASE y = x
      BY <1>5, <1>8, <2>1, <3>1
    <3>2. CASE y # x
      <4>1. fd \in Fds \ stale[y] /\ fds'[y] = fds[y] /\ Known(y, fd)' = Known(y, fd)
        BY <1>5, <1>6, <1>9, <2>1, <3>2
      <4> QED
        BY <1>3, <4>1 DEF KnownIsTrue
    <3> QED
      BY <3>1, <3>2
  <2> QED
    BY <2>1 DEF KnownIsTrue, TrueOf
<1>11. ASSUME "cut" \notin gaps'
       PROVE  TruthIsKnown'
  <2>1. TruthIsKnown
    BY <1>2, <1>11 DEF DescriptorInv
  <2>2. \A fd \in Fds \ stale[x] : KnownOf(OrDefault(Inherited(x))[fd], fds[x][fd])
    BY <2>1 DEF TruthIsKnown, Known
  <2>3. \A fd \in Fds \ stale'[x] : KnownOf(OrDefault(entry)[fd], fds'[x][fd])
    BY <1>4, <1>7, <2>2 DEF Followed
  <2>4. ASSUME NEW y \in alive, NEW fd \in Fds \ stale'[y]
        PROVE  KnownOf(Known(y, fd)', fds'[y][fd])
    <3>1. CASE y = x
      BY <1>5, <2>3, <2>4, <3>1
    <3>2. CASE y # x
      <4>1. fd \in Fds \ stale[y] /\ fds'[y] = fds[y] /\ Known(y, fd)' = Known(y, fd)
        BY <1>5, <1>6, <1>9, <2>4, <3>2
      <4> QED
        BY <2>1, <4>1 DEF TruthIsKnown
    <3> QED
      BY <3>1, <3>2
  <2> QED
    BY <2>4 DEF TruthIsKnown, KnownOf
<1> QED
  BY <1>1, <1>3, <1>10, <1>11 DEF DescriptorInv

LEMMA LineDescriptors ==
    ASSUME TypeOK, LineageInv, DescriptorInv, NEW x \in Pids, NEW entry \in Entries,
           EntryStep(x, entry),
           LinesAreTrue' /\ table = [y \in Pids |-> y] => Followed(x, entry)
    PROVE  DescriptorInv'
<1>1. /\ Runs(x) /\ x \in alive /\ UNCHANGED <<alive, table, blocked, parents>>
      /\ gaps \subseteq gaps'
      /\ classes' = [classes EXCEPT ![x] = entry]
      /\ Inherited(x).seen => entry.seen
      /\ LinesAreTrue' => ~LateEntry(x, entry) /\ LinesAreTrue
  BY DEF EntryStep, Runs, LinesAreTrue
<1>2. LinesAreTrue' =>
        /\ Inherited(x)' = entry
        /\ \A y \in Pids \ {x} : Inherited(y)' = Inherited(y)
        /\ EntriesInOrder'
  BY <1>1, LineInherits DEF DescriptorInv
<1> QED
  BY <1>1, <1>2, FollowedDescriptors

\* What is left out covers what the parser does not learn.
LEMMA UnlearnedIsFollowed ==
    ASSUME TypeOK, NEW x \in Pids, Unlearned(x), table = [y \in Pids |-> y],
           \A y \in Pids \ {x} : fds'[y] = fds[y]
    PROVE  Followed(x, Inherited(x))
<1>1. stale \in [Pids -> SUBSET Fds]
  BY DEF TypeOK
<1>2. table[x] = x /\ \A fd : Descriptor(x, fd) = fds[x][fd]
  BY DEF Descriptor
<1> DEFINE missed == {fd \in Fds : LET before == fds[x][fd]
                                       after == fds'[x][fd]
                                   IN  before # after
                                       /\ {InputAt(before), InputAt(after)} # {"none"}}
<1>3. stale' = [stale EXCEPT ![x] = @ \cup missed]
  BY <1>2 DEF Unlearned
<1>4. \A fd \in Fds \ missed : \/ fds'[x][fd] = fds[x][fd]
                               \/ InputAt(fds[x][fd]) = "none" /\ InputAt(fds'[x][fd]) = "none"
  OBVIOUS
<1> HIDE DEF missed
<1>5. stale'[x] = stale[x] \cup missed /\ \A y \in Pids \ {x} : stale'[y] = stale[y]
  BY <1>1, <1>3
<1>6. ASSUME NEW class, NEW before, NEW after,
             InputAt(before) = "none", InputAt(after) = "none"
      PROVE  /\ TrueOf(class, before) => TrueOf(class, after)
             /\ KnownOf(class, after)
  BY <1>6 DEF InputAt, TrueOf, KnownOf
<1>7. ASSUME NEW class, NEW fd \in Fds \ stale'[x]
      PROVE  /\ TrueOf(class, fds[x][fd]) => TrueOf(class, fds'[x][fd])
             /\ KnownOf(class, fds[x][fd]) => KnownOf(class, fds'[x][fd])
  BY <1>4, <1>5, <1>6
<1>8. \A fd \in Fds \ stale'[x] : fd \in Fds \ stale[x]
  BY <1>5
<1> QED
  BY <1>5, <1>7, <1>8 DEF Followed

\* A line whose call the parser does not understand, or one that is split.
LEMMA UnlearnedDescriptors ==
    ASSUME TypeOK, LineageInv, DescriptorInv, NEW x \in Pids,
           EntryStep(x, Inherited(x)), Unlearned(x),
           table = [y \in Pids |-> y] => \A y \in Pids \ {x} : fds'[y] = fds[y]
    PROVE  DescriptorInv'
  BY InheritedType, UnlearnedIsFollowed, LineDescriptors

\* A line that leaves entry and descriptors alone.
LEMMA QuietLineDescriptors ==
    ASSUME TypeOK, LineageInv, DescriptorInv, NEW x \in Pids, Runs(x),
           NEW whole \in BOOLEAN, NEW evidence, NEW paths, NEW lost,
           Line(x, whole, Inherited(x), evidence, paths, lost),
           UNCHANGED <<alive, family, table, blocked, fds, stale>>
    PROVE  DescriptorInv'
<1>1. Inherited(x) \in Entries
  BY InheritedType
<1>2. EntryStep(x, IF whole THEN Inherited(x) ELSE Inherited(x))
  BY <1>1, LineIsEntryStep
<1>3. Followed(x, Inherited(x))
  BY DEF Followed
<1> QED
  BY <1>1, <1>2, <1>3, LineDescriptors

\* An open file is remembered under its descriptor if it is an input.
LEMMA OpenDescriptors ==
    ASSUME TypeOK, LineageInv, DescriptorInv, NEW x \in Pids, NEW file \in Files,
           NEW path \in Files, NEW writing \in BOOLEAN, NEW cloexec \in BOOLEAN,
           NEW whole \in BOOLEAN, Open(x, file, path, writing, cloexec, whole)
    PROVE  DescriptorInv'
<1> DEFINE input == InputOf(file, writing)
           class == Classified(InputOf(path, writing), cloexec)
           d == [open |-> TRUE, input |-> input, cloexec |-> cloexec]
           known == OrDefault(Inherited(x))
           said == OpenEvidence(path, writing)
           paths == IF writing /\ Kind[path] # "output"
                    THEN [writers EXCEPT ![path] = @ \cup {x}] ELSE writers
           lost == Misread(file, path) \cup IF writing THEN Alias(file, path) ELSE {}
<1>1. class \in FdClasses
  BY EvidenceTypes, ClassifiedType
<1>2. ASSUME LinesAreTrue', lost \subseteq gaps'
      PROVE  TrueOf(class, d) /\ KnownOf(class, d)
  <2>1. Kind[path] = Kind[file]
    BY <1>2 DEF LinesAreTrue, Misread
  <2>2. InputOf(path, writing) = input
    BY <2>1 DEF InputOf
  <2>3. input \in Inputs \cup {"none"}
    BY EvidenceTypes
  <2> HIDE DEF input
  <2> QED
    BY <2>2, <2>3 DEF TrueOf, KnownOf, Classified, Unclassified
<1> HIDE DEF class, input, d, said, paths, lost
<1>3. PICK fd \in Fds :
        /\ fds' = [fds EXCEPT ![table[x]][fd] = d]
        /\ IF whole THEN stale' = [stale EXCEPT ![x] = @ \ {fd}] ELSE Unlearned(x)
        /\ Line(x, whole, Seen([known EXCEPT ![fd] = class]), said, paths, lost)
  BY DEF Open, input, class, d, said, paths, lost
<1> DEFINE entry == Seen([known EXCEPT ![fd] = class])
<1>4. entry \in Entries /\ entry.seen
  BY <1>1, EntriesOfCalls DEF Seen
<1>5. /\ known \in [Fds -> FdClasses] /\ fds \in [Pids -> [Fds -> Descriptors]]
      /\ stale \in [Pids -> SUBSET Fds]
  BY InheritedType, EntryType DEF TypeOK
<1>6. OrDefault(entry) = [known EXCEPT ![fd] = class]
  BY DEF OrDefault, Seen
<1>7. Line(x, whole, entry, said, paths, lost)
  BY <1>3
<1> HIDE DEF entry
<1>8. EntryStep(x, IF whole THEN entry ELSE Inherited(x))
  <2>1. Runs(x) /\ UNCHANGED <<alive, family, table, blocked>>
    BY DEF Open
  <2> QED
    BY <1>4, <1>7, <2>1, LineIsEntryStep
<1> HIDE DEF known
<1>9. ASSUME table = [y \in Pids |-> y]
      PROVE  /\ \A y \in Pids \ {x} : fds'[y] = fds[y]
             /\ \A f \in Fds : fds'[x][f] = IF f = fd THEN d ELSE fds[x][f]
  BY <1>3, <1>5, <1>9
<1>10. CASE ~whole
  <2>1. Unlearned(x)
    BY <1>3, <1>10
  <2>2. EntryStep(x, Inherited(x))
    BY <1>8, <1>10
  <2> QED
    BY <1>9, <2>1, <2>2, UnlearnedDescriptors
<1>11. CASE whole
  <2>1. /\ \A f \in Fds : OrDefault(entry)[f] = IF f = fd THEN class ELSE known[f]
        /\ \A y \in Pids : stale'[y] = IF y = x THEN stale[x] \ {fd} ELSE stale[y]
    BY <1>3, <1>5, <1>6, <1>11
  <2>2. lost \subseteq gaps'
    BY <1>7 DEF Line
  <2>3. ASSUME LinesAreTrue', table = [y \in Pids |-> y]
        PROVE  Followed(x, entry)
    <3>1. TrueOf(class, d) /\ KnownOf(class, d)
      BY <1>2, <2>2, <2>3
    <3>2. \A y \in Pids \ {x} : fds'[y] = fds[y] /\ stale'[y] = stale[y]
      BY <1>9, <2>1, <2>3
    <3>3. ASSUME NEW f \in Fds \ stale'[x]
          PROVE  \/ f = fd /\ OrDefault(entry)[f] = class /\ fds'[x][f] = d
                 \/ /\ f \in Fds \ stale[x] /\ OrDefault(entry)[f] = known[f]
                    /\ fds'[x][f] = fds[x][f]
      BY <1>9, <2>1, <2>3
    <3> QED
      BY <3>1, <3>2, <3>3 DEF Followed, known
  <2>4. EntryStep(x, entry)
    BY <1>8, <1>11
  <2> QED
    BY <1>4, <2>3, <2>4, LineDescriptors
<1> QED
  BY <1>10, <1>11

LEMMA CloseDescriptors ==
    ASSUME TypeOK, LineageInv, DescriptorInv, NEW x \in Pids, NEW fd \in Fds,
           NEW whole \in BOOLEAN, Close(x, fd, whole)
    PROVE  DescriptorInv'
<1>1. EntryStep(x, IF whole THEN Inherited(x) ELSE Inherited(x))
  <2>1. Runs(x) /\ UNCHANGED <<alive, family, table, blocked>>
        /\ Line(x, whole, Inherited(x), {}, writers, {})
    BY DEF Close
  <2> QED
    BY <2>1, InheritedType, LineIsEntryStep
<1>2. Unlearned(x) /\ fds' = [fds EXCEPT ![table[x]][fd] = Closed]
  BY DEF Close
<1>3. table = [y \in Pids |-> y] => \A y \in Pids \ {x} : fds'[y] = fds[y]
  BY <1>2 DEF TypeOK
<1> QED
  BY <1>1, <1>2, <1>3, UnlearnedDescriptors

\* A duplicate whose line is understood is of the same input, with the flag of the call.
LEMMA DuplicateDescriptors ==
    ASSUME TypeOK, LineageInv, DescriptorInv, NEW x \in Pids, NEW old \in Fds, NEW new \in Fds,
           NEW cloexec \in BOOLEAN, NEW whole \in BOOLEAN, NEW long \in BOOLEAN,
           Duplicate(x, old, new, cloexec, whole, long)
    PROVE  DescriptorInv'
<1> DEFINE known == OrDefault(Inherited(x))
           class == Classified(known[old].input, cloexec)
           entry == Seen([known EXCEPT ![new] = class])
           source == fds[x][old]
           d == [source EXCEPT !.cloexec = cloexec]
<1>1. /\ known \in [Fds -> FdClasses] /\ fds \in [Pids -> [Fds -> Descriptors]]
      /\ stale \in [Pids -> SUBSET Fds]
  BY InheritedType, EntryType DEF TypeOK
<1>2. /\ known[old] \in FdClasses /\ known[old].input \in Inputs \cup {"none"}
      /\ known[old].cloexec \in BOOLEAN
  BY <1>1, ClassType
<1>3. class \in FdClasses /\ class.input = known[old].input
      /\ (class.input # "none" => class.cloexec = cloexec)
  BY <1>2, ClassifiedType DEF Classified, Unclassified
<1> HIDE DEF class
<1>4. entry \in Entries /\ entry.seen
  BY <1>3, EntriesOfCalls DEF Seen
<1>5. OrDefault(entry) = [known EXCEPT ![new] = class]
  BY DEF OrDefault, Seen
<1>6. /\ Runs(x) /\ UNCHANGED <<alive, family, table, blocked>>
      /\ Line(x, whole, IF long THEN entry ELSE Inherited(x), {}, writers, {})
  BY DEF Duplicate, class
<1> HIDE DEF entry
<1>7. IF long THEN entry \in Entries ELSE Inherited(x) \in Entries
  BY <1>4, InheritedType
<1>8. EntryStep(x, IF whole /\ long THEN entry ELSE Inherited(x))
  <2> DEFINE e == IF long THEN entry ELSE Inherited(x)
  <2>1. e \in Entries /\ (Inherited(x).seen => e.seen)
    BY <1>4, InheritedType
  <2>2. EntryStep(x, IF whole THEN e ELSE Inherited(x))
    <3>1. Line(x, whole, e, {}, writers, {})
      BY <1>6
    <3> HIDE DEF e
    <3> QED
      BY <1>6, <2>1, <3>1, LineIsEntryStep
  <2> QED
    BY <2>2
<1> HIDE DEF known
<1>9. ASSUME table = [y \in Pids |-> y]
      PROVE  /\ source.open
             /\ old = new => ~long /\ fds' = fds
             /\ old # new => fds' = [fds EXCEPT ![x][new] = d]
  BY <1>9 DEF Duplicate, Descriptor
<1>10. ASSUME table = [y \in Pids |-> y]
       PROVE  \A y \in Pids \ {x} : fds'[y] = fds[y]
  <2> HIDE DEF d, source
  <2> QED
    BY <1>1, <1>9, <1>10
<1>11. CASE ~(whole /\ long)
  <2>1. Unlearned(x)
    BY <1>11 DEF Duplicate
  <2> QED
    BY <1>8, <1>10, <1>11, <2>1, UnlearnedDescriptors
<1>12. CASE whole /\ long
  <2>1. ASSUME table = [y \in Pids |-> y]
        PROVE  /\ fds'[x][new].open /\ fds'[x][new].input = source.input
               /\ fds'[x][new].cloexec = cloexec
               /\ \A f \in Fds \ {new} : fds'[x][f] = fds[x][f]
    <3>1. source.open /\ fds' = [fds EXCEPT ![x][new] = d]
      BY <1>9, <1>12, <2>1
    <3>2. source # Closed
      BY <3>1 DEF Closed
    <3>3. source \in [open : {TRUE}, input : Inputs \cup {"none"}, cloexec : BOOLEAN]
      BY <1>1, <3>2 DEF Descriptors
    <3>4. d.open /\ d.input = source.input /\ d.cloexec = cloexec
      BY <3>3
    <3> HIDE DEF d, source
    <3>5. fds'[x][new] = d /\ \A f \in Fds \ {new} : fds'[x][f] = fds[x][f]
      BY <1>1, <3>1
    <3> QED
      BY <3>4, <3>5
  <2>2. /\ \A f \in Fds : OrDefault(entry)[f] = IF f = new THEN class ELSE known[f]
        /\ \A y \in Pids \ {x} : stale'[y] = stale[y]
        /\ \A f \in Fds \ {new} : f \in stale'[x] <=> f \in stale[x]
        /\ new \in stale'[x] <=> old \in stale[x]
    <3>1. stale' = [stale EXCEPT ![x] = IF old \in @ THEN @ \cup {new} ELSE @ \ {new}]
      BY <1>12 DEF Duplicate
    <3>2. CASE old \in stale[x]
      BY <1>1, <1>5, <3>1, <3>2
    <3>3. CASE old \notin stale[x]
      BY <1>1, <1>5, <3>1, <3>3
    <3> QED
      BY <3>2, <3>3
  <2> HIDE DEF d
  <2>3. ASSUME table = [y \in Pids |-> y]
        PROVE  Followed(x, entry)
    <3>1. ASSUME TrueOf(known[old], source)
          PROVE  TrueOf(class, fds'[x][new])
      BY <1>3, <2>1, <2>3, <3>1 DEF TrueOf
    <3>2. ASSUME KnownOf(known[old], source)
          PROVE  KnownOf(class, fds'[x][new])
      BY <1>3, <1>9, <2>1, <2>3, <3>2 DEF KnownOf
    <3>3. ASSUME NEW f \in Fds \ stale'[x]
          PROVE  \/ f = new /\ OrDefault(entry)[f] = class /\ old \in Fds \ stale[x]
                 \/ /\ f \in Fds \ stale[x] /\ OrDefault(entry)[f] = known[f]
                    /\ fds'[x][f] = fds[x][f]
      BY <2>1, <2>2, <2>3
    <3> QED
      BY <1>10, <2>2, <2>3, <3>1, <3>2, <3>3 DEF Followed, known
  <2> QED
    BY <1>4, <1>8, <1>12, <2>3, LineDescriptors
<1> QED
  BY <1>11, <1>12

LEMMA SetCloexecDescriptors ==
    ASSUME TypeOK, LineageInv, DescriptorInv, NEW x \in Pids, NEW fd \in Fds,
           NEW cloexec \in BOOLEAN, NEW whole \in BOOLEAN, NEW long \in BOOLEAN,
           SetCloexec(x, fd, cloexec, whole, long)
    PROVE  DescriptorInv'
<1> DEFINE known == OrDefault(Inherited(x))
           entry == IF long /\ Inherited(x).seen /\ Inherited(x).fds[fd].input # "none"
                    THEN Seen([Inherited(x).fds EXCEPT ![fd].cloexec = cloexec])
                    ELSE Inherited(x)
           source == fds[x][fd]
           d == [source EXCEPT !.cloexec = cloexec]
           class == [known[fd] EXCEPT !.cloexec = cloexec]
<1>1. entry \in Entries /\ (Inherited(x).seen => entry.seen)
  BY EntriesOfCalls, InheritedType DEF Seen
<1>2. known \in [Fds -> FdClasses] /\ fds \in [Pids -> [Fds -> Descriptors]]
  BY InheritedType, EntryType DEF TypeOK
<1>3. known[fd] \in FdClasses /\ source \in Descriptors
  BY <1>2
<1>4. known[fd].input # "none" =>
          class.input = known[fd].input /\ class.cloexec = cloexec
  <2>1. SUFFICES ASSUME known[fd].input # "none"
                 PROVE  class.input = known[fd].input /\ class.cloexec = cloexec
    OBVIOUS
  <2>2. known[fd] # Unclassified
    BY <2>1 DEF Unclassified
  <2>3. known[fd] \in [input : Inputs, cloexec : BOOLEAN]
    BY <1>3, <2>2 DEF FdClasses
  <2> HIDE DEF known
  <2> QED
    BY <2>3
<1>5. /\ ~long => entry = Inherited(x)
      /\ long => \A f \in Fds : OrDefault(entry)[f] =
            IF f = fd /\ known[fd].input # "none" THEN class ELSE known[f]
  <2>1. CASE long /\ Inherited(x).seen /\ Inherited(x).fds[fd].input # "none"
    <3>1. known[fd].input # "none" /\ OrDefault(entry) = [known EXCEPT ![fd] = class]
      BY <2>1 DEF OrDefault, Seen
    <3> HIDE DEF entry, known, class
    <3> QED
      BY <1>2, <2>1, <3>1
  <2>2. CASE long /\ ~Inherited(x).seen
    BY <2>2 DEF OrDefault, Empty, Unclassified
  <2>3. CASE long /\ Inherited(x).seen /\ Inherited(x).fds[fd].input = "none"
    BY <2>3 DEF OrDefault
  <2>4. CASE ~long
    BY <2>4
  <2> QED
    BY <2>1, <2>2, <2>3, <2>4
<1>6. /\ Runs(x) /\ UNCHANGED <<alive, family, table, blocked>>
      /\ Line(x, whole, entry, {}, writers, {})
  BY DEF SetCloexec
<1> HIDE DEF entry, known, class
<1>7. EntryStep(x, IF whole THEN entry ELSE Inherited(x))
  BY <1>1, <1>6, LineIsEntryStep
<1>8. ASSUME table = [y \in Pids |-> y]
      PROVE  /\ source.open /\ d.open /\ d.input = source.input /\ d.cloexec = cloexec
             /\ \A y \in Pids \ {x} : fds'[y] = fds[y]
             /\ \A f \in Fds : fds'[x][f] = IF f = fd THEN d ELSE fds[x][f]
  <2>1. source.open /\ fds' = [fds EXCEPT ![x][fd] = d]
    BY <1>8 DEF SetCloexec, Descriptor
  <2>2. source # Closed
    BY <2>1 DEF Closed
  <2>3. source \in [open : {TRUE}, input : Inputs \cup {"none"}, cloexec : BOOLEAN]
    BY <1>3, <2>2 DEF Descriptors
  <2>4. d.open /\ d.input = source.input /\ d.cloexec = cloexec
    BY <2>3
  <2> HIDE DEF d, source
  <2> QED
    BY <1>2, <2>1, <2>4
<1> HIDE DEF d
<1>9. CASE ~(whole /\ long)
  <2>1. Unlearned(x)
    BY <1>9 DEF SetCloexec
  <2>2. EntryStep(x, Inherited(x))
    BY <1>5, <1>7, <1>9
  <2> QED
    BY <1>8, <2>1, <2>2, UnlearnedDescriptors
<1>10. CASE whole /\ long
  <2>1. stale' = stale
    BY <1>10 DEF SetCloexec
  <2>2. ASSUME table = [y \in Pids |-> y]
        PROVE  Followed(x, entry)
    <3>1. TrueOf(known[fd], source) =>
            IF known[fd].input # "none" THEN TrueOf(class, d) ELSE TrueOf(known[fd], d)
      BY <1>4, <1>8, <2>2 DEF TrueOf
    <3>2. KnownOf(known[fd], source) =>
            IF known[fd].input # "none" THEN KnownOf(class, d) ELSE KnownOf(known[fd], d)
      BY <1>4, <1>8, <2>2 DEF KnownOf
    <3>3. \A f \in Fds :
            /\ TrueOf(known[f], fds[x][f]) => TrueOf(OrDefault(entry)[f], fds'[x][f])
            /\ KnownOf(known[f], fds[x][f]) => KnownOf(OrDefault(entry)[f], fds'[x][f])
      BY <1>5, <1>8, <1>10, <2>2, <3>1, <3>2
    <3> QED
      BY <1>8, <2>1, <2>2, <3>3 DEF Followed, known
  <2>3. EntryStep(x, entry)
    BY <1>7, <1>10
  <2> QED
    BY <1>1, <2>2, <2>3, LineDescriptors
<1> QED
  BY <1>9, <1>10

\* What an execve closes is forgotten, and nothing else.
LEMMA ExecDescriptors ==
    ASSUME TypeOK, LineageInv, DescriptorInv, NEW x \in Pids, NEW whole \in BOOLEAN,
           NEW at \in BOOLEAN, Exec(x, whole, at)
    PROVE  DescriptorInv'
<1> DEFINE known == OrDefault(Inherited(x))
           entry == AfterExec(Inherited(x))
<1>1. entry \in Entries /\ (Inherited(x).seen => entry.seen)
  BY EntriesOfCalls DEF AfterExec, Seen
<1>2. known \in [Fds -> FdClasses] /\ fds \in [Pids -> [Fds -> Descriptors]]
  BY InheritedType, EntryType DEF TypeOK
<1>3. \A f \in Fds : OrDefault(entry)[f] =
          IF known[f].cloexec THEN Unclassified ELSE known[f]
  BY AfterExecKnows
<1> HIDE DEF entry
<1>4. EntryStep(x, IF whole /\ ~at THEN entry ELSE Inherited(x))
  <2> DEFINE e == IF at THEN Inherited(x) ELSE entry
  <2>1. e \in Entries /\ (Inherited(x).seen => e.seen)
    BY <1>1, InheritedType
  <2>2. Runs(x) /\ UNCHANGED <<alive, family, table, blocked>>
        /\ Line(x, whole, e, {}, writers, {})
    BY DEF Exec, entry
  <2> HIDE DEF e
  <2>3. EntryStep(x, IF whole THEN e ELSE Inherited(x))
    BY <2>1, <2>2, LineIsEntryStep
  <2> QED
    BY <2>3 DEF e
<1> HIDE DEF known
<1>5. ASSUME table = [y \in Pids |-> y]
      PROVE  /\ \A y \in Pids \ {x} : fds'[y] = fds[y]
             /\ \A f \in Fds : fds'[x][f] =
                    IF fds[x][f].open /\ fds[x][f].cloexec THEN Closed ELSE fds[x][f]
  <2> DEFINE after == [f \in Fds |-> IF fds[x][f].open /\ fds[x][f].cloexec THEN Closed
                                     ELSE fds[x][f]]
  <2>1. fds' = [fds EXCEPT ![x] = after]
    BY <1>5 DEF Exec
  <2>2. \A f \in Fds : after[f] =
            IF fds[x][f].open /\ fds[x][f].cloexec THEN Closed ELSE fds[x][f]
    OBVIOUS
  <2> HIDE DEF after
  <2> QED
    BY <1>2, <2>1, <2>2
<1>6. CASE ~(whole /\ ~at)
  <2>1. Unlearned(x)
    BY <1>6 DEF Exec
  <2> QED
    BY <1>4, <1>5, <1>6, <2>1, UnlearnedDescriptors
<1>7. CASE whole /\ ~at
  <2>1. stale' = stale
    BY <1>7 DEF Exec
  <2>2. (\A d : TrueOf(Unclassified, d)) /\ \A class : KnownOf(class, Closed)
    BY DEF TrueOf, KnownOf, Unclassified, Closed
  <2>3. ASSUME table = [y \in Pids |-> y], NEW f \in Fds, TrueOf(known[f], fds[x][f])
        PROVE  TrueOf(OrDefault(entry)[f], fds'[x][f])
    <3>1. CASE known[f].cloexec
      BY <1>3, <2>2, <3>1
    <3>2. CASE ~known[f].cloexec /\ fds[x][f].open /\ fds[x][f].cloexec
      <4>1. known[f].input = "none"
        BY <2>3, <3>2, Zenon DEF TrueOf
      <4> QED
        BY <1>3, <3>2, <4>1 DEF TrueOf
    <3>3. CASE ~known[f].cloexec /\ ~(fds[x][f].open /\ fds[x][f].cloexec)
      BY <1>3, <1>5, <2>3, <3>3
    <3> QED
      BY <3>1, <3>2, <3>3
  <2>4. ASSUME table = [y \in Pids |-> y], NEW f \in Fds, TrueOf(known[f], fds[x][f]),
               KnownOf(known[f], fds[x][f])
        PROVE  KnownOf(OrDefault(entry)[f], fds'[x][f])
    <3>1. CASE fds[x][f].open /\ fds[x][f].cloexec
      BY <1>5, <2>2, <2>4, <3>1
    <3>2. CASE ~(fds[x][f].open /\ fds[x][f].cloexec) /\ ~known[f].cloexec
      BY <1>3, <1>5, <2>4, <3>2
    <3>3. CASE ~(fds[x][f].open /\ fds[x][f].cloexec) /\ known[f].cloexec
      <4>1. known[f] # Unclassified
        BY <3>3 DEF Unclassified
      <4>2. known[f].input # "none"
        BY <1>2, <4>1 DEF FdClasses, Inputs
      <4>3. fds[x][f].open /\ fds[x][f].cloexec = known[f].cloexec
        BY <2>4, <4>2 DEF TrueOf
      <4> QED
        BY <3>3, <4>3, Zenon
    <3> QED
      BY <3>1, <3>2, <3>3
  <2>5. table = [y \in Pids |-> y] => Followed(x, entry)
    BY <1>5, <2>1, <2>3, <2>4 DEF Followed, known
  <2> QED
    BY <1>1, <1>4, <1>7, <2>5, LineDescriptors
<1> QED
  BY <1>6, <1>7

\* A descriptor that changes without a line is left out if the change is of an input.
LEMMA UntracedDescriptors ==
    ASSUME TypeOK, LineageInv, DescriptorInv, NEW x \in Pids, NEW fd \in Fds,
           NEW after \in Descriptors, Untraced(x, fd, after)
    PROVE  DescriptorInv'
<1>1. /\ UNCHANGED <<alive, table, blocked, parents, classes>> /\ x \in alive
      /\ gaps \subseteq gaps' /\ Unlearned(x)
      /\ fds' = [fds EXCEPT ![table[x]][fd] = after]
  BY DEF Untraced, parserVars, Runs
<1>2. \A y \in Pids : Inherited(y)' = Inherited(y)
  BY <1>1 DEF Inherited
<1>3. LinesAreTrue' => LinesAreTrue
  BY <1>1 DEF LinesAreTrue
<1>4. LinesAreTrue' => EntriesInOrder'
  BY <1>1, <1>2, <1>3 DEF DescriptorInv, EntriesInOrder
<1>5. table = [y \in Pids |-> y] => \A y \in Pids \ {x} : fds'[y] = fds[y]
  BY <1>1 DEF TypeOK
<1>6. table = [y \in Pids |-> y] => Followed(x, Inherited(x))
  BY <1>1, <1>5, UnlearnedIsFollowed
<1> QED
  BY <1>1, <1>2, <1>4, <1>6, FollowedDescriptors

\* A child has the descriptors of its creator, and is known to.
LEMMA CloneDescriptors ==
    ASSUME TypeOK, LineageInv, DescriptorInv, NEW x \in Pids, NEW child \in Pids,
           NEW threads \in BOOLEAN, NEW known \in BOOLEAN, Clone(x, child, threads, known)
    PROVE  DescriptorInv'
<1>1. /\ x \in alive /\ child \notin alive /\ alive' = alive \cup {child} /\ alive \subseteq Pids
      /\ fds \in [Pids -> [Fds -> Descriptors]] /\ gaps \subseteq gaps'
      /\ \A y \in Pids : stale'[y] = IF y = child THEN stale[x] ELSE stale[y]
  BY DEF Clone, Runs, TypeOK
<1>2. SUFFICES ASSUME LinesAreTrue'
               PROVE  DescriptorInv'
  BY DEF DescriptorInv
<1>3. LinesAreTrue /\ ~threads
  <2>1. ~threads
    BY <1>2 DEF LinesAreTrue, Clone
  <2> QED
    BY <1>1, <1>2, <2>1 DEF LinesAreTrue
<1>4. table = [y \in Pids |-> y] /\ EntriesInOrder /\ KnownIsTrue
  BY <1>3 DEF DescriptorInv
<1>5. /\ Inherited(child)' = IF known THEN Inherited(x) ELSE Unseen
      /\ \A y \in Pids \ {child} : Inherited(y)' = Inherited(y)
      /\ EntriesInOrder'
  BY <1>4, CloneInherits
<1>6. table' = [y \in Pids |-> y]
  BY <1>3, <1>4 DEF Clone
<1>7. \A y \in Pids : fds'[y] = IF y = child THEN fds[x] ELSE fds[y]
  BY <1>1, <1>3, <1>4 DEF Clone
<1>8. /\ \A y \in alive, f \in Fds : Known(y, f)' = Known(y, f)
      /\ known => \A f \in Fds : Known(child, f)' = Known(x, f)
      /\ ~known => \A f \in Fds : Known(child, f)' = Unclassified
  BY <1>1, <1>5 DEF Known, OrDefault, Empty, Unseen
<1>9. \A d : TrueOf(Unclassified, d)
  BY DEF TrueOf, Unclassified
<1>10. KnownIsTrue'
  <2>1. ASSUME NEW y \in alive', NEW f \in Fds \ stale'[y]
        PROVE  TrueOf(Known(y, f)', fds'[y][f])
    <3>1. CASE y = child /\ known
      <4>1. f \in Fds \ stale[x]
        BY <1>1, <2>1, <3>1
      <4>2. TrueOf(Known(x, f), fds[x][f])
        BY <1>1, <1>4, <4>1 DEF KnownIsTrue
      <4> QED
        BY <1>7, <1>8, <3>1, <4>2
    <3>2. CASE y = child /\ ~known
      BY <1>8, <1>9, <3>2
    <3>3. CASE y # child
      <4>1. y \in alive /\ y \in Pids /\ f \in Fds \ stale[y]
        BY <1>1, <2>1, <3>3
      <4>2. TrueOf(Known(y, f), fds[y][f])
        BY <1>4, <4>1 DEF KnownIsTrue
      <4> QED
        BY <1>7, <1>8, <3>3, <4>1, <4>2
    <3> QED
      BY <3>1, <3>2, <3>3
  <2> QED
    BY <2>1 DEF KnownIsTrue, TrueOf
<1>11. ASSUME "cut" \notin gaps'
       PROVE  TruthIsKnown'
  <2>1. known
    BY <1>11 DEF Clone
  <2>2. TruthIsKnown
    BY <1>1, <1>3, <1>11 DEF DescriptorInv
  <2>3. ASSUME NEW y \in alive', NEW f \in Fds \ stale'[y]
        PROVE  KnownOf(Known(y, f)', fds'[y][f])
    <3>1. CASE y = child
      <4>1. f \in Fds \ stale[x]
        BY <1>1, <2>3, <3>1
      <4>2. KnownOf(Known(x, f), fds[x][f])
        BY <1>1, <2>2, <4>1 DEF TruthIsKnown
      <4> QED
        BY <1>7, <1>8, <2>1, <3>1, <4>2
    <3>2. CASE y # child
      <4>1. y \in alive /\ y \in Pids /\ f \in Fds \ stale[y]
        BY <1>1, <2>3, <3>2
      <4>2. KnownOf(Known(y, f), fds[y][f])
        BY <2>2, <4>1 DEF TruthIsKnown
      <4> QED
        BY <1>7, <1>8, <3>2, <4>1, <4>2
    <3> QED
      BY <3>1, <3>2
  <2> QED
    BY <2>3 DEF TruthIsKnown, KnownOf
<1> QED
  BY <1>5, <1>6, <1>10, <1>11 DEF DescriptorInv

LEMMA CloneReturnsDescriptors ==
    ASSUME TypeOK, LineageInv, DescriptorInv, NEW x \in Pids, CloneReturns(x)
    PROVE  DescriptorInv'
<1>1. UNCHANGED <<alive, table, fds, stale, gaps>> /\ alive \subseteq Pids
  BY DEF CloneReturns, TypeOK
<1>2. LinesAreTrue' <=> LinesAreTrue
  BY <1>1 DEF LinesAreTrue
<1>3. SUFFICES ASSUME LinesAreTrue
               PROVE  DescriptorInv'
  BY <1>1, <1>2 DEF DescriptorInv
<1>4. table = [y \in Pids |-> y] /\ EntriesInOrder /\ KnownIsTrue
  BY <1>3 DEF DescriptorInv
<1>5. (\A y \in Pids : Inherited(y)' = Inherited(y)) /\ EntriesInOrder'
  BY <1>4, CloneReturnsInherits
<1>6. \A y \in alive, f \in Fds : Known(y, f)' = Known(y, f)
  BY <1>1, <1>5 DEF Known
<1>7. KnownIsTrue'
  BY <1>1, <1>4, <1>6 DEF KnownIsTrue, TrueOf
<1>8. TruthIsKnown => TruthIsKnown'
  BY <1>1, <1>6 DEF TruthIsKnown, KnownOf
<1>9. "cut" \notin gaps' => TruthIsKnown'
  BY <1>1, <1>3, <1>8 DEF DescriptorInv
<1> QED
  BY <1>1, <1>4, <1>5, <1>7, <1>9 DEF DescriptorInv

LEMMA DescriptorStep == TypeOK /\ LineageInv /\ DescriptorInv /\ [Next]_vars => DescriptorInv'
<1> SUFFICES ASSUME TypeOK, LineageInv, DescriptorInv, [Next]_vars
             PROVE  DescriptorInv'
  OBVIOUS
<1>1. CASE UNCHANGED vars
  BY <1>1, DescriptorsUnchanged DEF vars, kernelVars, parserVars
<1>2. ASSUME NEW x \in Pids, NEW fd \in Fds, NEW whole \in BOOLEAN, Mmap(x, fd, whole)
      PROVE  DescriptorInv'
  <2> DEFINE said == {e \in Reads : Inherited(x).seen
                                     /\ e = Did(Inherited(x).fds[fd].input, "mmap")}
             lost == IF fd \in stale[x] THEN {"stale"} ELSE {}
  <2>1. Runs(x) /\ Line(x, whole, Inherited(x), said, writers, lost)
        /\ UNCHANGED <<alive, family, table, blocked, fds, stale>>
    BY <1>2 DEF Mmap, kernelVars
  <2> HIDE DEF said, lost
  <2> QED
    BY <2>1, QuietLineDescriptors
<1>3. ASSUME NEW x \in Pids, NEW source, NEW destination, NEW from, NEW to,
             NEW whole \in BOOLEAN, Rename(x, source, destination, from, to, whole)
      PROVE  DescriptorInv'
  <2> DEFINE kin == Kin(x)
             said == RenameEvidence(x, to, writers[from], kin)
             lost == Alias(source, from) \cup Alias(destination, to)
                        \cup IF authors[destination] # {} THEN {"overwritten"} ELSE {}
  <2>1. Runs(x) /\ Line(x, whole, Inherited(x), said, WritersMoved(from, to), lost)
        /\ UNCHANGED <<alive, family, table, blocked, fds, stale>>
    BY <1>3 DEF Rename
  <2> HIDE DEF said, lost
  <2> QED
    BY <2>1, QuietLineDescriptors
<1>4. ASSUME NEW x \in Pids, NEW scope, NEW completes,
             NEW whole \in BOOLEAN, Connect(x, scope, completes, whole)
      PROVE  DescriptorInv'
  <2> DEFINE traffic == IF scope \in NonlocalScopes THEN {Network} ELSE {}
             said == IF completes THEN traffic ELSE {}
             lost == IF traffic # {} /\ ~completes THEN {"inProgress"} ELSE {}
  <2>1. Runs(x) /\ Line(x, whole, Inherited(x), said, writers, lost)
        /\ UNCHANGED <<alive, family, table, blocked, fds, stale>>
    BY <1>4 DEF Connect, kernelVars
  <2> HIDE DEF said, lost
  <2> QED
    BY <2>1, QuietLineDescriptors
<1>5. ASSUME NEW x \in Pids, NEW file, NEW whole \in BOOLEAN, Unlink(x, file, whole)
      PROVE  DescriptorInv'
  <2> DEFINE lost == IF authors[file] # {} THEN {"removed"} ELSE {}
  <2>1. Runs(x) /\ Line(x, whole, Inherited(x), {}, writers, lost)
        /\ UNCHANGED <<alive, family, table, blocked, fds, stale>>
    BY <1>5 DEF Unlink
  <2> HIDE DEF lost
  <2> QED
    BY <2>1, QuietLineDescriptors
<1>6. ASSUME NEW x \in Pids, FailedCall(x)
      PROVE  DescriptorInv'
  <2>1. PICK whole \in BOOLEAN :
            Line(x, whole, Inherited(x), {}, writers, {}) /\ Runs(x)
    BY <1>6, Zenon DEF FailedCall
  <2>2. UNCHANGED <<alive, family, table, blocked, fds, stale>>
    BY <1>6 DEF FailedCall, kernelVars
  <2> QED
    BY <2>1, <2>2, QuietLineDescriptors
<1>7. ASSUME NEW x \in Pids, Call(x)
      PROVE  DescriptorInv'
  BY <1>2, <1>3, <1>4, <1>5, <1>6, <1>7, OpenDescriptors, CloseDescriptors,
     DuplicateDescriptors, SetCloexecDescriptors, ExecDescriptors DEF Call
<1>8. CASE Next
  BY <1>7, <1>8, NextIsCall, UntracedDescriptors, CloneDescriptors, CloneReturnsDescriptors
<1> QED
  BY <1>1, <1>8

LEMMA DescriptorInit == Init => DescriptorInv
<1> SUFFICES ASSUME Init PROVE DescriptorInv
  OBVIOUS
<1>1. \A x \in Pids : Inherited(x) = Unseen
  BY DEF Init, Inherited
<1>2. \A x \in Pids, fd \in Fds : Known(x, fd) = Unclassified /\ fds[x][fd] = Closed
  BY <1>1 DEF Init, Known, OrDefault, Unseen, Empty
<1>3. TrueOf(Unclassified, Closed) /\ KnownOf(Unclassified, Closed)
  BY DEF TrueOf, KnownOf, Unclassified, Closed
<1>4. EntriesInOrder
  BY <1>1 DEF Init, EntriesInOrder, Unseen
<1>5. alive \subseteq Pids
  BY TraceAssumption DEF Init
<1>6. KnownIsTrue /\ TruthIsKnown
  BY <1>2, <1>3, <1>5 DEF KnownIsTrue, TruthIsKnown
<1> QED
  BY <1>4, <1>6 DEF Init, DescriptorInv
-------------------------------------------------------------------------------
(* Origins                                                                 *)

\* Who is above stays above, and what was opened stays opened.
LEMMA OpenedGrows ==
    ASSUME TypeOK, LineageInv, NEW up \in Creators,
           \A y \in Pids : parents[y] # NoPid => up[y] = parents[y],
           NEW said \in [Pids -> SUBSET Evidence], \A y \in Pids : activity[y] \subseteq said[y],
           NEW x \in Pids, NEW input, Opened(x, input)
    PROVE  OpenedBy(up, said, x, input)
<1>1. parents \in Creators
  BY TypeParts DEF ParserType
<1>2. PICK a \in Above(parents, x) \cup {x} : Did(input, "read") \in activity[a]
  BY DEF Opened, OpenedBy
<1>3. Above(parents, x) \subseteq Above(up, x)
  BY <1>1, AboveMonotone
<1>4. a \in Pids
  BY <1>1, AboveClosed
<1> QED
  BY <1>2, <1>3, <1>4 DEF OpenedBy

\* What a process takes over from its creator was opened above it.
LEMMA KnownIsOpened ==
    ASSUME TypeOK, LineageInv, OriginInv, NEW x \in Pids, NEW fd \in Fds,
           Known(x, fd).input # "none"
    PROVE  Opened(x, Known(x, fd).input)
<1>1. classes \in [Pids -> Entries] /\ parents \in Creators /\ NoPid \notin Pids
  BY TypeParts, TraceAssumption DEF ParserType
<1>2. Inherited(x).seen /\ Known(x, fd) = Inherited(x).fds[fd]
  BY DEF Known, OrDefault, Empty, Unclassified
<1>3. CASE Inherited(x) = classes[x]
  BY <1>2, <1>3 DEF OriginInv
<1>4. CASE parents[x] # NoPid /\ Inherited(x) = classes[parents[x]]
  <2> DEFINE q == parents[x]
  <2>1. q \in Pids
    BY <1>1, <1>4 DEF Creators
  <2>2. Opened(q, Known(x, fd).input)
    BY <1>2, <1>4, <2>1 DEF OriginInv
  <2>3. Above(parents, q) \cup {q} \subseteq Above(parents, x)
    BY <1>1, <1>4, AboveOfChild DEF LineageInv
  <2> QED
    BY <2>2, <2>3 DEF Opened, OpenedBy
<1> QED
  BY <1>3, <1>4 DEF Inherited

\* Entries keep their origins where creations and evidence only grow.
LEMMA OriginsKept ==
    ASSUME TypeOK, TypeOK', LineageInv, OriginInv,
           \A y \in Pids : parents[y] # NoPid => parents'[y] = parents[y],
           \A y \in Pids : activity[y] \subseteq activity'[y],
           \A y \in Pids : classes'[y].seen =>
                \A fd \in Fds : LET input == classes'[y].fds[fd].input
                                IN  input # "none" => Opened(y, input)
                                                      \/ Did(input, "read") \in activity'[y],
           \A y \in Pids : \A e \in activity'[y] \cap Mmaps :
                e \in activity[y] \/ Opened(y, e.what)
    PROVE  OriginInv'
<1>1. parents' \in Creators /\ activity' \in [Pids -> SUBSET Evidence]
  BY DEF TypeOK, Creators
<1>2. \A input : \A y \in Pids : Opened(y, input) => OpenedBy(parents', activity', y, input)
  BY <1>1, OpenedGrows
<1>3. \A input : \A y \in Pids :
        Did(input, "read") \in activity'[y] => OpenedBy(parents', activity', y, input)
  BY DEF OpenedBy
<1>4. ASSUME NEW y \in Pids, classes'[y].seen, NEW fd \in Fds,
             classes'[y].fds[fd].input # "none"
      PROVE  OpenedBy(parents', activity', y, classes'[y].fds[fd].input)
  BY <1>2, <1>3, <1>4
<1>5. ASSUME NEW y \in Pids, NEW e \in activity'[y] \cap Mmaps
      PROVE  OpenedBy(parents', activity', y, e.what)
  BY <1>2, <1>5 DEF OriginInv
<1> QED
  BY <1>4, <1>5 DEF OriginInv, Opened

LEMMA LineOrigins ==
    ASSUME TypeOK, TypeOK', LineageInv, OriginInv, NEW x \in Pids, LineStep(x)
    PROVE  OriginInv'
<1>1. PICK entry \in Entries : EntryStep(x, entry) /\ Traceable(x, entry)
  BY DEF LineStep
<1>2. /\ parents' = parents
      /\ \A y \in Pids : classes'[y] = IF y = x THEN entry ELSE classes[y]
  BY <1>1 DEF EntryStep, TypeOK
<1>3. \A input : input # "none" /\ KnownInput(x, input) => Opened(x, input)
  BY KnownIsOpened DEF KnownInput
<1>4. \A y \in Pids : activity[y] \subseteq activity'[y]
  BY <1>1 DEF Traceable
<1>5. ASSUME NEW y \in Pids, classes'[y].seen, NEW fd \in Fds,
             classes'[y].fds[fd].input # "none"
      PROVE  \/ Opened(y, classes'[y].fds[fd].input)
             \/ Did(classes'[y].fds[fd].input, "read") \in activity'[y]
  <2>1. CASE y = x
    <3>1. classes'[y].fds[fd] = OrDefault(entry)[fd]
      BY <1>2, <1>5, <2>1 DEF OrDefault
    <3> QED
      BY <1>1, <1>3, <1>5, <2>1, <3>1 DEF Traceable
  <2>2. CASE y # x
    BY <1>2, <1>5, <2>2 DEF OriginInv
  <2> QED
    BY <2>1, <2>2
<1>6. ASSUME NEW y \in Pids, NEW e \in activity'[y] \cap Mmaps
      PROVE  e \in activity[y] \/ Opened(y, e.what)
  <2>1. e.what # "none"
    BY DEF Mmaps, Reads, Inputs
  <2> QED
    BY <1>1, <1>3, <2>1 DEF Traceable
<1> QED
  BY <1>2, <1>4, <1>5, <1>6, OriginsKept

LEMMA CloneOrigins ==
    ASSUME TypeOK, TypeOK', LineageInv, OriginInv, NEW x \in Pids,
           \/ \E child \in Pids, threads, known \in BOOLEAN : Clone(x, child, threads, known)
           \/ CloneReturns(x)
    PROVE  OriginInv'
<1>1. /\ classes \in [Pids -> Entries] /\ parents \in Creators /\ NoPid \notin Pids
      /\ blocked \in [Pids -> Pids \cup {NoPid}]
  BY TypeParts, TraceAssumption DEF ParserType, KernelType
<1>2. ASSUME NEW y \in Pids, NEW fd \in Fds, Inherited(y).seen,
             Inherited(y).fds[fd].input # "none"
      PROVE  Opened(y, Inherited(y).fds[fd].input)
  BY <1>2, KnownIsOpened DEF Known, OrDefault
<1>3. ASSUME NEW child \in Pids, NEW threads \in BOOLEAN, NEW known \in BOOLEAN,
             Clone(x, child, threads, known)
      PROVE  OriginInv'
  <2>1. /\ activity' = activity
        /\ \A y \in Pids : classes'[y] = IF y = x THEN Inherited(x) ELSE classes[y]
        /\ parents' = IF known THEN [parents EXCEPT ![child] = x] ELSE parents
        /\ parents[child] = NoPid
    BY <1>1, <1>3 DEF Clone, LineageInv
  <2>2. \A y \in Pids : parents[y] # NoPid => parents'[y] = parents[y]
    BY <1>1, <2>1 DEF Creators
  <2>3. ASSUME NEW y \in Pids, classes'[y].seen, NEW fd \in Fds,
               classes'[y].fds[fd].input # "none"
        PROVE  Opened(y, classes'[y].fds[fd].input)
    <3>1. CASE y = x
      BY <1>2, <2>1, <2>3, <3>1
    <3>2. CASE y # x
      BY <2>1, <2>3, <3>2 DEF OriginInv
    <3> QED
      BY <3>1, <3>2
  <2> QED
    BY <2>1, <2>2, <2>3, OriginsKept
<1>4. ASSUME CloneReturns(x)
      PROVE  OriginInv'
  <2>0. PICK child \in Pids : child = blocked[x] /\ parents[child] = x
    BY <1>1, <1>4 DEF CloneReturns
  <2> DEFINE entry == Inherited(x)
  <2>1. /\ UNCHANGED <<activity, parents>>
        /\ classes' = [classes EXCEPT ![x] = entry, ![child] = IF @.seen THEN @ ELSE entry]
    BY <1>4, <2>0 DEF CloneReturns
  <2>2. child # x
    BY <2>0, NoOwnParent
  <2>3. \A y \in Pids : \/ classes'[y] = classes[y]
                        \/ y \in {x, child} /\ classes'[y] = Inherited(x)
    <3> HIDE DEF entry
    <3>1. \A y \in Pids : \/ classes'[y] = classes[y]
                          \/ y \in {x, child} /\ classes'[y] = entry
      BY <1>1, <2>1, <2>2
    <3> QED
      BY <3>1 DEF entry
  <2>4. \A input : Opened(x, input) => Opened(child, input)
    <3>1. Above(parents, x) \cup {x} \subseteq Above(parents, child)
      BY <1>1, <2>0, AboveOfChild DEF LineageInv
    <3> QED
      BY <3>1 DEF Opened, OpenedBy
  <2>5. ASSUME NEW y \in Pids, classes'[y].seen, NEW fd \in Fds,
               classes'[y].fds[fd].input # "none"
        PROVE  Opened(y, classes'[y].fds[fd].input)
    <3>1. CASE classes'[y] = classes[y]
      BY <2>5, <3>1 DEF OriginInv
    <3>2. CASE y \in {x, child} /\ classes'[y] = Inherited(x)
      <4>1. Opened(x, classes'[y].fds[fd].input)
        BY <1>2, <2>5, <3>2
      <4> QED
        BY <2>4, <3>2, <4>1
    <3> QED
      BY <2>3, <3>1, <3>2
  <2> HIDE DEF entry
  <2> QED
    BY <2>1, <2>5, OriginsKept
<1> QED
  BY <1>3, <1>4

LEMMA OriginStep ==
    TypeOK /\ TypeOK' /\ LineageInv /\ OriginInv /\ [Next]_vars => OriginInv'
<1> SUFFICES ASSUME TypeOK, TypeOK', LineageInv, OriginInv, [Next]_vars
             PROVE  OriginInv'
  OBVIOUS
<1>1. CASE UNCHANGED <<parents, classes, activity>>
  BY <1>1 DEF OriginInv, Opened
<1>2. UNCHANGED vars => UNCHANGED <<parents, classes, activity>>
  BY DEF vars, parserVars
<1>3. ASSUME NEW x, NEW fd, NEW after, Untraced(x, fd, after)
      PROVE  UNCHANGED <<parents, classes, activity>>
  BY <1>3 DEF Untraced, parserVars
<1> QED
  BY <1>1, <1>2, <1>3, KindsOfSteps, LineOrigins, CloneOrigins

LEMMA OriginInit == Init => OriginInv
  BY DEF Init, OriginInv, Unseen
-------------------------------------------------------------------------------
(* Evidence                                                                *)

\* A line keeps the evidence sound if what it says is true, and complete if it says
\* all that is.
LEMMA LineEvidence ==
    ASSUME TypeOK, EvidenceInv, NEW x \in Pids, NEW whole \in BOOLEAN, NEW entry,
           NEW evidence, NEW paths, NEW lost, NEW truth,
           Line(x, whole, entry, evidence, paths, lost), Truth(x, truth),
           "misread" \notin gaps' => evidence \ (Mmaps \cup Publications) \subseteq truth,
           Network \in evidence => Network \in truth,
           LinesAreTrue' /\ "stale" \notin gaps' => evidence \cap Mmaps \subseteq truth,
           WritersAreTrue' =>
                /\ evidence \cap Publications \subseteq truth
                /\ \A f \in Files : paths[f] \subseteq authors'[f]
    PROVE  EvidenceInv'
<1>1. activity \in [Pids -> SUBSET Evidence] /\ did \in [Pids -> SUBSET Evidence]
  BY DEF TypeOK
<1>2. /\ gaps \subseteq gaps'
      /\ ~whole => "split" \in gaps' /\ activity' = activity /\ writers' = writers
      /\ whole => writers' = paths
      /\ whole => activity' = [activity EXCEPT ![x] = @ \cup evidence]
      /\ did' = [did EXCEPT ![x] = @ \cup truth]
  <2>1. /\ activity' = [activity EXCEPT ![x] = IF whole THEN @ \cup evidence ELSE @]
        /\ gaps' = gaps \cup lost \cup (IF whole THEN {} ELSE {"split"})
                        \cup (IF whole /\ LateEntry(x, entry) THEN {"lateEntry"} ELSE {})
        /\ writers' = IF whole THEN paths ELSE writers
    BY DEF Line
  <2>2. ~whole => activity' = activity
    BY <1>1, <2>1
  <2> QED
    BY <2>1, <2>2 DEF Truth
<1>3. ASSUME NEW y \in Pids
      PROVE  /\ did[y] \subseteq did'[y]
             /\ y # x \/ ~whole => activity'[y] = activity[y]
             /\ y = x /\ whole => activity'[y] = activity[y] \cup evidence
             /\ y = x => truth \subseteq did'[y]
  BY <1>1, <1>2
<1>4. ASSUME "misread" \notin gaps', NEW y \in Pids
      PROVE  activity'[y] \ (Mmaps \cup Publications) \subseteq did'[y]
  <2>1. activity[y] \ (Mmaps \cup Publications) \subseteq did[y]
    BY <1>2, <1>4 DEF EvidenceInv
  <2> QED
    BY <1>3, <1>4, <2>1
<1>5. ASSUME NEW y \in Pids, Network \in activity'[y]
      PROVE  Network \in did'[y]
  BY <1>3, <1>5 DEF EvidenceInv
<1>6. ASSUME LinesAreTrue', "stale" \notin gaps', NEW y \in Pids
      PROVE  activity'[y] \cap Mmaps \subseteq did'[y]
  <2>1. LinesAreTrue /\ "stale" \notin gaps
    BY <1>2, <1>6 DEF LinesAreTrue
  <2>2. activity[y] \cap Mmaps \subseteq did[y]
    BY <2>1 DEF EvidenceInv
  <2> QED
    BY <1>3, <1>6, <2>2
<1>7. ASSUME WritersAreTrue'
      PROVE  /\ \A y \in Pids : activity'[y] \cap Publications \subseteq did'[y]
             /\ \A f \in Files : writers'[f] \subseteq authors'[f]
  <2>1. WritersAreTrue /\ whole
    BY <1>2, <1>7 DEF WritersAreTrue
  <2>2. \A y \in Pids : activity[y] \cap Publications \subseteq did[y]
    BY <2>1 DEF EvidenceInv
  <2> QED
    BY <1>2, <1>3, <1>7, <2>1, <2>2
<1> QED
  BY <1>4, <1>5, <1>6, <1>7 DEF EvidenceInv

LEMMA LineComplete ==
    ASSUME TypeOK, CompletenessInv, NEW x \in Pids, NEW whole \in BOOLEAN, NEW entry,
           NEW evidence, NEW paths, NEW lost, NEW truth,
           Line(x, whole, entry, evidence, paths, lost), Truth(x, truth),
           NothingLost' => truth \subseteq evidence,
           NothingLost' /\ (\A f \in Files : authors[f] \subseteq writers[f]) =>
                \A f \in Files : authors'[f] \subseteq paths[f],
           UNCHANGED family
    PROVE  CompletenessInv'
<1>1. activity \in [Pids -> SUBSET Evidence] /\ did \in [Pids -> SUBSET Evidence]
  BY DEF TypeOK
<1>2. SUFFICES ASSUME NothingLost'
               PROVE  /\ parents' = family'
                      /\ \A f \in Files : authors'[f] \subseteq writers'[f]
                      /\ \A y \in Pids : did'[y] \subseteq activity'[y]
  BY DEF CompletenessInv
<1>3. NothingLost /\ whole
  BY <1>2 DEF Line, NothingLost, Losses
<1>4. /\ parents = family /\ \A f \in Files : authors[f] \subseteq writers[f]
      /\ \A y \in Pids : did[y] \subseteq activity[y]
  BY <1>3 DEF CompletenessInv
<1>5. /\ parents' = parents /\ writers' = paths
      /\ activity' = [activity EXCEPT ![x] = @ \cup evidence]
      /\ did' = [did EXCEPT ![x] = @ \cup truth]
  BY <1>3 DEF Line, Truth
<1>6. \A y \in Pids : did'[y] \subseteq activity'[y]
  BY <1>1, <1>2, <1>4, <1>5
<1> QED
  BY <1>2, <1>4, <1>5, <1>6

\* A step without evidence.
LEMMA EvidenceUnchanged ==
    ASSUME EvidenceInv, UNCHANGED <<activity, did, writers, authors>>, gaps \subseteq gaps'
    PROVE  EvidenceInv'
<1>1. (LinesAreTrue' => LinesAreTrue) /\ (WritersAreTrue' => WritersAreTrue)
  BY DEF LinesAreTrue, WritersAreTrue
<1> QED
  BY <1>1 DEF EvidenceInv

\* A line without evidence.
LEMMA QuietLineEvidence ==
    ASSUME TypeOK, EvidenceInv, CompletenessInv, NEW x \in Pids, NEW whole \in BOOLEAN,
           NEW entry, Line(x, whole, entry, {}, writers, {}), Truth(x, {}),
           UNCHANGED <<family, authors>>
    PROVE  EvidenceInv' /\ CompletenessInv'
<1>1. EvidenceInv'
  <2>1. CASE whole
    <3>1. gaps \subseteq gaps' /\ UNCHANGED <<writers, activity, did>>
      BY <2>1 DEF Line, Truth, TypeOK
    <3> QED
      BY <3>1, EvidenceUnchanged
  <2>2. CASE ~whole
    <3>1. gaps \subseteq gaps' /\ UNCHANGED <<writers, activity, did>>
      BY <2>2 DEF Line, Truth, TypeOK
    <3> QED
      BY <3>1, EvidenceUnchanged
  <2> QED
    BY <2>1, <2>2
<1>2. CompletenessInv'
  BY LineComplete
<1> QED
  BY <1>1, <1>2

\* The evidence of an open is no other's.
LEMMA OpenEvidenceKinds ==
    ASSUME NEW path \in Files, NEW writing \in BOOLEAN
    PROVE  \A e \in OpenEvidence(path, writing) :
                e # Network /\ e \notin Mmaps /\ e \notin Publications
<1>1. InputOf(path, writing) \in Inputs \cup {"none"}
  BY EvidenceTypes
<1>2. ASSUME NEW e \in OpenEvidence(path, writing)
      PROVE  (e = Did(InputOf(path, writing), "read") /\ e \in Reads) \/ e = OutputWrite
  BY <1>2 DEF OpenEvidence
<1>3. ASSUME NEW input, Did(input, "read") \in Reads
      PROVE  LET e == Did(input, "read")
             IN  e # Network /\ e \notin Mmaps /\ e \notin Publications
  BY <1>3 DEF Did, Reads, Network, Mmaps, Publications
<1>4. OutputWrite # Network /\ OutputWrite \notin Mmaps /\ OutputWrite \notin Publications
  BY DEF Did, Reads, OutputWrite, Network, Mmaps, Publications
<1> QED
  BY <1>2, <1>3, <1>4

LEMMA OpenEvidenceKept ==
    ASSUME TypeOK, EvidenceInv, CompletenessInv, NEW x \in Pids, NEW file \in Files,
           NEW path \in Files, NEW writing \in BOOLEAN, NEW cloexec \in BOOLEAN,
           NEW whole \in BOOLEAN, Open(x, file, path, writing, cloexec, whole)
    PROVE  EvidenceInv' /\ CompletenessInv'
<1> DEFINE class == Classified(InputOf(path, writing), cloexec)
           paths == IF writing /\ Kind[path] # "output"
                    THEN [writers EXCEPT ![path] = @ \cup {x}] ELSE writers
           said == OpenEvidence(path, writing)
           truth == OpenEvidence(file, writing)
           lost == Misread(file, path) \cup IF writing THEN Alias(file, path) ELSE {}
<1>1. /\ authors' = IF writing /\ Kind[file] # "output"
                    THEN [authors EXCEPT ![file] = @ \cup {x}] ELSE authors
      /\ Truth(x, truth) /\ UNCHANGED family
  BY DEF Open
<1>2. writers \in [Files -> SUBSET Pids] /\ authors \in [Files -> SUBSET Pids]
  BY DEF TypeOK
<1>3. lost \cap gaps' = lost /\ gaps \subseteq gaps'
  BY DEF Open, Line
<1>4. "misread" \notin gaps' => said = truth
  <2>1. "misread" \notin gaps' => Kind[path] = Kind[file]
    BY <1>3 DEF Misread
  <2> QED
    BY <2>1 DEF OpenEvidence, InputOf
<1>5. "alias" \notin gaps' => ~writing \/ path = file
  BY <1>3 DEF Alias
<1>6. WritersAreTrue' => \A f \in Files : paths[f] \subseteq authors'[f]
  <2>1. SUFFICES ASSUME WritersAreTrue'
                 PROVE  \A f \in Files : paths[f] \subseteq authors'[f]
    OBVIOUS
  <2>2. WritersAreTrue /\ "alias" \notin gaps'
    BY <1>3, <2>1 DEF WritersAreTrue
  <2>3. \A f \in Files : writers[f] \subseteq authors[f]
    BY <2>2 DEF EvidenceInv
  <2> QED
    BY <1>1, <1>2, <1>5, <2>2, <2>3
<1>7. ASSUME NothingLost', \A f \in Files : authors[f] \subseteq writers[f]
      PROVE  \A f \in Files : authors'[f] \subseteq paths[f]
  <2>1. "alias" \notin gaps'
    BY <1>7 DEF NothingLost, Losses
  <2> QED
    BY <1>1, <1>2, <1>5, <1>7, <2>1
<1>8. \A e \in said : e # Network /\ e \notin Mmaps /\ e \notin Publications
  BY OpenEvidenceKinds
<1>9. NothingLost' => "misread" \notin gaps'
  BY DEF NothingLost, Losses
<1> HIDE DEF class, paths, said, truth, lost
<1>10. PICK fd \in Fds :
        Line(x, whole, Seen([OrDefault(Inherited(x)) EXCEPT ![fd] = class]), said, paths, lost)
  BY DEF Open, class, paths, said, lost
<1>11. EvidenceInv'
  BY <1>1, <1>4, <1>6, <1>8, <1>10, LineEvidence
<1>12. CompletenessInv'
  BY <1>1, <1>4, <1>7, <1>9, <1>10, LineComplete
<1> QED
  BY <1>11, <1>12

\* A mapping is of the input that the descriptor is known to be of.
LEMMA MmapEvidenceKept ==
    ASSUME TypeOK, DescriptorInv, EvidenceInv, CompletenessInv,
           NEW x \in Pids, NEW fd \in Fds, NEW whole \in BOOLEAN, Mmap(x, fd, whole)
    PROVE  EvidenceInv' /\ CompletenessInv'
<1> DEFINE entry == Inherited(x)
           said == {e \in Reads : entry.seen /\ e = Did(entry.fds[fd].input, "mmap")}
           truth == {e \in Reads : e = Did(Descriptor(x, fd).input, "mmap")}
           lost == IF fd \in stale[x] THEN {"stale"} ELSE {}
<1>1. \A e \in said \cup truth : e \in Mmaps /\ e \notin Publications /\ e # Network
  BY DEF Did, Reads, Mmaps, Publications, Inputs, Network
<1>2. \A input : Did(input, "mmap") \in Reads => input # "none"
  BY DEF Did, Reads, Inputs
<1>3. \A e \in said : entry.seen /\ entry.fds[fd].input # "none"
                      /\ e = Did(entry.fds[fd].input, "mmap")
  BY <1>2
<1>4. /\ x \in alive /\ Descriptor(x, fd).open /\ gaps \subseteq gaps'
      /\ "stale" \notin gaps' => fd \notin stale[x]
  BY DEF Mmap, Runs, Line
<1>5. ASSUME LinesAreTrue', "stale" \notin gaps'
      PROVE  table[x] = x /\ TrueOf(Known(x, fd), fds[x][fd]) /\ LinesAreTrue
  <2>1. LinesAreTrue
    BY <1>4, <1>5 DEF LinesAreTrue
  <2> QED
    BY <1>4, <1>5, <2>1 DEF DescriptorInv, KnownIsTrue
<1>6. entry.seen => Known(x, fd) = entry.fds[fd]
  BY DEF Known, OrDefault
<1>7. LinesAreTrue' /\ "stale" \notin gaps' => said \subseteq truth
  <2>1. SUFFICES ASSUME LinesAreTrue', "stale" \notin gaps', NEW e \in said
                 PROVE  e \in truth
    OBVIOUS
  <2>2. entry.fds[fd].input = Descriptor(x, fd).input
    BY <1>3, <1>5, <1>6, <2>1 DEF TrueOf, Descriptor
  <2> QED
    BY <1>3, <2>2
<1>8. NothingLost' => truth \subseteq said
  <2>1. SUFFICES ASSUME NothingLost', NEW e \in truth
                 PROVE  e \in said
    OBVIOUS
  <2>2. LinesAreTrue' /\ "stale" \notin gaps' /\ "cut" \notin gaps /\ fd \notin stale[x]
    BY <1>4, <2>1 DEF NothingLost, Losses, LinesAreTrue
  <2>3. LinesAreTrue /\ table[x] = x
    BY <1>5, <2>2
  <2>4. KnownOf(Known(x, fd), fds[x][fd]) /\ Descriptor(x, fd) = fds[x][fd]
    BY <1>4, <2>2, <2>3 DEF DescriptorInv, TruthIsKnown, Descriptor
  <2>5. Descriptor(x, fd).input # "none" /\ e = Did(Descriptor(x, fd).input, "mmap")
    BY <1>2
  <2>6. Known(x, fd).input = Descriptor(x, fd).input
    BY <1>4, <2>4, <2>5 DEF KnownOf
  <2>7. entry.seen
    BY <2>5, <2>6 DEF Known, OrDefault, Empty, Unclassified
  <2> QED
    BY <1>6, <2>5, <2>6, <2>7
<1>9. /\ Line(x, whole, entry, said, writers, lost) /\ Truth(x, truth)
      /\ UNCHANGED <<family, authors>>
  BY DEF Mmap, kernelVars
<1> HIDE DEF said, truth, entry, lost
<1>10. WritersAreTrue' => \A f \in Files : writers[f] \subseteq authors'[f]
  BY <1>4, <1>9 DEF EvidenceInv, WritersAreTrue
<1>11. EvidenceInv'
  BY <1>1, <1>7, <1>9, <1>10, LineEvidence
<1>12. CompletenessInv'
  BY <1>8, <1>9, LineComplete
<1> QED
  BY <1>11, <1>12

\* More authors and more kin make for more evidence.
LEMMA RenameEvidenceGrows ==
    ASSUME NEW x, NEW destination, NEW few, NEW many, few \subseteq many,
           NEW kin, NEW allKin, kin \subseteq allKin
    PROVE  RenameEvidence(x, destination, few, kin)
               \subseteq RenameEvidence(x, destination, many, allKin)
<1>1. few \cap kin # {} => many \cap allKin # {}
  OBVIOUS
<1> QED
  BY <1>1 DEF RenameEvidence

\* The kin by known creations are kin, and all of them if all creations are known.
LEMMA KinIsTrue ==
    ASSUME TypeOK, LineageInv, NEW x \in Pids
    PROVE  /\ Kin(x) \subseteq TrueKin(x)
           /\ parents = family => TrueKin(x) = Kin(x)
<1>1. parents \in Creators /\ family \in Creators
  BY TypeParts DEF ParserType, KernelType
<1>2. \A a \in Pids : Above(parents, a) \subseteq Above(family, a)
  BY <1>1, AboveMonotone DEF LineageInv
<1> QED
  BY <1>2 DEF Kin, TrueKin, Relatives

\* A file that is renamed by its own name takes its writers along.
LEMMA RenameEvidenceKept ==
    ASSUME TypeOK, LineageInv, EvidenceInv, CompletenessInv,
           NEW x \in Pids, NEW source \in Files, NEW destination \in Files,
           NEW from \in Files, NEW to \in Files, NEW whole \in BOOLEAN,
           Rename(x, source, destination, from, to, whole)
    PROVE  EvidenceInv' /\ CompletenessInv'
<1> DEFINE kin == Kin(x)
           said == RenameEvidence(x, to, writers[from], kin)
           truth == RenameEvidence(x, destination, authors[source], TrueKin(x))
           lost == Alias(source, from) \cup Alias(destination, to)
                        \cup IF authors[destination] # {} THEN {"overwritten"} ELSE {}
           paths == WritersMoved(from, to)
<1>1. /\ writers \in [Files -> SUBSET Pids] /\ authors \in [Files -> SUBSET Pids]
      /\ source # destination
      /\ authors' = [authors EXCEPT ![destination] = authors[source], ![source] = {}]
  BY DEF TypeOK, Rename
<1>2. /\ Line(x, whole, Inherited(x), said, paths, lost) /\ Truth(x, truth)
      /\ UNCHANGED family
  BY DEF Rename
<1>3. gaps \subseteq gaps' /\ lost \subseteq gaps'
  BY <1>2 DEF Line
<1>4. said \subseteq Publications
  BY DEF RenameEvidence, Did, Publications
<1>5. "alias" \notin gaps' => from = source /\ to = destination
  BY <1>3 DEF Alias
<1>6. ASSUME "alias" \notin gaps'
      PROVE  \A f \in Files : paths[f] =
                IF f = source THEN {}
                ELSE IF f = destination THEN writers[destination] \cup writers[source]
                ELSE writers[f]
  BY <1>1, <1>5, <1>6 DEF WritersMoved
<1>7. \A f \in Files : authors'[f] =
          IF f = source THEN {} ELSE IF f = destination THEN authors[source] ELSE authors[f]
  BY <1>1
<1>8. ASSUME WritersAreTrue'
      PROVE  said \subseteq truth /\ \A f \in Files : paths[f] \subseteq authors'[f]
  <2>1. /\ WritersAreTrue /\ "alias" \notin gaps' /\ authors[destination] = {}
    BY <1>3, <1>8 DEF WritersAreTrue
  <2>2. \A f \in Files : writers[f] \subseteq authors[f]
    BY <2>1 DEF EvidenceInv
  <2>3. said \subseteq truth
    <3>1. kin \subseteq TrueKin(x)
      BY KinIsTrue
    <3> HIDE DEF kin
    <3> QED
      BY <1>5, <2>1, <2>2, <3>1, RenameEvidenceGrows
  <2> HIDE DEF paths
  <2>4. \A f \in Files : paths[f] \subseteq authors'[f]
    BY <1>6, <1>7, <2>1, <2>2
  <2> QED
    BY <2>3, <2>4
<1>9. ASSUME NothingLost'
      PROVE  /\ truth \subseteq said
             /\ (\A f \in Files : authors[f] \subseteq writers[f])
                    => \A f \in Files : authors'[f] \subseteq paths[f]
  <2>1. NothingLost /\ "alias" \notin gaps'
    BY <1>3, <1>9 DEF NothingLost, Losses
  <2>2. parents = family /\ authors[source] \subseteq writers[source]
    BY <2>1 DEF CompletenessInv
  <2>3. truth \subseteq said
    <3>1. TrueKin(x) \subseteq kin
      BY <2>2, KinIsTrue
    <3> HIDE DEF kin
    <3> QED
      BY <1>5, <2>1, <2>2, <3>1, RenameEvidenceGrows
  <2> HIDE DEF paths
  <2> QED
    BY <1>6, <1>7, <2>1, <2>3
<1>10. \A e \in said : e \notin Mmaps /\ e # Network
  BY <1>4 DEF Publications, Mmaps, Reads, Inputs, Network, Did
<1> HIDE DEF said, truth, lost, paths
<1>11. EvidenceInv'
  BY <1>2, <1>4, <1>8, <1>10, LineEvidence
<1>12. CompletenessInv'
  BY <1>2, <1>9, LineComplete
<1> QED
  BY <1>11, <1>12

\* A file that had no authors leaves none behind.
LEMMA UnlinkEvidenceKept ==
    ASSUME TypeOK, EvidenceInv, CompletenessInv, NEW x \in Pids, NEW file \in Files,
           NEW whole \in BOOLEAN, Unlink(x, file, whole)
    PROVE  EvidenceInv' /\ CompletenessInv'
<1> DEFINE lost == IF authors[file] # {} THEN {"removed"} ELSE {}
<1>1. /\ Line(x, whole, Inherited(x), {}, writers, lost) /\ Truth(x, {})
      /\ authors' = [authors EXCEPT ![file] = {}] /\ UNCHANGED family
  BY DEF Unlink
<1>2. gaps \subseteq gaps' /\ lost \subseteq gaps'
  BY <1>1 DEF Line
<1>3. authors \in [Files -> SUBSET Pids]
  BY DEF TypeOK
<1>4. \A f \in Files : authors'[f] = IF f = file THEN {} ELSE authors[f]
  BY <1>1, <1>3
<1>5. WritersAreTrue' => \A f \in Files : writers[f] \subseteq authors'[f]
  <2>1. SUFFICES ASSUME WritersAreTrue'
                 PROVE  \A f \in Files : writers[f] \subseteq authors'[f]
    OBVIOUS
  <2>2. WritersAreTrue /\ authors[file] = {}
    BY <1>2, <2>1 DEF WritersAreTrue
  <2>3. \A f \in Files : writers[f] \subseteq authors[f]
    BY <2>2 DEF EvidenceInv
  <2> QED
    BY <1>4, <2>2, <2>3
<1> HIDE DEF lost
<1>6. EvidenceInv'
  BY <1>1, <1>5, LineEvidence
<1>7. (\A f \in Files : authors[f] \subseteq writers[f])
          => \A f \in Files : authors'[f] \subseteq writers[f]
  BY <1>4
<1>8. CompletenessInv'
  BY <1>1, <1>7, LineComplete
<1> QED
  BY <1>6, <1>8

LEMMA ConnectEvidenceKept ==
    ASSUME TypeOK, EvidenceInv, CompletenessInv, NEW x \in Pids, NEW scope \in TracedScopes,
           NEW completes \in BOOLEAN, NEW whole \in BOOLEAN,
           Connect(x, scope, completes, whole)
    PROVE  EvidenceInv' /\ CompletenessInv'
<1> DEFINE truth == IF scope \in NonlocalScopes THEN {Network} ELSE {}
           said == IF completes THEN truth ELSE {}
           lost == IF truth # {} /\ ~completes THEN {"inProgress"} ELSE {}
<1>1. /\ Line(x, whole, Inherited(x), said, writers, lost) /\ Truth(x, truth)
      /\ UNCHANGED <<family, authors>>
  BY DEF Connect, kernelVars
<1>2. said \subseteq truth /\ gaps \subseteq gaps' /\ lost \subseteq gaps'
  BY <1>1 DEF Line
<1>3. NothingLost' => truth \subseteq said
  BY <1>2 DEF NothingLost, Losses
<1> HIDE DEF said, truth, lost
<1>4. WritersAreTrue' => \A f \in Files : writers[f] \subseteq authors'[f]
  BY <1>1, <1>2 DEF EvidenceInv, WritersAreTrue
<1>5. EvidenceInv'
  BY <1>1, <1>2, <1>4, LineEvidence
<1>6. CompletenessInv'
  BY <1>1, <1>3, LineComplete
<1> QED
  BY <1>5, <1>6

LEMMA CallEvidence ==
    ASSUME TypeOK, LineageInv, DescriptorInv, EvidenceInv, CompletenessInv,
           NEW x \in Pids, Call(x)
    PROVE  EvidenceInv' /\ CompletenessInv'
<1>1. ASSUME NEW fd, NEW whole \in BOOLEAN, Close(x, fd, whole)
      PROVE  EvidenceInv' /\ CompletenessInv'
  BY <1>1, QuietLineEvidence DEF Close
<1>2. ASSUME NEW old, NEW new, NEW cloexec,
             NEW whole \in BOOLEAN, NEW long \in BOOLEAN,
             Duplicate(x, old, new, cloexec, whole, long)
      PROVE  EvidenceInv' /\ CompletenessInv'
  <2> DEFINE known == OrDefault(Inherited(x))
             entry == IF long
                      THEN Seen([known EXCEPT ![new] = Classified(known[old].input, cloexec)])
                      ELSE Inherited(x)
  <2>1. Line(x, whole, entry, {}, writers, {}) /\ Truth(x, {}) /\ UNCHANGED <<family, authors>>
    BY <1>2 DEF Duplicate
  <2> HIDE DEF entry
  <2> QED
    BY <2>1, QuietLineEvidence
<1>3. ASSUME NEW fd, NEW cloexec, NEW whole \in BOOLEAN,
             NEW long \in BOOLEAN, SetCloexec(x, fd, cloexec, whole, long)
      PROVE  EvidenceInv' /\ CompletenessInv'
  <2> DEFINE entry == IF long /\ Inherited(x).seen /\ Inherited(x).fds[fd].input # "none"
                      THEN Seen([Inherited(x).fds EXCEPT ![fd].cloexec = cloexec])
                      ELSE Inherited(x)
  <2>1. Line(x, whole, entry, {}, writers, {}) /\ Truth(x, {}) /\ UNCHANGED <<family, authors>>
    BY <1>3 DEF SetCloexec
  <2> HIDE DEF entry
  <2> QED
    BY <2>1, QuietLineEvidence
<1>4. ASSUME NEW whole \in BOOLEAN, NEW at \in BOOLEAN, Exec(x, whole, at)
      PROVE  EvidenceInv' /\ CompletenessInv'
  <2> DEFINE entry == IF at THEN Inherited(x) ELSE AfterExec(Inherited(x))
  <2>1. Line(x, whole, entry, {}, writers, {}) /\ Truth(x, {}) /\ UNCHANGED <<family, authors>>
    BY <1>4 DEF Exec
  <2> HIDE DEF entry
  <2> QED
    BY <2>1, QuietLineEvidence
<1>5. ASSUME FailedCall(x)
      PROVE  EvidenceInv' /\ CompletenessInv'
  <2>1. PICK whole \in BOOLEAN :
            Line(x, whole, Inherited(x), {}, writers, {}) /\ Truth(x, {})
    BY <1>5, Zenon DEF FailedCall
  <2>2. UNCHANGED <<family, authors>>
    BY <1>5 DEF FailedCall, kernelVars
  <2> QED
    BY <2>1, <2>2, QuietLineEvidence
<1> QED
  BY <1>1, <1>2, <1>3, <1>4, <1>5, OpenEvidenceKept, MmapEvidenceKept, RenameEvidenceKept,
     UnlinkEvidenceKept, ConnectEvidenceKept DEF Call

LEMMA EvidenceStep ==
    TypeOK /\ LineageInv /\ DescriptorInv /\ EvidenceInv /\ CompletenessInv /\ [Next]_vars
        => EvidenceInv' /\ CompletenessInv'
<1> SUFFICES ASSUME TypeOK, LineageInv, DescriptorInv, EvidenceInv, CompletenessInv,
                    [Next]_vars
             PROVE  EvidenceInv' /\ CompletenessInv'
  OBVIOUS
<1>1. ASSUME UNCHANGED <<activity, did, writers, authors, parents, family>>, gaps \subseteq gaps'
      PROVE  EvidenceInv' /\ CompletenessInv'
  <2>1. NothingLost' => NothingLost
    BY <1>1 DEF NothingLost
  <2> QED
    BY <1>1, <2>1, EvidenceUnchanged DEF CompletenessInv
<1>2. CASE UNCHANGED vars
  BY <1>1, <1>2 DEF vars, kernelVars, parserVars
<1>3. ASSUME NEW x \in Pids, NEW fd, NEW after, Untraced(x, fd, after)
      PROVE  EvidenceInv' /\ CompletenessInv'
  BY <1>1, <1>3 DEF Untraced, parserVars
<1>4. ASSUME NEW x \in Pids, CloneReturns(x)
      PROVE  EvidenceInv' /\ CompletenessInv'
  BY <1>1, <1>4 DEF CloneReturns
<1>5. ASSUME NEW x \in Pids, NEW child \in Pids, NEW threads \in BOOLEAN,
             NEW known \in BOOLEAN, Clone(x, child, threads, known)
      PROVE  EvidenceInv' /\ CompletenessInv'
  <2>1. UNCHANGED <<activity, did, writers, authors>> /\ gaps \subseteq gaps'
    BY <1>5 DEF Clone
  <2>2. ASSUME NothingLost'
        PROVE  parents' = family' /\ NothingLost
    <3>1. known /\ NothingLost
      BY <1>5, <2>2 DEF Clone, NothingLost, Losses
    <3>2. parents = family
      BY <3>1 DEF CompletenessInv
    <3> QED
      BY <1>5, <3>1, <3>2 DEF Clone
  <2> QED
    BY <2>1, <2>2, EvidenceUnchanged DEF CompletenessInv
<1> QED
  BY <1>2, <1>3, <1>4, <1>5, NextIsCall, CallEvidence

LEMMA EvidenceInit == Init => EvidenceInv /\ CompletenessInv
  BY DEF Init, EvidenceInv, CompletenessInv

\* The creations that the pre-pass of `parse_process_trace` finds are real; what the
\* parser goes by is true of every descriptor whose last change it learned of, and goes
\* back to an open; and what it counts happened, as far as the names in the lines are
\* those of the files.
THEOREM TraceInvariant == Spec => [](TypeOK /\ TraceInv)
<1>1. Init => TypeOK /\ TraceInv
  BY TypeInit, LineageInit, DescriptorInit, OriginInit, EvidenceInit DEF TraceInv
<1>2. TypeOK /\ TraceInv /\ [Next]_vars => TypeOK' /\ TraceInv'
  BY TypeStep, LineageStep, DescriptorStep, OriginStep, EvidenceStep DEF TraceInv
<1> QED
  BY <1>1, <1>2, PTL DEF Spec

-------------------------------------------------------------------------------
(* The properties of the summary                                           *)

\* A process is said to have mapped an input only if it has, as long as the mapping goes
\* through no descriptor whose change the parser missed; whatever was missed, it or an
\* ancestor is said to have opened such an input; and no traffic is made up.
THEOREM InputEvidenceIsTrue == Spec => []InputEvidenceIsReal
<1>1. TypeOK /\ TraceInv => InputEvidenceIsReal
  <2> SUFFICES ASSUME TypeOK, TraceInv
               PROVE  InputEvidenceIsReal
    OBVIOUS
  <2>1. SuccessfulNonlocalEvents => \E q \in Pids : Network \in did[q]
    BY DEF SuccessfulNonlocalEvents, HasNetwork, TraceInv, EvidenceInv
  <2>2. ASSUME NEW p \in Pids, gaps \cap {"threads", "lateEntry", "stale", "misread"} = {}
        PROVE  activity[p] \cap Mmaps \subseteq did[p]
    <3>1. LinesAreTrue /\ "stale" \notin gaps
      BY <2>2 DEF LinesAreTrue
    <3> QED
      BY <3>1 DEF TraceInv, EvidenceInv
  <2>3. ASSUME NEW p \in Pids, NEW e \in activity[p] \cap Mmaps
        PROVE  \E a \in TrueAncestors(p) \cup {p} : Did(e.what, "read") \in activity[a]
    <3>1. PICK a \in Above(parents, p) \cup {p} : Did(e.what, "read") \in activity[a]
      BY <2>3 DEF TraceInv, OriginInv, Opened, OpenedBy
    <3>2. parents \in Creators /\ family \in Creators
      BY TypeParts DEF ParserType, KernelType
    <3>3. Above(parents, p) \subseteq Above(family, p)
      BY <3>2, AboveMonotone DEF TraceInv, LineageInv
    <3> QED
      BY <3>1, <3>3 DEF TrueAncestors
  <2>4. \A p \in Pids : "misread" \notin gaps
            => activity[p] \ (Mmaps \cup Publications) \subseteq did[p]
    BY DEF TraceInv, EvidenceInv
  <2> QED
    BY <2>1, <2>2, <2>3, <2>4 DEF InputEvidenceIsReal
<1> QED
  BY <1>1, TraceInvariant, PTL

\* A publication is laid to a process that wrote the file, or to its kin, unless the
\* name of an earlier file was taken over, outlived that file or stood for another one.
THEOREM PublicationIsTrue == Spec => []PublicationIsReal
<1>1. TypeOK /\ TraceInv => PublicationIsReal
  BY DEF PublicationIsReal, TraceInv, EvidenceInv, WritersAreTrue
<1> QED
  BY <1>1, TraceInvariant, PTL

\* A trace without losses misses no evidence.
THEOREM EvidenceIsWhole == Spec => []EvidenceIsComplete
<1>1. TypeOK /\ TraceInv => EvidenceIsComplete
  BY DEF EvidenceIsComplete, TraceInv, CompletenessInv, NothingLost
<1> QED
  BY <1>1, TraceInvariant, PTL

\* The process graph of `relevant_pids` is closed under parents, `lineage_depth` grows
\* by one along it, and who is called an ancestor of an output is one.
THEOREM LineageIsTrue == Spec => []LineageIsReal
<1>1. TypeOK /\ TraceInv => LineageIsReal
  <2> SUFFICES ASSUME TypeOK, TraceInv
               PROVE  LineageIsReal
    OBVIOUS
  <2>1. /\ parents \in Creators /\ family \in Creators /\ Acyclic(parents)
        /\ \A x \in Pids : parents[x] # NoPid => parents[x] = family[x]
        /\ \A x \in Pids : Network \in activity[x] => Network \in did[x]
    BY TypeParts DEF ParserType, KernelType, TraceInv, LineageInv, EvidenceInv
  <2>2. Active \subseteq Pids
    BY DEF Active
  <2>3. \A x \in Pids : Above(parents, x) \subseteq Pids
    BY <2>1, AboveClosed
  <2>4. Relevant \subseteq Pids
    BY <2>2, <2>3 DEF Relevant, Ancestors
  <2>5. ASSUME NEW p \in Relevant, parents[p] # NoPid
        PROVE  /\ ParentProcess(p) = family[p]
               /\ LineageDepth(p) = LineageDepth(ParentProcess(p)) + 1
    <3>1. p \in Pids /\ parents[p] \in Above(parents, p) /\ parents[p] # p
      BY <2>1, <2>4, <2>5, AboveOfChild
    <3>2. parents[p] \in Relevant
      <4>1. CASE p \in Active
        BY <3>1, <4>1 DEF Relevant, Ancestors
      <4>2. CASE p \notin Active
        <5>1. PICK a \in Active : p \in Above(parents, a)
          BY <2>5, <4>2 DEF Relevant, Ancestors
        <5>2. parents[p] \in Above(parents, a) \cup {a}
          BY <2>1, <2>2, <2>5, <5>1, AboveClosed DEF UpClosed
        <5> QED
          BY <5>1, <5>2 DEF Relevant, Ancestors
      <4> QED
        BY <4>1, <4>2
    <3>3. ParentProcess(p) = parents[p]
      BY <3>2 DEF ParentProcess
    <3>4. LineageDepth(p) = LineageDepth(parents[p]) + 1
      BY <2>1, <2>5, <3>1, DepthGrows DEF LineageDepth, Ancestors
    <3> QED
      BY <2>1, <2>5, <3>1, <3>3, <3>4
  <2>6. \A x \in Pids : Ancestors(x) \subseteq TrueAncestors(x)
    BY <2>1, AboveMonotone DEF Ancestors, TrueAncestors
  <2>7. \A input \in Inputs : \A p \in AncestorInputOutput(input) :
            \E a \in TrueAncestors(p) : \E e \in activity[a] \cap Reads : e.what = input
    BY <2>4, <2>6 DEF AncestorInputOutput, HasInput
  <2>8. \A p \in AncestorNetworkCacheOutput : \E a \in TrueAncestors(p) : Network \in did[a]
    <3>1. ASSUME NEW p \in AncestorNetworkCacheOutput
          PROVE  \E a \in TrueAncestors(p) : Network \in did[a]
      <4>1. p \in Pids
        BY <2>4 DEF AncestorNetworkCacheOutput, AncestorInputOutput
      <4>2. PICK a \in Ancestors(p) : HasNetwork(a)
        BY DEF AncestorNetworkCacheOutput
      <4>3. a \in Pids /\ a \in TrueAncestors(p)
        BY <2>3, <2>6, <4>1 DEF Ancestors
      <4>4. Network \in did[a]
        BY <2>1, <4>2, <4>3 DEF HasNetwork
      <4> QED
        BY <4>3, <4>4
    <3> QED
      BY <3>1
  <2> QED
    BY <2>5, <2>7, <2>8 DEF LineageIsReal
<1> QED
  BY <1>1, TraceInvariant, PTL
===============================================================================
