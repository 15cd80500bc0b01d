----------------------- MODULE MaildropSession_proofs ----------------------
(***************************************************************************)
(* A session's message manager over a maildrop of any number of files of   *)
(* any size: the counters kept by hand are those of the listing, and the   *)
(* session is one of RFC 1939.  What the sums of the model are is proved   *)
(* first; they are folds that choose their elements in any order.          *)
(***************************************************************************)
EXTENDS MaildropSession, TLAPS, WellFoundedInduction, FiniteSetTheorems, SequenceTheorems

\* Induction over the numbers, said of a set.
LEMMA NumberInduction ==
    ASSUME NEW S, 0 \in S, \A n \in Nat : n \in S => n + 1 \in S
    PROVE  Nat \subseteq S
<1>. DEFINE R == {ss \in Nat \X Nat : ss[1] < ss[2]}
            D == Nat \ S
<1>1. IsWellFoundedOn(R, Nat)
  BY NatLessThanWellFounded DEF OpToRel
<1>. HIDE DEF R
<1>2. SUFFICES ASSUME D # {} PROVE FALSE
  OBVIOUS
<1>3. D \in SUBSET Nat
  OBVIOUS
<1>. HIDE DEF D
<1>4. PICK x \in D : \A y \in D : ~(<<y, x>> \in R)
  BY <1>1, <1>2, <1>3, WFMin
<1>. USE DEF D
<1>5. x \in Nat /\ x # 0 /\ x - 1 \in Nat /\ (x - 1) + 1 = x
  OBVIOUS
<1>6. x - 1 \in D
  BY <1>5
<1>7. <<x - 1, x>> \in R
  BY <1>5 DEF R
<1>. QED BY <1>4, <1>6, <1>7

\* Taking one element out of a finite set.
LEMMA OneLess ==
    ASSUME NEW s, IsFiniteSet(s), NEW x \in s, NEW n \in Nat, Cardinality(s) = n + 1
    PROVE  IsFiniteSet(s \ {x}) /\ Cardinality(s \ {x}) = n
<1>1. IsFiniteSet(s \ {x}) /\ Cardinality(s \ {x}) = Cardinality(s) - 1
  BY FS_RemoveElement
<1>. QED BY <1>1

\* A set with elements is not empty.
LEMMA NotEmpty ==
    ASSUME NEW s, NEW n \in Nat, Cardinality(s) = n + 1
    PROVE  s # {}
<1>1. SUFFICES ASSUME s = {} PROVE FALSE
  OBVIOUS
<1>2. Cardinality({}) = 0
  BY FS_EmptySet
<1>. QED BY <1>1, <1>2

\* Induction over the subsets of a finite set, said of a set of sets.
LEMMA SubsetInduction ==
    ASSUME NEW U, IsFiniteSet(U), NEW T, {} \in T,
           \A s \in SUBSET U : \A x \in U \ s : s \in T => s \cup {x} \in T
    PROVE  SUBSET U \subseteq T
<1>. DEFINE N == {n \in Nat : \A s \in SUBSET U : Cardinality(s) = n => s \in T}
<1>1. 0 \in N
  <2>. SUFFICES ASSUME NEW s \in SUBSET U, Cardinality(s) = 0 PROVE s \in T
    OBVIOUS
  <2>1. IsFiniteSet(s)
    BY FS_Subset
  <2>. QED BY <2>1, FS_EmptySet
<1>2. ASSUME NEW n \in Nat, n \in N PROVE n + 1 \in N
  <2>. SUFFICES ASSUME NEW s \in SUBSET U, Cardinality(s) = n + 1 PROVE s \in T
    OBVIOUS
  <2>1. IsFiniteSet(s)
    BY FS_Subset
  <2>2. PICK x \in s : TRUE
    BY NotEmpty
  <2>3. Cardinality(s \ {x}) = n
    BY <2>1, <2>2, OneLess
  <2>4. s \ {x} \in T
    BY <1>2, <2>3
  <2>5. (s \ {x}) \cup {x} \in T
    BY <2>2, <2>4
  <2>6. (s \ {x}) \cup {x} = s
    BY <2>2
  <2>. QED BY <2>5, <2>6
<1>. HIDE DEF N
<1>3. Nat \subseteq N
  BY <1>1, <1>2, NumberInduction
<1>. SUFFICES ASSUME NEW s \in SUBSET U PROVE s \in T
  OBVIOUS
<1>4. Cardinality(s) \in Nat
  BY FS_Subset, FS_CardinalityType
<1>. QED BY <1>3, <1>4 DEF N

----------------------------------------------------------------------------
(* Sums *)

Pick(s) == CHOOSE x \in s : TRUE

SumStep(f, w, s) == IF s = {} THEN 0 ELSE w[Pick(s)] + f[s \ {Pick(s)}]

IsSum(f, w, S) == f = [s \in SUBSET S |-> SumStep(f, w, s)]

\* The sum of w over the set S.
SumOver(w, S) == (CHOOSE f : IsSum(f, w, S))[S]

\* What is picked is in the set.
LEMMA PickIn == ASSUME NEW s, s # {} PROVE Pick(s) \in s
BY DEF Pick

\* The recursive function exists: it is built by the size of its arguments.
LEMMA SumExists ==
    ASSUME NEW S, IsFiniteSet(S), NEW w
    PROVE  \E f : IsSum(f, w, S)
<1>. DEFINE Upto(n) == {s \in SUBSET S : Cardinality(s) =< n}
            N == {n \in Nat : \E f : f = [s \in Upto(n) |-> SumStep(f, w, s)]}
<1>0. \A s \in SUBSET S : IsFiniteSet(s) /\ Cardinality(s) \in Nat /\ Cardinality(s) =< Cardinality(S)
  BY FS_Subset, FS_CardinalityType
<1>1. 0 \in N
  <2>. DEFINE f == [s \in Upto(0) |-> 0]
  <2>1. \A s \in Upto(0) : s = {}
    BY <1>0, FS_EmptySet
  <2>2. f = [s \in Upto(0) |-> SumStep(f, w, s)]
    BY <2>1 DEF SumStep
  <2>. QED BY <2>2
<1>2. ASSUME NEW n \in Nat, n \in N PROVE n + 1 \in N
  <2>1. PICK f : f = [s \in Upto(n) |-> SumStep(f, w, s)]
    BY <1>2
  <2>. DEFINE g == [s \in Upto(n + 1) |-> SumStep(f, w, s)]
  <2>2. ASSUME NEW s \in Upto(n + 1), s # {}
        PROVE  s \ {Pick(s)} \in Upto(n) /\ s \ {Pick(s)} \in Upto(n + 1)
    <3>1. Cardinality(s \ {Pick(s)}) = Cardinality(s) - 1
      BY <1>0, <2>2, PickIn, FS_RemoveElement
    <3>2. Cardinality(s) \in Nat /\ Cardinality(s) =< n + 1
      BY <1>0
    <3>. QED BY <3>1, <3>2
  <2>3. \A s \in Upto(n) : g[s] = f[s]
    <3>. TAKE s \in Upto(n)
    <3>1. s \in Upto(n + 1)
      BY <1>0
    <3>2. f[s] = SumStep(f, w, s)
      BY <2>1
    <3>. QED BY <3>1, <3>2
  <2>. HIDE DEF g, Upto
  <2>4. \A s \in Upto(n + 1) : SumStep(g, w, s) = SumStep(f, w, s)
    BY <2>2, <2>3 DEF SumStep
  <2>5. g = [s \in Upto(n + 1) |-> SumStep(g, w, s)]
    BY <2>4 DEF g
  <2>. QED BY <2>5
<1>. HIDE DEF N
<1>3. Nat \subseteq N
  BY <1>1, <1>2, NumberInduction
<1>4. Cardinality(S) \in N
  BY <1>3, FS_CardinalityType
<1>5. Upto(Cardinality(S)) = SUBSET S
  BY <1>0
<1>. QED BY <1>4, <1>5 DEF N, IsSum

\* Whatever element is taken at each step, two such functions are the same
\* where they are both defined, when the steps take the same elements.
LEMMA SumUnique ==
    ASSUME NEW U, IsFiniteSet(U), NEW w, NEW A \in SUBSET U, NEW B \in SUBSET U,
           NEW f, IsSum(f, w, A), NEW g, IsSum(g, w, B)
    PROVE  \A s \in SUBSET U : s \subseteq A /\ s \subseteq B => f[s] = g[s]
<1>. DEFINE N == {n \in Nat : \A s \in SUBSET U :
                      Cardinality(s) = n /\ s \subseteq A /\ s \subseteq B => f[s] = g[s]}
<1>0. \A s \in SUBSET U : IsFiniteSet(s) /\ Cardinality(s) \in Nat
  BY FS_Subset, FS_CardinalityType
<1>a. \A s \in SUBSET A : f[s] = SumStep(f, w, s)
  BY DEF IsSum
<1>b. \A s \in SUBSET B : g[s] = SumStep(g, w, s)
  BY DEF IsSum
<1>1. 0 \in N
  <2>. SUFFICES ASSUME NEW s \in SUBSET U, Cardinality(s) = 0, s \subseteq A, s \subseteq B
                PROVE f[s] = g[s]
    OBVIOUS
  <2>1. s = {}
    BY <1>0, FS_EmptySet
  <2>. QED BY <1>a, <1>b, <2>1 DEF SumStep
<1>2. ASSUME NEW n \in Nat, n \in N PROVE n + 1 \in N
  <2>. SUFFICES ASSUME NEW s \in SUBSET U, Cardinality(s) = n + 1, s \subseteq A, s \subseteq B
                PROVE f[s] = g[s]
    BY <1>2
  <2>1. s # {}
    BY NotEmpty
  <2>2. Cardinality(s \ {Pick(s)}) = n
    BY <1>0, <2>1, PickIn, OneLess
  <2>3. f[s \ {Pick(s)}] = g[s \ {Pick(s)}]
    BY <1>2, <2>2
  <2>4. f[s] = SumStep(f, w, s) /\ g[s] = SumStep(g, w, s)
    BY <1>a, <1>b
  <2>. QED BY <2>1, <2>3, <2>4 DEF SumStep
<1>. HIDE DEF N
<1>3. Nat \subseteq N
  BY <1>1, <1>2, NumberInduction
<1>. QED BY <1>0, <1>3 DEF N

\* A sum is the value of a function that adds up.
LEMMA SumOverIs ==
    ASSUME NEW S, IsFiniteSet(S), NEW w
    PROVE  \E f : IsSum(f, w, S) /\ SumOver(w, S) = f[S]
<1>1. \E f : IsSum(f, w, S)
  BY SumExists, Zenon
<1>. QED BY <1>1 DEF SumOver

\* The sum without the element picked, and that element.
LEMMA SumOverRec ==
    ASSUME NEW S, IsFiniteSet(S), NEW w
    PROVE  SumOver(w, S) = IF S = {} THEN 0 ELSE w[Pick(S)] + SumOver(w, S \ {Pick(S)})
<1>1. PICK f : IsSum(f, w, S) /\ SumOver(w, S) = f[S]
  BY SumOverIs, Zenon
<1>2. f[S] = SumStep(f, w, S)
  BY <1>1 DEF IsSum
<1>. DEFINE R == S \ {Pick(S)}
<1>3. IsFiniteSet(R) /\ R \in SUBSET S
  BY FS_Subset
<1>. HIDE DEF R
<1>4. PICK g : IsSum(g, w, R) /\ SumOver(w, R) = g[R]
  BY <1>3, SumOverIs, Zenon
<1>5. f[R] = g[R]
  <2>1. S \in SUBSET S /\ R \subseteq S /\ R \subseteq R
    BY <1>3
  <2>. QED BY <1>1, <1>3, <1>4, <2>1, SumUnique
<1>. QED BY <1>1, <1>2, <1>4, <1>5 DEF SumStep, R

\* Sums of integers are integers.
LEMMA SumOverType ==
    ASSUME NEW U, IsFiniteSet(U), NEW w, \A x \in U : w[x] \in Int
    PROVE  \A s \in SUBSET U : SumOver(w, s) \in Int
<1>. DEFINE N == {n \in Nat : \A s \in SUBSET U : Cardinality(s) = n => SumOver(w, s) \in Int}
<1>0. \A s \in SUBSET U : IsFiniteSet(s) /\ Cardinality(s) \in Nat
  BY FS_Subset, FS_CardinalityType
<1>1. 0 \in N
  <2>. SUFFICES ASSUME NEW s \in SUBSET U, Cardinality(s) = 0 PROVE SumOver(w, s) \in Int
    OBVIOUS
  <2>1. s = {} /\ IsFiniteSet(s)
    BY <1>0, FS_EmptySet
  <2>2. SumOver(w, s) = 0
    BY <2>1, SumOverRec
  <2>. QED BY <2>2
<1>2. ASSUME NEW n \in Nat, n \in N PROVE n + 1 \in N
  <2>. SUFFICES ASSUME NEW s \in SUBSET U, Cardinality(s) = n + 1 PROVE SumOver(w, s) \in Int
    OBVIOUS
  <2>1. s # {} /\ IsFiniteSet(s)
    BY <1>0, NotEmpty
  <2>2. Cardinality(s \ {Pick(s)}) = n
    BY <2>1, PickIn, OneLess
  <2>3. SumOver(w, s \ {Pick(s)}) \in Int /\ w[Pick(s)] \in Int
    BY <1>2, <2>1, <2>2, PickIn
  <2>4. SumOver(w, s) = w[Pick(s)] + SumOver(w, s \ {Pick(s)})
    BY <2>1, SumOverRec
  <2>. QED BY <2>3, <2>4
<1>. HIDE DEF N
<1>3. Nat \subseteq N
  BY <1>1, <1>2, NumberInduction
<1>. QED BY <1>0, <1>3 DEF N

\* Any element may be taken out first: addition does not mind the order.
LEMMA SumRemove ==
    ASSUME NEW U, IsFiniteSet(U), NEW w, \A x \in U : w[x] \in Int
    PROVE  \A s \in SUBSET U : \A x \in s : SumOver(w, s) = w[x] + SumOver(w, s \ {x})
<1>. DEFINE N == {n \in Nat : \A s \in SUBSET U : \A x \in s :
                      Cardinality(s) = n => SumOver(w, s) = w[x] + SumOver(w, s \ {x})}
<1>0. \A s \in SUBSET U : IsFiniteSet(s) /\ Cardinality(s) \in Nat /\ SumOver(w, s) \in Int
  BY FS_Subset, FS_CardinalityType, SumOverType
<1>1. 0 \in N
  <2>. SUFFICES ASSUME NEW s \in SUBSET U, NEW x \in s, Cardinality(s) = 0 PROVE FALSE
    OBVIOUS
  <2>. QED BY <1>0, FS_EmptySet
<1>2. ASSUME NEW n \in Nat, n \in N PROVE n + 1 \in N
  <2>. SUFFICES ASSUME NEW s \in SUBSET U, NEW x \in s, Cardinality(s) = n + 1
                PROVE SumOver(w, s) = w[x] + SumOver(w, s \ {x})
    OBVIOUS
  <2>1. PICK c : c = Pick(s)
    OBVIOUS
  <2>2. c \in s /\ IsFiniteSet(s)
    BY <1>0, <2>1, PickIn
  <2>3. SumOver(w, s) = w[c] + SumOver(w, s \ {c})
    BY <2>1, <2>2, SumOverRec
  <2>4. CASE x = c
    BY <2>3, <2>4
  <2>5. CASE x # c
    <3>1. Cardinality(s \ {c}) = n /\ Cardinality(s \ {x}) = n
      BY <2>2, OneLess
    <3>2. SumOver(w, s \ {c}) = w[x] + SumOver(w, (s \ {c}) \ {x})
      BY <1>2, <2>2, <2>5, <3>1
    <3>3. SumOver(w, s \ {x}) = w[c] + SumOver(w, (s \ {x}) \ {c})
      BY <1>2, <2>2, <2>5, <3>1
    <3>4. (s \ {c}) \ {x} = (s \ {x}) \ {c}
      OBVIOUS
    <3>5. PICK k : k = SumOver(w, (s \ {x}) \ {c})
      OBVIOUS
    <3>6. k \in Int /\ w[x] \in Int /\ w[c] \in Int
      BY <1>0, <2>2, <3>5
    <3>7. SumOver(w, s \ {c}) = w[x] + k /\ SumOver(w, s \ {x}) = w[c] + k
      BY <3>2, <3>3, <3>4, <3>5
    <3>. QED BY <2>3, <3>6, <3>7
  <2>. QED BY <2>4, <2>5
<1>. HIDE DEF N
<1>3. Nat \subseteq N
  BY <1>1, <1>2, NumberInduction
<1>. QED BY <1>0, <1>3 DEF N

----------------------------------------------------------------------------
(* Sums in the forms the model has *)

\* f adds w up, taking p[s] out of s first.
IsFold(f, w, p, U) ==
    f = [s \in SUBSET U |-> IF s = {} THEN 0 ELSE f[s \ {p[s]}] + w[p[s]]]

\* A sum may be taken in any order of its elements.
LEMMA SumAnyOrder ==
    ASSUME NEW U, IsFiniteSet(U), NEW w, \A x \in U : w[x] \in Int,
           NEW p, \A s \in SUBSET U : s # {} => p[s] \in s,
           NEW f, IsFold(f, w, p, U)
    PROVE  f[U] = SumOver(w, U)
<1>. DEFINE N == {n \in Nat : \A s \in SUBSET U : Cardinality(s) = n => f[s] = SumOver(w, s)}
<1>0. \A s \in SUBSET U : IsFiniteSet(s) /\ Cardinality(s) \in Nat /\ SumOver(w, s) \in Int
  BY FS_Subset, FS_CardinalityType, SumOverType
<1>a. \A s \in SUBSET U : f[s] = IF s = {} THEN 0 ELSE f[s \ {p[s]}] + w[p[s]]
  BY DEF IsFold
<1>1. 0 \in N
  <2>. SUFFICES ASSUME NEW s \in SUBSET U, Cardinality(s) = 0 PROVE f[s] = SumOver(w, s)
    OBVIOUS
  <2>1. s = {} /\ IsFiniteSet(s)
    BY <1>0, FS_EmptySet
  <2>2. SumOver(w, s) = 0
    BY <2>1, SumOverRec
  <2>3. f[s] = 0
    BY <1>a, <2>1
  <2>. QED BY <2>2, <2>3
<1>2. ASSUME NEW n \in Nat, n \in N PROVE n + 1 \in N
  <2>. SUFFICES ASSUME NEW s \in SUBSET U, Cardinality(s) = n + 1 PROVE f[s] = SumOver(w, s)
    OBVIOUS
  <2>1. s # {} /\ IsFiniteSet(s)
    BY <1>0, NotEmpty
  <2>2. PICK x : x = p[s]
    OBVIOUS
  <2>3. x \in s /\ w[x] \in Int /\ s \ {x} \in SUBSET U
    BY <2>1, <2>2
  <2>4. Cardinality(s \ {x}) = n
    BY <2>1, <2>3, OneLess
  <2>5. f[s \ {x}] = SumOver(w, s \ {x})
    BY <1>2, <2>3, <2>4
  <2>6. f[s] = f[s \ {x}] + w[x]
    BY <1>a, <2>1, <2>2
  <2>7. SumOver(w, s) = w[x] + SumOver(w, s \ {x})
    BY <2>3, SumRemove
  <2>. QED BY <1>0, <2>3, <2>5, <2>6, <2>7
<1>. HIDE DEF N
<1>3. Nat \subseteq N
  BY <1>1, <1>2, NumberInduction
<1>. QED BY <1>0, <1>3 DEF N

\* SumOfSizes is the sum of the sizes.
LEMMA SizesAreSummed ==
    ASSUME NEW S, IsFiniteSet(S), NEW m, NEW w, \A i \in S : w[i] = SizeOf(m, i)
    PROVE  SumOfSizes(m, S) = SumOver(w, S)
<1>. DEFINE Sizes(g) == g = [s \in SUBSET S |-> IF s = {} THEN 0
                                 ELSE SizeOf(m, Pick(s)) + g[s \ {Pick(s)}]]
<1>1. SumOfSizes(m, S) = (CHOOSE g : Sizes(g))[S]
  BY DEF SumOfSizes, MapThenSumSet, MapThenFoldSet, Pick
<1>2. PICK f : IsSum(f, w, S) /\ SumOver(w, S) = f[S]
  BY SumOverIs, Zenon
<1>3. \A s \in SUBSET S : s # {} => w[Pick(s)] = SizeOf(m, Pick(s))
  BY PickIn
<1>4. \A g, s : s \in SUBSET S => SumStep(g, w, s) = IF s = {} THEN 0
                                 ELSE SizeOf(m, Pick(s)) + g[s \ {Pick(s)}]
  BY <1>3 DEF SumStep
<1>5. \A g : IsSum(g, w, S) <=> Sizes(g)
  BY <1>4 DEF IsSum
<1>. HIDE DEF Sizes
<1>6. PICK h : Sizes(h) /\ h = CHOOSE g : Sizes(g)
  BY <1>2, <1>5
<1>7. h[S] = f[S]
  <2>1. IsSum(h, w, S)
    BY <1>5, <1>6
  <2>. QED BY <1>2, <2>1, SumUnique
<1>. QED BY <1>1, <1>2, <1>6, <1>7

\* The total of the listing is that of its lines.
LEMMA LinesAreSummed ==
    ASSUME NEW S, IsFiniteSet(S), NEW w
    PROVE  MapThenSumSet(LAMBDA i : w[i], S) = SumOver(w, S)
BY DEF MapThenSumSet, MapThenFoldSet, SumOver, IsSum, SumStep, Pick

\* The octets of an RFC 1939 session are the sum of the sizes of the files.
LEMMA OctetsAreSummed ==
    ASSUME NEW S, IsFiniteSet(S), NEW ms, NEW w, \A i \in S : w[i] = FileSize[ms[i]]
    PROVE  RFC1939!Octets(ms, S) = SumOver(w, S)
<1>. DEFINE Sizes(g) == g = [s \in SUBSET S |-> IF s = {} THEN 0
                                 ELSE FileSize[ms[Pick(s)]] + g[s \ {Pick(s)}]]
<1>1. RFC1939!Octets(ms, S) = (CHOOSE g : Sizes(g))[S]
  BY DEF RFC1939!Octets, RFC1939!MapThenSumSet, RFC1939!MapThenFoldSet, Pick
<1>2. PICK f : IsSum(f, w, S) /\ SumOver(w, S) = f[S]
  BY SumOverIs, Zenon
<1>3. \A s \in SUBSET S : s # {} => w[Pick(s)] = FileSize[ms[Pick(s)]]
  BY PickIn
<1>4. \A g, s : s \in SUBSET S => SumStep(g, w, s) = IF s = {} THEN 0
                                 ELSE FileSize[ms[Pick(s)]] + g[s \ {Pick(s)}]
  BY <1>3 DEF SumStep
<1>5. \A g : IsSum(g, w, S) <=> Sizes(g)
  BY <1>4, ZenonT(40) DEF IsSum
<1>. HIDE DEF Sizes
<1>6. PICK h : Sizes(h) /\ h = CHOOSE g : Sizes(g)
  BY <1>2, <1>5
<1>7. h[S] = f[S]
  <2>1. IsSum(h, w, S)
    BY <1>5, <1>6
  <2>. QED BY <1>2, <2>1, SumUnique
<1>. QED BY <1>1, <1>2, <1>6, <1>7

\* A set of numbers that is finite and not empty has a greatest one.
LEMMA MaxIn ==
    ASSUME NEW n \in Nat, NEW s \in SUBSET (1..n), s # {}
    PROVE  Max(s) \in s
<1>. DEFINE B == {k \in Nat : \A x \in s : x + k =< n + 1}
            N == {k \in Nat : k \in B}
<1>1. 0 \in B
  OBVIOUS
<1>2. \A k \in Nat : k + 1 \in B => k \in B
  OBVIOUS
<1>3. PICK x0 \in s : x0 \in 1..n
  OBVIOUS
<1>4. n + 2 \notin B
  BY <1>3
<1>5. \E k \in Nat : k \in B /\ k + 1 \notin B
  <2>1. SUFFICES ASSUME \A k \in Nat : k \in B => k + 1 \in B PROVE FALSE
    OBVIOUS
  <2>. HIDE DEF B
  <2>2. Nat \subseteq B
    BY <1>1, <2>1, NumberInduction
  <2>. QED BY <1>4, <2>2
<1>6. PICK k \in Nat : k \in B /\ k + 1 \notin B
  BY <1>5
<1>7. PICK x \in s : x + k = n + 1
  BY <1>6
<1>8. \A y \in s : x >= y
  BY <1>6, <1>7
<1>. QED BY <1>8 DEF Max

\* The total that message_manager_create adds up file by file.
LEMMA FilesAreSummed ==
    ASSUME NEW n \in Nat, NEW fs \in [1..n -> Mails],
           NEW w, \A i \in 1..n : w[i] = FileSize[fs[i]]
    PROVE  FoldLeft(LAMBDA sum, f : sum + FileSize[f], 0, fs) = SumOver(w, 1..n)
<1>. DEFINE S == 1..n
            Sizes(g) == g = [s \in SUBSET S |-> IF s = {} THEN 0
                                 ELSE g[s \ {Max(s)}] + FileSize[fs[Max(s)]]]
            p == [s \in SUBSET S |-> Max(s)]
<1>1. FoldLeft(LAMBDA sum, f : sum + FileSize[f], 0, fs) = (CHOOSE g : Sizes(g))[S]
  <2>1. DOMAIN fs = S
    OBVIOUS
  <2>. QED BY <2>1 DEF FoldLeft, MapThenFoldSet
<1>2. IsFiniteSet(S) /\ \A i \in S : w[i] \in Int
  <2>1. IsFiniteSet(S)
    BY FS_Interval
  <2>2. \A i \in 1..n : w[i] \in Int
    BY SizeAssumption
  <2>. QED BY <2>1, <2>2
<1>3. \A s \in SUBSET S : s # {} => p[s] \in s /\ p[s] = Max(s) /\ w[Max(s)] = FileSize[fs[Max(s)]]
  BY MaxIn
<1>. DEFINE h == [s \in SUBSET S |-> SumOver(w, s)]
<1>4. Sizes(h)
  <2>1. ASSUME NEW s \in SUBSET S
        PROVE  h[s] = IF s = {} THEN 0 ELSE h[s \ {Max(s)}] + FileSize[fs[Max(s)]]
    <3>1. CASE s = {}
      <4>1. IsFiniteSet(s)
        BY <3>1, FS_EmptySet
      <4>2. SumOver(w, s) = 0
        BY <3>1, <4>1, SumOverRec
      <4>. QED BY <3>1, <4>2
    <3>2. CASE s # {}
      <4>1. PICK x : x = Max(s)
        OBVIOUS
      <4>2. x \in s /\ w[x] = FileSize[fs[x]] /\ w[x] \in Int
        BY <1>2, <1>3, <3>2, <4>1
      <4>3. SumOver(w, s) = w[x] + SumOver(w, s \ {x}) /\ SumOver(w, s \ {x}) \in Int
        <5>1. s \in SUBSET S /\ s \ {x} \in SUBSET S
          OBVIOUS
        <5>. HIDE DEF S, h, Sizes, p
        <5>2. SumOver(w, s) = w[x] + SumOver(w, s \ {x})
          BY <1>2, <4>2, <5>1, SumRemove
        <5>3. SumOver(w, s \ {x}) \in Int
          BY <1>2, <5>1, SumOverType
        <5>. QED BY <5>2, <5>3
      <4>4. h[s \ {x}] = SumOver(w, s \ {x})
        OBVIOUS
      <4>. QED BY <3>2, <4>1, <4>2, <4>3, <4>4
    <3>. QED BY <3>1, <3>2
  <2>. HIDE DEF h
  <2>2. h = [s \in SUBSET S |-> h[s]]
    BY DEF h
  <2>. QED BY <2>1, <2>2
<1>5. PICK f : f = CHOOSE g : Sizes(g)
  OBVIOUS
<1>6. Sizes(f)
  <2>. HIDE DEF Sizes, h
  <2>. QED BY <1>4, <1>5
<1>7. f[S] = SumOver(w, S)
  <2>1. IsFold(f, w, p, S)
    BY <1>3, <1>6 DEF IsFold
  <2>. HIDE DEF S, p, Sizes, h
  <2>. QED BY <1>2, <1>3, <2>1, SumAnyOrder
<1>. QED BY <1>1, <1>5, <1>7

----------------------------------------------------------------------------
(* The algebra of sums *)

\* There is nothing in the empty sum.
LEMMA SumEmpty == ASSUME NEW w PROVE SumOver(w, {}) = 0
<1>1. IsFiniteSet({})
  BY FS_EmptySet
<1>. QED BY <1>1, SumOverRec

\* One more term.
LEMMA SumAdd ==
    ASSUME NEW U, IsFiniteSet(U), NEW w, \A x \in U : w[x] \in Int,
           NEW s \in SUBSET U, NEW x \in U \ s
    PROVE  /\ SumOver(w, s \cup {x}) = SumOver(w, s) + w[x]
           /\ SumOver(w, s) \in Int /\ w[x] \in Int
<1>1. PICK t : t = s \cup {x}
  OBVIOUS
<1>2. t \in SUBSET U /\ x \in t /\ t \ {x} = s
  BY <1>1
<1>3. SumOver(w, t) = w[x] + SumOver(w, t \ {x})
  BY <1>2, SumRemove
<1>4. SumOver(w, s) \in Int /\ w[x] \in Int
  BY SumOverType
<1>5. SumOver(w, t) = SumOver(w, s) + w[x]
  <2>1. PICK a, b : a = SumOver(w, s) /\ b = w[x]
    OBVIOUS
  <2>2. SumOver(w, t) = b + a
    BY <1>2, <1>3, <2>1
  <2>. QED BY <1>4, <2>1, <2>2
<1>. QED BY <1>1, <1>4, <1>5

\* The sum of two sets that have nothing in common.
LEMMA SumUnion ==
    ASSUME NEW U, IsFiniteSet(U), NEW w, \A x \in U : w[x] \in Int,
           NEW A \in SUBSET U
    PROVE  \A B \in SUBSET (U \ A) : SumOver(w, A \cup B) = SumOver(w, A) + SumOver(w, B)
<1>1. PICK R : R = U \ A
  OBVIOUS
<1>. DEFINE T == {B \in SUBSET R : SumOver(w, A \cup B) = SumOver(w, A) + SumOver(w, B)}
<1>2. SumOver(w, A) \in Int
  BY SumOverType
<1>3. {} \in T
  <2>1. A \cup {} = A
    OBVIOUS
  <2>. QED BY <1>2, <2>1, SumEmpty
<1>4. ASSUME NEW B \in SUBSET R, NEW x \in R \ B, B \in T
      PROVE  B \cup {x} \in T
  <2>1. PICK AB : AB = A \cup B
    OBVIOUS
  <2>2. /\ AB \in SUBSET U /\ x \in U \ AB /\ B \in SUBSET U /\ x \in U \ B
        /\ AB \cup {x} = A \cup (B \cup {x}) /\ B \cup {x} \in SUBSET R
    BY <1>1, <2>1
  <2>3. SumOver(w, AB \cup {x}) = SumOver(w, AB) + w[x]
    BY <2>2, SumAdd
  <2>4. SumOver(w, B \cup {x}) = SumOver(w, B) + w[x] /\ SumOver(w, B) \in Int /\ w[x] \in Int
    BY <2>2, SumAdd
  <2>5. SumOver(w, AB) = SumOver(w, A) + SumOver(w, B)
    BY <1>4, <2>1
  <2>6. SumOver(w, AB \cup {x}) = SumOver(w, A) + SumOver(w, B \cup {x})
    <3>1. PICK a, b, c : a = SumOver(w, A) /\ b = SumOver(w, B) /\ c = w[x]
      OBVIOUS
    <3>2. a \in Int /\ b \in Int /\ c \in Int
      BY <1>2, <2>4, <3>1
    <3>3. SumOver(w, AB \cup {x}) = a + b + c /\ SumOver(w, B \cup {x}) = b + c
      BY <2>3, <2>4, <2>5, <3>1
    <3>. QED BY <3>1, <3>2, <3>3
  <2>. QED BY <2>2, <2>6
<1>. HIDE DEF T
<1>5. IsFiniteSet(R)
  BY <1>1, FS_Subset
<1>6. SUBSET R \subseteq T
  BY <1>3, <1>4, <1>5, SubsetInduction
<1>. QED BY <1>1, <1>6 DEF T

\* Sums of natural numbers grow with the set.
LEMMA SumGrows ==
    ASSUME NEW U, IsFiniteSet(U), NEW w, \A x \in U : w[x] \in Nat,
           NEW B \in SUBSET U, NEW A \in SUBSET B
    PROVE  SumOver(w, A) \in Nat /\ SumOver(w, B) \in Nat /\ SumOver(w, A) =< SumOver(w, B)
<1>. DEFINE T == {s \in SUBSET U : SumOver(w, s) \in Nat}
<1>0. \A x \in U : w[x] \in Int
  OBVIOUS
<1>1. {} \in T
  BY SumEmpty
<1>2. ASSUME NEW s \in SUBSET U, NEW x \in U \ s, s \in T PROVE s \cup {x} \in T
  <2>1. SumOver(w, s \cup {x}) = SumOver(w, s) + w[x]
    BY <1>0, SumAdd
  <2>2. SumOver(w, s) \in Nat /\ w[x] \in Nat
    BY <1>2
  <2>3. SumOver(w, s \cup {x}) \in Nat
    BY <2>1, <2>2
  <2>. QED BY <2>3
<1>. HIDE DEF T
<1>3. SUBSET U \subseteq T
  BY <1>1, <1>2, SubsetInduction
<1>4. \A s \in SUBSET U : SumOver(w, s) \in Nat
  BY <1>3 DEF T
<1>5. A \in SUBSET U /\ B \ A \in SUBSET (U \ A) /\ A \cup (B \ A) = B /\ B \ A \in SUBSET U
  OBVIOUS
<1>6. SumOver(w, A \cup (B \ A)) = SumOver(w, A) + SumOver(w, B \ A)
  BY <1>0, <1>5, SumUnion
<1>7. SumOver(w, A) \in Nat /\ SumOver(w, B \ A) \in Nat /\ SumOver(w, B) \in Nat
  BY <1>4, <1>5
<1>. QED BY <1>5, <1>6, <1>7

\* No term is above the sum.
LEMMA TermBelow ==
    ASSUME NEW U, IsFiniteSet(U), NEW w, \A x \in U : w[x] \in Nat,
           NEW s \in SUBSET U, NEW i \in s
    PROVE  w[i] =< SumOver(w, s)
<1>0. \A x \in U : w[x] \in Int
  OBVIOUS
<1>1. {i} \in SUBSET s /\ {i} \in SUBSET U
  OBVIOUS
<1>2. SumOver(w, {i}) =< SumOver(w, s)
  BY <1>1, SumGrows
<1>3. SumOver(w, {i}) = w[i] + SumOver(w, {i} \ {i})
  BY <1>0, <1>1, SumRemove
<1>4. {i} \ {i} = {}
  OBVIOUS
<1>5. SumOver(w, {i}) = w[i] + 0
  BY <1>3, <1>4, SumEmpty
<1>. QED BY <1>2, <1>5

\* Equal terms, equal sums.
LEMMA SumSame ==
    ASSUME NEW S, IsFiniteSet(S), NEW w, NEW v, \A x \in S : w[x] = v[x]
    PROVE  SumOver(w, S) = SumOver(v, S)
<1>1. \A f, s : s \in SUBSET S => SumStep(f, w, s) = SumStep(f, v, s)
  BY PickIn DEF SumStep
<1>2. \A f : IsSum(f, w, S) <=> IsSum(f, v, S)
  BY <1>1 DEF IsSum
<1>3. PICK f : IsSum(f, w, S) /\ SumOver(w, S) = f[S]
  BY SumOverIs, Zenon
<1>4. PICK g : IsSum(g, v, S) /\ SumOver(v, S) = g[S]
  BY SumOverIs, Zenon
<1>5. f[S] = g[S]
  <2>1. IsSum(g, w, S)
    BY <1>2, <1>4
  <2>. QED BY <1>3, <2>1, SumUnique
<1>. QED BY <1>3, <1>4, <1>5

\* A sum over numbers is the sum over what they number.
LEMMA SumNumbered ==
    ASSUME NEW U, IsFiniteSet(U), NEW w, \A x \in U : w[x] \in Int,
           NEW n \in Nat, NEW fs \in [1..n -> U], \A i, j \in 1..n : i # j => fs[i] # fs[j],
           NEW v, \A i \in 1..n : v[i] = w[fs[i]]
    PROVE  \A s \in SUBSET (1..n) : SumOver(v, s) = SumOver(w, {fs[i] : i \in s})
<1>. DEFINE S == 1..n
            Img(s) == {fs[i] : i \in s}
            T == {s \in SUBSET S : SumOver(v, s) = SumOver(w, Img(s))}
<1>0. IsFiniteSet(S)
  BY FS_Interval
<1>a. \A i \in S : v[i] \in Int
  OBVIOUS
<1>1. {} \in T
  <2>1. Img({}) = {}
    OBVIOUS
  <2>2. SumOver(v, {}) = 0 /\ SumOver(w, {}) = 0
    BY SumEmpty
  <2>. QED BY <2>1, <2>2
<1>2. ASSUME NEW s \in SUBSET S, NEW i \in S \ s, s \in T PROVE s \cup {i} \in T
  <2>1. Img(s) \in SUBSET U /\ fs[i] \in U \ Img(s) /\ Img(s \cup {i}) = Img(s) \cup {fs[i]}
    OBVIOUS
  <2>2. SumOver(v, s) = SumOver(w, Img(s))
    BY <1>2
  <2>3. v[i] = w[fs[i]] /\ s \cup {i} \in SUBSET S
    OBVIOUS
  <2>. HIDE DEF S, Img
  <2>4. SumOver(v, s \cup {i}) = SumOver(v, s) + v[i]
    BY <1>0, <1>a, SumAdd
  <2>5. SumOver(w, Img(s) \cup {fs[i]}) = SumOver(w, Img(s)) + w[fs[i]]
    BY <2>1, SumAdd
  <2>6. SumOver(v, s \cup {i}) = SumOver(w, Img(s \cup {i}))
    BY <2>1, <2>2, <2>3, <2>4, <2>5
  <2>. QED BY <2>3, <2>6
<1>3. SUBSET S \subseteq T
  <2>. HIDE DEF T, S
  <2>. QED BY <1>0, <1>1, <1>2, SubsetInduction
<1>. QED BY <1>3

----------------------------------------------------------------------------
(* Arithmetic of an int *)

\* Equal but for whole turns of an int.
Same(a, b) == \E k \in Int : a = b + k * IntWidth

\* Division with remainder.
LEMMA Remainder ==
    ASSUME NEW a \in Int
    PROVE  /\ a % IntWidth \in Int /\ 0 =< a % IntWidth /\ a % IntWidth < IntWidth
           /\ a \div IntWidth \in Int
           /\ a = (a % IntWidth) + (a \div IntWidth) * IntWidth
<1>1. a % IntWidth \in Int /\ 0 =< a % IntWidth /\ a % IntWidth < IntWidth
  BY WidthAssumption
<1>2. a = (a % IntWidth) + (a \div IntWidth) * IntWidth /\ a \div IntWidth \in Int
  BY WidthAssumption
<1>. QED BY <1>1, <1>2

\* Less than a whole turn apart, and by whole turns, is not apart.
LEMMA NoTurn ==
    ASSUME NEW a \in Int, NEW b \in Int, NEW k \in Int,
           0 =< a, a < IntWidth, 0 =< b, b < IntWidth, a = b + k * IntWidth
    PROVE  a = b
<1>1. IntWidth \in Nat /\ IntWidth > 1
  BY WidthAssumption
<1>2. CASE k >= 1
  <2>1. k * IntWidth >= IntWidth
    BY <1>1, <1>2
  <2>. QED BY <1>1, <2>1
<1>3. CASE k =< -1
  <2>1. k * IntWidth =< -IntWidth
    BY <1>1, <1>3
  <2>. QED BY <1>1, <2>1
<1>4. CASE k = 0
  <2>1. k * IntWidth = 0
    BY <1>1, <1>4
  <2>. QED BY <1>1, <2>1
<1>. QED BY <1>2, <1>3, <1>4

\* Turns carry over to sums and differences.
LEMMA SameAdds ==
    ASSUME NEW a \in Int, NEW b \in Int, NEW c \in Int, NEW d \in Int, Same(a, b), Same(c, d)
    PROVE  Same(a + c, b + d) /\ Same(a - c, b - d)
<1>0. IntWidth \in Nat
  BY WidthAssumption
<1>1. PICK k \in Int : a = b + k * IntWidth
  BY DEF Same
<1>2. PICK l \in Int : c = d + l * IntWidth
  BY DEF Same
<1>3. (k + l) * IntWidth = k * IntWidth + l * IntWidth /\ (k - l) * IntWidth = k * IntWidth - l * IntWidth
  BY <1>0
<1>4. PICK x, y : x = k * IntWidth /\ y = l * IntWidth
  OBVIOUS
<1>5. x \in Int /\ y \in Int
  BY <1>0, <1>4
<1>6. a + c = b + d + (k + l) * IntWidth
  BY <1>1, <1>2, <1>3, <1>4, <1>5
<1>7. a - c = b - d + (k - l) * IntWidth
  BY <1>1, <1>2, <1>3, <1>4, <1>5
<1>. QED BY <1>6, <1>7 DEF Same

\* No turn at all.
LEMMA SameRefl == ASSUME NEW a \in Int PROVE Same(a, a)
<1>1. 0 * IntWidth = 0
  BY WidthAssumption
<1>2. a = a + 0 * IntWidth
  BY <1>1
<1>. QED BY <1>2 DEF Same

\* Turns can be taken back.
LEMMA SameSym == ASSUME NEW a \in Int, NEW b \in Int, Same(a, b) PROVE Same(b, a)
<1>1. Same(b, b) /\ Same(a - a, a - b)
  BY SameRefl, SameAdds
<1>2. PICK k \in Int : a = b + k * IntWidth
  BY DEF Same
<1>3. (-k) * IntWidth = -(k * IntWidth) /\ k * IntWidth \in Int
  BY WidthAssumption
<1>4. b = a + (-k) * IntWidth
  BY <1>2, <1>3
<1>. QED BY <1>4 DEF Same

\* Turns add up.
LEMMA SameTrans ==
    ASSUME NEW a \in Int, NEW b \in Int, NEW c \in Int, Same(a, b), Same(b, c)
    PROVE  Same(a, c)
<1>2. PICK k \in Int : a = b + k * IntWidth
  BY DEF Same
<1>3. PICK l \in Int : b = c + l * IntWidth
  BY DEF Same
<1>4. (k + l) * IntWidth = k * IntWidth + l * IntWidth
  BY WidthAssumption
<1>5. PICK x, y : x = k * IntWidth /\ y = l * IntWidth
  OBVIOUS
<1>6. x \in Int /\ y \in Int
  BY <1>5, WidthAssumption
<1>7. a = c + (k + l) * IntWidth
  BY <1>2, <1>3, <1>4, <1>5, <1>6
<1>. QED BY <1>7 DEF Same

\* The conversion to int makes whole turns.
LEMMA ToIntTurns ==
    ASSUME NEW a \in Int PROVE ToInt(a) \in Int /\ Same(ToInt(a), a)
<1>0. IntWidth \in Nat
  BY WidthAssumption
<1>1. PICK r, q : r = a % IntWidth /\ q = a \div IntWidth
  OBVIOUS
<1>2. r \in Int /\ q \in Int /\ a = r + q * IntWidth
  BY <1>1, Remainder
<1>3. ToInt(a) = IF 2 * r >= IntWidth THEN r - IntWidth ELSE r
  BY <1>1 DEF ToInt
<1>4. (-q) * IntWidth = -(q * IntWidth) /\ (-q - 1) * IntWidth = -(q * IntWidth) - IntWidth
  BY <1>0, <1>2
<1>5. q * IntWidth \in Int
  BY <1>0, <1>2
<1>6. r = a + (-q) * IntWidth /\ r - IntWidth = a + (-q - 1) * IntWidth
  BY <1>0, <1>2, <1>4, <1>5
<1>7. -q \in Int /\ -q - 1 \in Int
  BY <1>2
<1>8. Same(r, a) /\ Same(r - IntWidth, a)
  BY <1>6, <1>7 DEF Same
<1>9. CASE 2 * r >= IntWidth
  BY <1>0, <1>2, <1>3, <1>8, <1>9
<1>10. CASE ~(2 * r >= IntWidth)
  BY <1>0, <1>2, <1>3, <1>8, <1>10
<1>. QED BY <1>9, <1>10

\* What differs by whole turns is one int.
LEMMA SameToInt ==
    ASSUME NEW a \in Int, NEW b \in Int, Same(a, b)
    PROVE  ToInt(a) = ToInt(b)
<1>0. IntWidth \in Nat
  BY WidthAssumption
<1>1. PICK ra, qa : ra = a % IntWidth /\ qa = a \div IntWidth
  OBVIOUS
<1>2. PICK rb, qb : rb = b % IntWidth /\ qb = b \div IntWidth
  OBVIOUS
<1>3. ra \in Int /\ qa \in Int /\ a = ra + qa * IntWidth /\ 0 =< ra /\ ra < IntWidth
  BY <1>1, Remainder
<1>4. rb \in Int /\ qb \in Int /\ b = rb + qb * IntWidth /\ 0 =< rb /\ rb < IntWidth
  BY <1>2, Remainder
<1>5. PICK k \in Int : a = b + k * IntWidth
  BY DEF Same
<1>6. PICK m : m = qb + k - qa
  OBVIOUS
<1>7. m \in Int /\ m * IntWidth = qb * IntWidth + k * IntWidth - qa * IntWidth
  BY <1>0, <1>3, <1>4, <1>6
<1>8. PICK x, y, z : x = qa * IntWidth /\ y = qb * IntWidth /\ z = k * IntWidth
  OBVIOUS
<1>9. x \in Int /\ y \in Int /\ z \in Int
  BY <1>0, <1>3, <1>4, <1>8
<1>10. ra = rb + (y + z - x)
  <2>1. a = ra + x /\ b = rb + y /\ a = b + z
    BY <1>3, <1>4, <1>5, <1>8
  <2>. QED BY <1>3, <1>4, <1>9, <2>1
<1>11. ra = rb + m * IntWidth
  BY <1>7, <1>8, <1>10
<1>12. ra = rb
  BY <1>3, <1>4, <1>7, <1>11, NoTurn
<1>. QED BY <1>1, <1>2, <1>12 DEF ToInt

\* A small natural number is its own int.
LEMMA SmallInt ==
    ASSUME NEW a \in Nat, 2 * a < IntWidth PROVE ToInt(a) = a
<1>0. IntWidth \in Nat
  BY WidthAssumption
<1>1. a % IntWidth = a
  <2>1. a % IntWidth \in Int /\ 0 =< a % IntWidth /\ a % IntWidth < IntWidth
        /\ a \div IntWidth \in Int /\ a = (a % IntWidth) + (a \div IntWidth) * IntWidth
    BY Remainder
  <2>2. PICK r, q : r = a % IntWidth /\ q = a \div IntWidth
    OBVIOUS
  <2>. QED BY <1>0, <2>1, <2>2, NoTurn
<1>. QED BY <1>0, <1>1 DEF ToInt

\* Terms converted one by one give a sum that differs by whole turns.
LEMMA SumTurns ==
    ASSUME NEW U, IsFiniteSet(U), NEW w, \A x \in U : w[x] \in Int,
           NEW v, \A x \in U : v[x] = ToInt(w[x])
    PROVE  Same(SumOver(v, U), SumOver(w, U)) /\ SumOver(v, U) \in Int /\ SumOver(w, U) \in Int
<1>. DEFINE T == {s \in SUBSET U : Same(SumOver(v, s), SumOver(w, s))}
<1>0. \A x \in U : v[x] \in Int /\ Same(v[x], w[x])
  BY ToIntTurns
<1>1. {} \in T
  BY SumEmpty, SameRefl
<1>2. ASSUME NEW s \in SUBSET U, NEW x \in U \ s, s \in T PROVE s \cup {x} \in T
  <2>1. SumOver(w, s \cup {x}) = SumOver(w, s) + w[x] /\ SumOver(w, s) \in Int /\ w[x] \in Int
    BY SumAdd
  <2>2. SumOver(v, s \cup {x}) = SumOver(v, s) + v[x] /\ SumOver(v, s) \in Int /\ v[x] \in Int
    BY <1>0, SumAdd
  <2>3. Same(SumOver(v, s), SumOver(w, s)) /\ Same(v[x], w[x])
    BY <1>0, <1>2
  <2>4. Same(SumOver(v, s) + v[x], SumOver(w, s) + w[x])
    BY <2>1, <2>2, <2>3, SameAdds
  <2>. QED BY <2>1, <2>2, <2>4
<1>. HIDE DEF T
<1>3. SUBSET U \subseteq T
  BY <1>1, <1>2, SubsetInduction
<1>4. SumOver(v, U) \in Int /\ SumOver(w, U) \in Int
  BY <1>0, SumOverType
<1>. QED BY <1>3, <1>4 DEF T

----------------------------------------------------------------------------
(* The photograph of a maildrop *)

\* The sizes of the messages, as a function of their numbers.
Sizes(m) == [i \in MessageNumbers(m) |-> SizeOf(m, i)]

Numbered(m) == m \in Manager /\ m.marked \in [DOMAIN m.files -> BOOLEAN]

\* The counters are those of the messages not marked.
Counted(m) ==
    /\ m.count = Cardinality(Unmarked(m))
    /\ m.total = ToInt(SumOfSizes(m, Unmarked(m)))

\* The orders readdir may give are the numberings of the files.
LEMMA SequencesOf ==
    ASSUME NEW S \in SUBSET Mails, NEW fs \in SetToSeqs(S)
    PROVE  \E n \in 0..Cardinality(Mails) :
               /\ n = Cardinality(S) /\ fs \in [1..n -> S]
               /\ \A i, j \in 1..n : i # j => fs[i] # fs[j]
<1>1. IsFiniteSet(S) /\ Cardinality(S) =< Cardinality(Mails)
  BY FS_Subset, MailsAssumption
<1>2. Cardinality(S) \in Nat /\ Cardinality(Mails) \in Nat
  BY <1>1, FS_CardinalityType, MailsAssumption
<1>. QED BY <1>1, <1>2 DEF SetToSeqs

\* A photograph numbers different files from 1 on, and has a mark for each.
LEMMA NumberedFacts ==
    ASSUME NEW m, Numbered(m)
    PROVE  \E n \in 0..Cardinality(Mails) :
               /\ MessageNumbers(m) = 1..n
               /\ m.files \in [1..n -> Mails]
               /\ \A i, j \in 1..n : i # j => m.files[i] # m.files[j]
               /\ m.marked \in [1..n -> BOOLEAN]
<1>1. PICK S \in SUBSET Mails : m.files \in SetToSeqs(S)
  BY DEF Numbered, Manager
<1>2. PICK n \in 0..Cardinality(Mails) :
               /\ n = Cardinality(S) /\ m.files \in [1..n -> S]
               /\ \A i, j \in 1..n : i # j => m.files[i] # m.files[j]
  BY <1>1, SequencesOf
<1>3. DOMAIN m.files = 1..n
  BY <1>2
<1>4. m.files \in [1..n -> Mails]
  BY <1>2
<1>. QED BY <1>2, <1>3, <1>4 DEF MessageNumbers, Numbered

\* A photograph is finite, and its messages are marked or not.
LEMMA SetsOfNumbers ==
    ASSUME NEW m, Numbered(m)
    PROVE  /\ IsFiniteSet(MessageNumbers(m))
           /\ Marked(m) \in SUBSET MessageNumbers(m)
           /\ Unmarked(m) \in SUBSET MessageNumbers(m)
           /\ Unmarked(m) = MessageNumbers(m) \ Marked(m)
           /\ IsFiniteSet(Marked(m)) /\ IsFiniteSet(Unmarked(m))
           /\ Cardinality(Unmarked(m)) \in 0..Cardinality(Mails)
<1>1. PICK n \in 0..Cardinality(Mails) : MessageNumbers(m) = 1..n
  BY NumberedFacts
<1>2. Cardinality(Mails) \in Nat
  BY FS_CardinalityType, MailsAssumption
<1>3. IsFiniteSet(1..n) /\ Cardinality(1..n) = n /\ n \in Nat
  BY <1>2, FS_Interval
<1>4. /\ Marked(m) \in SUBSET MessageNumbers(m) /\ Unmarked(m) \in SUBSET MessageNumbers(m)
      /\ Unmarked(m) = MessageNumbers(m) \ Marked(m)
  BY DEF Marked, Unmarked
<1>5. IsFiniteSet(Marked(m)) /\ IsFiniteSet(Unmarked(m)) /\ Cardinality(Unmarked(m)) =< n
  BY <1>1, <1>3, <1>4, FS_Subset
<1>6. Cardinality(Unmarked(m)) \in Nat
  BY <1>5, FS_CardinalityType
<1>. QED BY <1>1, <1>2, <1>3, <1>4, <1>5, <1>6

\* The sizes are ints of the files' sizes.
LEMMA SizesAreInts ==
    ASSUME NEW m, Numbered(m)
    PROVE  \A i \in MessageNumbers(m) :
               /\ Sizes(m)[i] = SizeOf(m, i) /\ SizeOf(m, i) \in Int
               /\ FileSize[m.files[i]] \in Nat
<1>. SUFFICES ASSUME NEW i \in MessageNumbers(m)
              PROVE /\ Sizes(m)[i] = SizeOf(m, i) /\ SizeOf(m, i) \in Int
                    /\ FileSize[m.files[i]] \in Nat
  OBVIOUS
<1>1. PICK n \in 0..Cardinality(Mails) : MessageNumbers(m) = 1..n /\ m.files \in [1..n -> Mails]
  BY NumberedFacts
<1>2. m.files[i] \in Mails
  BY <1>1
<1>3. FileSize[m.files[i]] \in Nat
  BY <1>2, SizeAssumption
<1>4. SizeOf(m, i) \in Int
  BY <1>3, ToIntTurns DEF SizeOf
<1>. QED BY <1>3, <1>4 DEF Sizes

\* Sums of sizes as sums of the function Sizes.
LEMMA SizesSum ==
    ASSUME NEW m, Numbered(m), NEW S \in SUBSET MessageNumbers(m)
    PROVE  SumOfSizes(m, S) = SumOver(Sizes(m), S) /\ SumOver(Sizes(m), S) \in Int
<1>1. IsFiniteSet(MessageNumbers(m)) /\ IsFiniteSet(S)
  BY SetsOfNumbers, FS_Subset
<1>2. \A i \in MessageNumbers(m) : Sizes(m)[i] = SizeOf(m, i) /\ Sizes(m)[i] \in Int
  BY SizesAreInts
<1>3. \A i \in S : Sizes(m)[i] = SizeOf(m, i)
  BY <1>2
<1>4. SumOfSizes(m, S) = SumOver(Sizes(m), S)
  BY <1>1, <1>3, SizesAreSummed
<1>5. SumOver(Sizes(m), S) \in Int
  BY <1>1, <1>2, SumOverType
<1>. QED BY <1>4, <1>5

\* What a call that leaves the files alone leaves alone.
LEMMA SameFiles ==
    ASSUME NEW m, NEW m2, m2.files = m.files
    PROVE  /\ MessageNumbers(m2) = MessageNumbers(m)
           /\ Sizes(m2) = Sizes(m)
BY DEF MessageNumbers, Sizes, SizeOf

\* message_manager_create, when its two passes agree
LEMMA CreateCounts ==
    ASSUME NEW S \in SUBSET Mails, NEW fs \in SetToSeqs(S), NEW c, c = Cardinality(S)
    PROVE  Numbered(NewManager(c, fs)) /\ Counted(NewManager(c, fs))
<1>1. PICK n \in 0..Cardinality(Mails) : n = Cardinality(S) /\ fs \in [1..n -> S]
  BY SequencesOf
<1>2. n \in Nat /\ fs \in [1..n -> Mails] /\ DOMAIN fs = 1..n /\ Len(fs) = n
  <2>1. n \in Nat
    BY FS_CardinalityType, MailsAssumption
  <2>. QED BY <1>1, <2>1
<1>3. PICK t : t = FoldLeft(LAMBDA sum, f : sum + FileSize[f], 0, fs)
  OBVIOUS
<1>. DEFINE w == [i \in 1..n |-> FileSize[fs[i]]]
<1>4. \A i \in 1..n : w[i] = FileSize[fs[i]] /\ w[i] \in Int
  BY <1>2, SizeAssumption
<1>5. t = SumOver(w, 1..n)
  BY <1>2, <1>3, <1>4, FilesAreSummed
<1>6. IsFiniteSet(1..n) /\ Cardinality(1..n) = n
  BY <1>2, FS_Interval
<1>7. t \in Int
  BY <1>4, <1>5, <1>6, SumOverType
<1>8. PICK m : m = NewManager(c, fs)
  OBVIOUS
<1>9. m = [files |-> fs, marked |-> [i \in 1..n |-> FALSE], count |-> n, total |-> ToInt(t)]
  BY <1>1, <1>2, <1>3, <1>8 DEF NewManager
<1>10. Numbered(m)
  <2>1. [i \in 1..n |-> FALSE] \in UNION {[1..k -> BOOLEAN] : k \in 0..Cardinality(Mails)}
    OBVIOUS
  <2>2. fs \in UNION {SetToSeqs(R) : R \in SUBSET Mails}
    OBVIOUS
  <2>3. ToInt(t) \in Int
    BY <1>7, ToIntTurns
  <2>. QED BY <1>2, <1>9, <2>1, <2>2, <2>3 DEF Numbered, Manager
<1>11. MessageNumbers(m) = 1..n /\ Unmarked(m) = 1..n
  BY <1>2, <1>9 DEF MessageNumbers, Unmarked, Marked
<1>12. \A i \in 1..n : Sizes(m)[i] = ToInt(w[i])
  BY <1>4, <1>9, <1>11 DEF Sizes, SizeOf
<1>. HIDE DEF w
<1>13. Same(SumOver(Sizes(m), 1..n), SumOver(w, 1..n)) /\ SumOver(Sizes(m), 1..n) \in Int
  BY <1>4, <1>6, <1>12, SumTurns
<1>14. ToInt(SumOver(Sizes(m), 1..n)) = ToInt(t)
  BY <1>5, <1>7, <1>13, SameToInt
<1>15. SumOfSizes(m, Unmarked(m)) = SumOver(Sizes(m), 1..n)
  BY <1>10, <1>11, SizesSum
<1>16. m.count = n /\ m.total = ToInt(t)
  BY <1>9
<1>17. Counted(m)
  BY <1>6, <1>11, <1>14, <1>15, <1>16 DEF Counted
<1>. QED BY <1>8, <1>10, <1>17

\* message_manager_delete_message
LEMMA DeleteCounts ==
    ASSUME NEW m, Numbered(m), Counted(m), NEW i \in Unmarked(m)
    PROVE  Numbered(DeleteMessage(m, i)) /\ Counted(DeleteMessage(m, i))
<1>1. PICK d : d = DeleteMessage(m, i)
  OBVIOUS
<1>2. PICK n \in 0..Cardinality(Mails) : MessageNumbers(m) = 1..n /\ m.marked \in [1..n -> BOOLEAN]
  BY NumberedFacts
<1>3. DOMAIN m.files = 1..n /\ i \in 1..n /\ ~m.marked[i]
  BY <1>2 DEF MessageNumbers, Unmarked, Marked
<1>4. /\ m.files \in UNION {SetToSeqs(S) : S \in SUBSET Mails} /\ m.total \in Int
      /\ m = [files |-> m.files, marked |-> m.marked, count |-> m.count, total |-> m.total]
  BY DEF Numbered, Manager
<1>5. PICK mk : mk = [m.marked EXCEPT ![i] = TRUE]
  OBVIOUS
<1>6. d = [files |-> m.files, marked |-> mk, count |-> m.count - 1, total |-> ToInt(m.total - SizeOf(m, i))]
  BY <1>1, <1>4, <1>5 DEF DeleteMessage
<1>7. d.files = m.files /\ d.marked = mk /\ d.count = m.count - 1 /\ d.total = ToInt(m.total - SizeOf(m, i))
  BY <1>6
<1>8. mk \in [1..n -> BOOLEAN] /\ \A j \in 1..n : mk[j] = (j = i \/ m.marked[j])
  BY <1>2, <1>3, <1>5
<1>9. MessageNumbers(d) = 1..n /\ Sizes(d) = Sizes(m)
  BY <1>2, <1>7, SameFiles
<1>10. Unmarked(d) = Unmarked(m) \ {i}
  BY <1>2, <1>7, <1>8, <1>9 DEF Unmarked, Marked
<1>11. SizeOf(m, i) \in Int /\ Sizes(m)[i] = SizeOf(m, i)
  BY <1>2, <1>3, SizesAreInts
<1>12. IsFiniteSet(Unmarked(m)) /\ Cardinality(Unmarked(m)) \in 0..Cardinality(Mails)
       /\ Unmarked(m) \in SUBSET MessageNumbers(m) /\ IsFiniteSet(MessageNumbers(m))
  BY SetsOfNumbers
<1>13. Cardinality(Unmarked(d)) = Cardinality(Unmarked(m)) - 1
  BY <1>10, <1>12, FS_RemoveElement
<1>14. Numbered(d)
  <2>1. Cardinality(Mails) \in Nat /\ m.count = Cardinality(Unmarked(m)) /\ Unmarked(m) # {}
    BY FS_CardinalityType, MailsAssumption DEF Counted
  <2>2. m.count # 0
    BY <1>12, <2>1, FS_EmptySet
  <2>3. d.count \in 0..Cardinality(Mails)
    BY <1>7, <1>12, <2>1, <2>2
  <2>4. ToInt(m.total - SizeOf(m, i)) \in Int
    BY <1>4, <1>11, ToIntTurns
  <2>5. mk \in UNION {[1..k -> BOOLEAN] : k \in 0..Cardinality(Mails)}
    BY <1>8
  <2>. QED BY <1>3, <1>4, <1>6, <1>7, <1>8, <2>3, <2>4, <2>5 DEF Numbered, Manager
<1>15. PICK u, s, z : u = SumOver(Sizes(m), Unmarked(m)) /\ s = SumOver(Sizes(m), Unmarked(m) \ {i})
                      /\ z = SizeOf(m, i)
  OBVIOUS
<1>16. u \in Int /\ s \in Int /\ z \in Int /\ u = z + s
  <2>1. \A x \in MessageNumbers(m) : Sizes(m)[x] \in Int
    BY SizesAreInts
  <2>2. SumOver(Sizes(m), Unmarked(m)) = Sizes(m)[i] + SumOver(Sizes(m), Unmarked(m) \ {i})
    BY <1>12, <2>1, SumRemove
  <2>3. Unmarked(m) \ {i} \in SUBSET MessageNumbers(m)
    BY <1>12
  <2>4. u \in Int /\ s \in Int
    BY <1>12, <1>15, <2>1, <2>3, SumOverType
  <2>. QED BY <1>11, <1>15, <2>2, <2>4
<1>17. m.total = ToInt(u) /\ SumOfSizes(d, Unmarked(d)) = s
  <2>1. SumOfSizes(m, Unmarked(m)) = u
    BY <1>12, <1>15, SizesSum
  <2>2. Unmarked(d) \in SUBSET MessageNumbers(d)
    BY <1>2, <1>9, <1>10, <1>12
  <2>3. SumOfSizes(d, Unmarked(d)) = SumOver(Sizes(d), Unmarked(d))
    BY <1>14, <2>2, SizesSum
  <2>. QED BY <1>9, <1>10, <1>15, <2>1, <2>3 DEF Counted
<1>18. ToInt(m.total - z) = ToInt(s)
  <2>1. ToInt(u) \in Int /\ Same(ToInt(u), u) /\ Same(z, z)
    BY <1>16, ToIntTurns, SameRefl
  <2>2. Same(ToInt(u) - z, u - z)
    BY <1>16, <2>1, SameAdds
  <2>3. u - z = s /\ ToInt(u) - z \in Int
    BY <1>16, <2>1
  <2>4. Same(ToInt(u) - z, s)
    BY <2>2, <2>3
  <2>. QED BY <1>16, <1>17, <2>3, <2>4, SameToInt
<1>19. d.total = ToInt(SumOfSizes(d, Unmarked(d)))
  BY <1>7, <1>15, <1>17, <1>18
<1>20. d.count = Cardinality(Unmarked(d))
  BY <1>7, <1>13 DEF Counted
<1>. QED BY <1>1, <1>14, <1>19, <1>20 DEF Counted

\* message_manager_reset_deleted_flag
LEMMA ResetCounts ==
    ASSUME NEW m, Numbered(m), Counted(m)
    PROVE  /\ Numbered(ResetDeletedFlag(m)) /\ Counted(ResetDeletedFlag(m))
           /\ Marked(ResetDeletedFlag(m)) = {}
<1>1. PICK d : d = ResetDeletedFlag(m)
  OBVIOUS
<1>2. PICK n \in 0..Cardinality(Mails) : MessageNumbers(m) = 1..n
  BY NumberedFacts
<1>3. PICK mk, c, t : /\ mk = [i \in 1..n |-> FALSE] /\ c = m.count + Cardinality(Marked(m))
                      /\ t = ToInt(m.total + SumOfSizes(m, Marked(m)))
  OBVIOUS
<1>4. /\ m.files \in UNION {SetToSeqs(S) : S \in SUBSET Mails} /\ m.total \in Int
      /\ m = [files |-> m.files, marked |-> m.marked, count |-> m.count, total |-> m.total]
      /\ DOMAIN m.files = 1..n
  BY <1>2 DEF Numbered, Manager, MessageNumbers
<1>5. d = [files |-> m.files, marked |-> mk, count |-> c, total |-> t]
  BY <1>1, <1>2, <1>3, <1>4 DEF ResetDeletedFlag
<1>6. d.files = m.files /\ d.marked = mk /\ d.count = c /\ d.total = t
  BY <1>5
<1>7. MessageNumbers(d) = 1..n /\ Sizes(d) = Sizes(m)
  BY <1>2, <1>6, SameFiles
<1>8. Marked(d) = {} /\ Unmarked(d) = 1..n
  BY <1>3, <1>6, <1>7 DEF Marked, Unmarked
<1>9. /\ IsFiniteSet(1..n) /\ Marked(m) \in SUBSET (1..n) /\ Unmarked(m) \in SUBSET (1..n)
      /\ Unmarked(m) = (1..n) \ Marked(m) /\ IsFiniteSet(Marked(m)) /\ IsFiniteSet(Unmarked(m))
  BY <1>2, SetsOfNumbers
<1>10. Cardinality(Unmarked(m)) \in Nat /\ Cardinality(Marked(m)) \in Nat
       /\ Cardinality(1..n) = Cardinality(Unmarked(m)) + Cardinality(Marked(m))
  <2>1. Unmarked(m) \cup Marked(m) = 1..n /\ Unmarked(m) \cap Marked(m) = {}
    BY <1>9
  <2>2. Cardinality(Unmarked(m)) \in Nat /\ Cardinality(Marked(m)) \in Nat /\ Cardinality({}) = 0
    BY <1>9, FS_CardinalityType, FS_EmptySet
  <2>3. Cardinality(Unmarked(m) \cup Marked(m))
          = Cardinality(Unmarked(m)) + Cardinality(Marked(m)) - Cardinality(Unmarked(m) \cap Marked(m))
    BY <1>9, FS_Union
  <2>4. PICK x, y : x = Cardinality(Unmarked(m)) /\ y = Cardinality(Marked(m))
    OBVIOUS
  <2>5. Cardinality(1..n) = x + y - 0
    BY <2>1, <2>2, <2>3, <2>4
  <2>6. Cardinality(1..n) = x + y
    BY <2>2, <2>4, <2>5
  <2>. QED BY <2>2, <2>4, <2>6
<1>11. c = Cardinality(1..n) /\ Cardinality(1..n) = n
  <2>1. Cardinality(Mails) \in Nat
    BY FS_CardinalityType, MailsAssumption
  <2>2. n \in Nat
    BY <2>1
  <2>3. Cardinality(1..n) = n
    BY <2>2, FS_Interval
  <2>. QED BY <1>3, <1>10, <2>3 DEF Counted
<1>12. PICK u, k : u = SumOver(Sizes(m), Unmarked(m)) /\ k = SumOver(Sizes(m), Marked(m))
  OBVIOUS
<1>13. /\ u \in Int /\ k \in Int /\ SumOver(Sizes(m), 1..n) = u + k
       /\ SumOfSizes(m, Marked(m)) = k /\ m.total = ToInt(u)
  <2>1. \A x \in 1..n : Sizes(m)[x] \in Int
    BY <1>2, SizesAreInts
  <2>2. Marked(m) \in SUBSET ((1..n) \ Unmarked(m)) /\ Unmarked(m) \cup Marked(m) = 1..n
    BY <1>9
  <2>3. SumOver(Sizes(m), Unmarked(m) \cup Marked(m)) = u + k
    <3>1. PICK A, B, S : A = Unmarked(m) /\ B = Marked(m) /\ S = 1..n
      OBVIOUS
    <3>2. PICK w : w = Sizes(m)
      OBVIOUS
    <3>3. /\ IsFiniteSet(S) /\ (\A x \in S : w[x] \in Int) /\ A \in SUBSET S
          /\ B \in SUBSET (S \ A)
      BY <1>9, <2>1, <2>2, <3>1, <3>2
    <3>4. SumOver(w, A \cup B) = SumOver(w, A) + SumOver(w, B)
      BY <3>3, SumUnion
    <3>. QED BY <1>12, <3>1, <3>2, <3>4
  <2>4. SumOfSizes(m, Marked(m)) = k /\ SumOfSizes(m, Unmarked(m)) = u
    BY <1>2, <1>9, <1>12, SizesSum
  <2>5. u \in Int /\ k \in Int
    BY <1>9, <1>12, <2>1, SumOverType
  <2>. QED BY <2>2, <2>3, <2>4, <2>5 DEF Counted
<1>14. t = ToInt(u + k) /\ t \in Int
  <2>1. ToInt(u) \in Int /\ Same(ToInt(u), u) /\ Same(k, k)
    BY <1>13, ToIntTurns, SameRefl
  <2>2. Same(ToInt(u) + k, u + k) /\ ToInt(u) + k \in Int /\ u + k \in Int
    <3>1. Same(ToInt(u) + k, u + k)
      BY <1>13, <2>1, SameAdds
    <3>2. ToInt(u) + k \in Int /\ u + k \in Int
      BY <1>13, <2>1
    <3>. QED BY <3>1, <3>2
  <2>3. ToInt(ToInt(u) + k) = ToInt(u + k) /\ ToInt(u + k) \in Int
    BY <2>2, SameToInt, ToIntTurns
  <2>. QED BY <1>3, <1>13, <2>3
<1>15. Numbered(d)
  <2>1. mk \in UNION {[1..j -> BOOLEAN] : j \in 0..Cardinality(Mails)} /\ mk \in [1..n -> BOOLEAN]
    BY <1>3
  <2>2. c \in 0..Cardinality(Mails)
    BY <1>11
  <2>. QED BY <1>4, <1>5, <1>6, <1>14, <2>1, <2>2 DEF Numbered, Manager
<1>16. SumOfSizes(d, Unmarked(d)) = u + k
  <2>1. SumOfSizes(d, Unmarked(d)) = SumOver(Sizes(d), Unmarked(d))
    BY <1>7, <1>8, <1>15, SizesSum
  <2>. QED BY <1>7, <1>8, <1>13, <2>1
<1>17. Counted(d)
  BY <1>6, <1>8, <1>11, <1>14, <1>16 DEF Counted
<1>. QED BY <1>1, <1>8, <1>15, <1>17

\* Where all sizes together fit, no sum of sizes wraps.
LEMMA NothingWraps ==
    ASSUME SizesFit, NEW m, Numbered(m), NEW S \in SUBSET MessageNumbers(m)
    PROVE  /\ SumOfSizes(m, S) \in Nat /\ ToInt(SumOfSizes(m, S)) = SumOfSizes(m, S)
           /\ RFC1939!Octets(m.files, S) = SumOfSizes(m, S)
           /\ \A i \in S : SizeOf(m, i) \in Nat /\ SizeOf(m, i) =< SumOfSizes(m, S)
<1>1. PICK n \in 0..Cardinality(Mails) :
               /\ MessageNumbers(m) = 1..n /\ m.files \in [1..n -> Mails]
               /\ \A i, j \in 1..n : i # j => m.files[i] # m.files[j]
  BY NumberedFacts
<1>2. n \in Nat
  BY FS_CardinalityType, MailsAssumption
<1>3. PICK all : all = SumOver(FileSize, Mails)
  OBVIOUS
<1>4. 2 * all < IntWidth
  <2>1. MapThenSumSet(LAMBDA f : FileSize[f], Mails) = SumOver(FileSize, Mails)
    BY DEF MapThenSumSet, MapThenFoldSet, SumOver, IsSum, SumStep, Pick
  <2>. QED BY <1>3, <2>1 DEF SizesFit
<1>5. \A f \in Mails : FileSize[f] \in Nat /\ FileSize[f] \in Int
  BY SizeAssumption
<1>6. IntWidth \in Nat
  BY WidthAssumption
<1>7. all \in Nat
  <2>1. Mails \in SUBSET Mails
    OBVIOUS
  <2>. QED BY <1>3, <1>5, <2>1, MailsAssumption, SumGrows
<1>8. ASSUME NEW f \in Mails PROVE ToInt(FileSize[f]) = FileSize[f]
  <2>1. Mails \in SUBSET Mails
    OBVIOUS
  <2>2. FileSize[f] =< SumOver(FileSize, Mails)
    BY <1>5, <2>1, MailsAssumption, TermBelow
  <2>4. FileSize[f] =< all /\ FileSize[f] \in Nat
    BY <1>3, <1>5, <2>2
  <2>5. 2 * FileSize[f] < IntWidth
    BY <1>4, <1>6, <1>7, <2>4
  <2>. QED BY <2>4, <2>5, SmallInt
<1>9. \A i \in 1..n : SizeOf(m, i) = FileSize[m.files[i]] /\ m.files[i] \in Mails /\ SizeOf(m, i) \in Nat
  BY <1>1, <1>5, <1>8 DEF SizeOf
<1>10. PICK w, x : w = Sizes(m) /\ x = SumOver(w, S)
  OBVIOUS
<1>11. \A i \in 1..n : w[i] = SizeOf(m, i) /\ w[i] \in Nat /\ w[i] \in Int
  BY <1>1, <1>9, <1>10 DEF Sizes
<1>12. IsFiniteSet(1..n) /\ S \in SUBSET (1..n) /\ IsFiniteSet(S)
  BY <1>1, SetsOfNumbers, FS_Subset
<1>13. SumOfSizes(m, S) = x
  BY <1>10, SizesSum
<1>14. x = SumOver(FileSize, {m.files[i] : i \in S})
  <2>1. PICK fs : fs = m.files
    OBVIOUS
  <2>2. \A i \in 1..n : w[i] = FileSize[fs[i]]
    BY <1>9, <1>11, <2>1
  <2>3. \A s \in SUBSET (1..n) : SumOver(w, s) = SumOver(FileSize, {fs[i] : i \in s})
    <3>1. fs \in [1..n -> Mails] /\ \A i, j \in 1..n : i # j => fs[i] # fs[j]
      BY <1>1, <2>1
    <3>2. \A f \in Mails : FileSize[f] \in Int
      BY <1>5
    <3>3. PICK fz : fz = FileSize
      OBVIOUS
    <3>4. (\A f \in Mails : fz[f] \in Int) /\ \A i \in 1..n : w[i] = fz[fs[i]]
      BY <2>2, <3>2, <3>3
    <3>5. \A s \in SUBSET (1..n) : SumOver(w, s) = SumOver(fz, {fs[i] : i \in s})
      BY <1>2, <3>1, <3>4, MailsAssumption, SumNumbered, SMTT(30)
    <3>. QED BY <3>3, <3>5
  <2>. QED BY <1>10, <1>12, <2>1, <2>3
<1>15. x \in Nat /\ x =< all
  <2>1. PICK I : I = {m.files[i] : i \in S}
    OBVIOUS
  <2>2. I \in SUBSET Mails /\ Mails \in SUBSET Mails
    BY <1>1, <1>12, <2>1
  <2>. QED BY <1>3, <1>5, <1>14, <2>1, <2>2, MailsAssumption, SumGrows
<1>16. ToInt(x) = x
  <2>1. 2 * x < IntWidth
    BY <1>4, <1>6, <1>7, <1>15
  <2>. QED BY <1>15, <2>1, SmallInt
<1>17. RFC1939!Octets(m.files, S) = x
  <2>1. \A i \in S : w[i] = FileSize[m.files[i]]
    BY <1>9, <1>11, <1>12
  <2>. QED BY <1>10, <1>12, <2>1, OctetsAreSummed
<1>18. ASSUME NEW i \in S PROVE SizeOf(m, i) =< x
  <2>1. w[i] =< SumOver(w, S)
    BY <1>11, <1>12, TermBelow
  <2>. QED BY <1>10, <1>11, <1>12, <2>1
<1>. QED BY <1>9, <1>12, <1>13, <1>15, <1>16, <1>17, <1>18

----------------------------------------------------------------------------
(* What a pass over the directory has listed *)

EntriesOf(fs) == {fs[i] : i \in DOMAIN fs}

\* A numbering of a set takes each of its elements.
LEMMA NumbersAll ==
    ASSUME NEW S \in SUBSET Mails, NEW fs \in SetToSeqs(S)
    PROVE  /\ EntriesOf(fs) = S /\ Len(fs) = Cardinality(S) /\ Len(fs) \in Nat
           /\ DOMAIN fs = 1..Len(fs) /\ fs \in [1..Len(fs) -> S]
<1>1. PICK n \in 0..Cardinality(Mails) :
          /\ n = Cardinality(S) /\ fs \in [1..n -> S]
          /\ \A i, j \in 1..n : i # j => fs[i] # fs[j]
  BY SequencesOf
<1>2. IsFiniteSet(S) /\ n \in Nat
  BY FS_Subset, FS_CardinalityType, MailsAssumption
<1>3. fs \in Injection(1..n, S)
  BY <1>1 DEF Injection, IsInjective
<1>4. Cardinality(1..n) = Cardinality(S)
  BY <1>1, <1>2, FS_Interval
<1>5. fs \in Surjection(1..n, S)
  BY <1>2, <1>3, <1>4, FS_Injection
<1>6. DOMAIN fs = 1..n /\ Len(fs) = n
  BY <1>1, <1>2
<1>7. \A y \in S : \E i \in 1..n : fs[i] = y
  BY <1>5 DEF Surjection
<1>8. \A i \in 1..n : fs[i] \in S
  BY <1>1
<1>9. EntriesOf(fs) = S
  BY <1>6, <1>7, <1>8 DEF EntriesOf
<1>. QED BY <1>1, <1>2, <1>6, <1>9

\* One more entry numbers one file more.
LEMMA NumberOneMore ==
    ASSUME NEW S \in SUBSET Mails, NEW fs \in SetToSeqs(S), NEW f \in Mails \ S
    PROVE  Append(fs, f) \in SetToSeqs(S \cup {f})
<1>1. PICK n \in 0..Cardinality(Mails) :
          /\ n = Cardinality(S) /\ fs \in [1..n -> S]
          /\ \A i, j \in 1..n : i # j => fs[i] # fs[j]
  BY SequencesOf
<1>2. IsFiniteSet(S) /\ n \in Nat
  BY FS_Subset, FS_CardinalityType, MailsAssumption
<1>3. Cardinality(S \cup {f}) = n + 1
  BY <1>1, <1>2, FS_AddElement
<1>4. PICK gs : gs = Append(fs, f)
  OBVIOUS
<1>5. gs \in [1..(n + 1) -> S \cup {f}] /\ (\A i \in 1..n : gs[i] = fs[i]) /\ gs[n + 1] = f
  <2>1. Len(fs) = n /\ DOMAIN fs = 1..n /\ \A i \in 1..n : fs[i] \in S
    BY <1>1, <1>2
  <2>2. fs \in Seq(S \cup {f}) /\ f \in S \cup {f}
    BY <1>2, <2>1, <1>1
  <2>6. /\ gs \in Seq(S \cup {f}) /\ Len(gs) = n + 1
        /\ (\A i \in 1..n : gs[i] = fs[i]) /\ gs[n + 1] = f
    BY <1>4, <2>1, <2>2, AppendProperties
  <2>. QED BY <1>2, <2>6
<1>6. \A i, j \in 1..(n + 1) : i # j => gs[i] # gs[j]
  <2>. SUFFICES ASSUME NEW i \in 1..(n + 1), NEW j \in 1..(n + 1), i # j, gs[i] = gs[j]
                PROVE FALSE
    OBVIOUS
  <2>1. \A k \in 1..n : gs[k] \in S /\ gs[k] # f
    BY <1>1, <1>5
  <2>2. \A k \in 1..(n + 1) : k \in 1..n \/ k = n + 1
    BY <1>2
  <2>3. i \in 1..n /\ j \in 1..n
    BY <1>5, <2>1, <2>2
  <2>. QED BY <1>1, <1>5, <2>3
<1>. QED BY <1>3, <1>4, <1>5, <1>6 DEF SetToSeqs

----------------------------------------------------------------------------
(* The session *)

\* What every state has: the counters agree with the marks.
CallsInv ==
    /\ disk \subseteq Mails
    /\ errno \in {"OK", "EINVAL", "ENOENT", "ENOMEM", "EIO"}
    /\ Open => Numbered(mm) /\ Counted(mm)

\* What message_manager_create has on its way: the directory is between what
\* a pass must and may return, and is both, and of the size that was
\* counted, as long as nothing happened to it.
PassInv ==
    /\ pass \in {"none", "counting", "listing", "wild"}
    /\ steady \subseteq seen /\ seen \subseteq Mails
    /\ disturbed \in BOOLEAN
    /\ size \in 0..Cardinality(Mails)
    /\ listed \in SetToSeqs(Entries) /\ Entries \subseteq seen
    /\ Len(listed) =< size
    /\ pass # "none" => ~Open
    /\ pass # "listing" => listed = <<>>
    /\ pass \in {"counting", "listing"} => steady \subseteq disk /\ disk \subseteq seen
    /\ pass \in {"counting", "listing"} /\ ~disturbed => steady = disk /\ seen = disk
    /\ pass = "listing" /\ ~disturbed => size = Cardinality(disk)
    /\ pass = "wild" => disturbed

SessionInv == CallsInv /\ PassInv

\* A message manager is one.
LEMMA ManagerIsOpen == ASSUME NEW m, Numbered(m) PROVE m # NoManager
BY NoManagerAssumption DEF Numbered

\* DELE succeeds on messages that are not marked only.
LEMMA UnmarkedMeansOk ==
    ASSUME NEW m, NEW i, MessageResult(m, i) = "OK"
    PROVE  i \in Unmarked(m) /\ i \in MessageNumbers(m)
BY DEF MessageResult, Unmarked, Marked

\* Nothing is listed.
LEMMA NothingListed == <<>> \in SetToSeqs({}) /\ EntriesOf(<<>>) = {} /\ Len(<<>>) = 0
<1>1. Cardinality({}) = 0
  BY FS_EmptySet
<1>2. <<>> \in [1..0 -> {}] /\ \A i, j \in 1..0 : i # j => <<>>[i] # <<>>[j]
  OBVIOUS
<1>3. EntriesOf(<<>>) = {}
  BY DEF EntriesOf
<1>. QED BY <1>1, <1>2, <1>3 DEF SetToSeqs

\* The end of message_manager_create leaves nothing behind, and is not wild
\* unless something happened.
LEMMA EndKeeps ==
    ASSUME NEW to \in {"none", "wild"}, EndCreate(to), disturbed' \in BOOLEAN,
           to = "wild" => ~Open' /\ disturbed'
    PROVE  PassInv'
<1>1. pass' = to /\ steady' = {} /\ seen' = {} /\ size' = 0 /\ listed' = <<>>
  BY DEF EndCreate
<1>2. Entries' = {} /\ listed' \in SetToSeqs(Entries') /\ Len(listed') = 0
  BY <1>1, NothingListed DEF Entries, EntriesOf
<1>3. Cardinality(Mails) \in Nat
  BY FS_CardinalityType, MailsAssumption
<1>. QED BY <1>1, <1>2, <1>3 DEF PassInv

\* A disturbance or not, what is listed is as many as there are entries.
LEMMA ListedFacts ==
    ASSUME SessionInv
    PROVE  /\ Entries \in SUBSET Mails /\ listed \in SetToSeqs(Entries)
           /\ Len(listed) = Cardinality(Entries) /\ Len(listed) \in Nat /\ size \in Nat
           /\ Len(listed) =< size
<1>1. Entries \in SUBSET Mails /\ listed \in SetToSeqs(Entries) /\ Len(listed) =< size
  BY DEF SessionInv, PassInv
<1>2. size \in Nat
  BY FS_CardinalityType, MailsAssumption DEF SessionInv, PassInv
<1>. QED BY <1>1, <1>2, NumbersAll

\* Where nothing happened the entries are files of the directory, and are
\* all of them exactly when they are as many as were counted.
LEMMA Undisturbed ==
    ASSUME SessionInv, pass = "listing", ~disturbed
    PROVE  /\ steady = disk /\ seen = disk /\ Entries \subseteq disk
           /\ Len(listed) = size <=> Entries = disk
<1>1. steady = disk /\ seen = disk /\ Entries \subseteq disk /\ size = Cardinality(disk) /\ disk \in SUBSET Mails
  BY DEF SessionInv, PassInv, CallsInv
<1>2. IsFiniteSet(disk)
  BY <1>1, FS_Subset, MailsAssumption
<1>3. Len(listed) = Cardinality(Entries)
  BY ListedFacts
<1>4. Cardinality(Entries) = Cardinality(disk) => Entries = disk
  BY <1>1, <1>2, FS_Subset
<1>. QED BY <1>1, <1>3, <1>4

\* The calls of message_manager_create.
LEMMA CreateKept == SessionInv /\ Create => SessionInv'
<1>. SUFFICES ASSUME SessionInv, Create PROVE SessionInv'
  OBVIOUS
<1>1. CASE OpenMaildrop
  <2>1. /\ ~Open /\ pass = "none" /\ pass' = "counting" /\ steady' = disk /\ seen' = disk
        /\ disturbed' = FALSE /\ disk' = disk /\ mm' = mm /\ errno' = errno
        /\ size' = size /\ listed' = listed
    BY <1>1 DEF OpenMaildrop, Idle, BeginPass
  <2>2. CallsInv'
    BY <2>1 DEF SessionInv, CallsInv, Open
  <2>3. listed = <<>> /\ Entries' = {} /\ listed' \in SetToSeqs(Entries')
    <3>1. listed = <<>>
      BY <2>1 DEF SessionInv, PassInv
    <3>. QED BY <2>1, <3>1, NothingListed DEF Entries, EntriesOf
  <2>4. PassInv'
    BY <2>1, <2>3 DEF SessionInv, PassInv, CallsInv, Open
  <2>. QED BY <2>2, <2>4 DEF SessionInv
<1>2. CASE Refused
  BY <1>2 DEF Refused, Idle, passVars, SessionInv, CallsInv, PassInv, Open, Entries
<1>3. CASE Rewind
  <2>1. PICK S \in SUBSET seen : PassOver(S) /\ size' = Cardinality(S)
    BY <1>3 DEF Rewind
  <2>2. /\ pass = "counting" /\ pass' = "listing" /\ steady' = disk /\ seen' = disk
        /\ disk' = disk /\ mm' = mm /\ errno' = errno /\ listed' = listed /\ disturbed' = disturbed
    BY <1>3 DEF Rewind, BeginPass
  <2>3. CallsInv'
    BY <2>2 DEF SessionInv, CallsInv, Open
  <2>4. listed = <<>> /\ Entries' = {} /\ listed' \in SetToSeqs(Entries') /\ Len(listed') = 0
    <3>1. listed = <<>>
      BY <2>2 DEF SessionInv, PassInv
    <3>. QED BY <2>2, <3>1, NothingListed DEF Entries, EntriesOf
  <2>5. S \in SUBSET Mails /\ (~disturbed => S = disk)
    BY <2>1, <2>2 DEF SessionInv, PassInv, PassOver
  <2>6. size' \in 0..Cardinality(Mails) /\ size' \in Nat
    <3>1. IsFiniteSet(S) /\ Cardinality(S) =< Cardinality(Mails)
      BY <2>5, FS_Subset, MailsAssumption
    <3>2. Cardinality(S) \in Nat /\ Cardinality(Mails) \in Nat
      BY <3>1, FS_CardinalityType, MailsAssumption
    <3>. QED BY <2>1, <3>1, <3>2
  <2>7. PassInv'
    BY <2>1, <2>2, <2>4, <2>5, <2>6 DEF SessionInv, PassInv, CallsInv, Open
  <2>. QED BY <2>3, <2>7 DEF SessionInv
<1>4. CASE NoArrays
  <2>1. EndCreate("none") /\ disk' = disk /\ mm' = mm /\ errno' = "ENOMEM" /\ disturbed' = disturbed
    BY <1>4 DEF NoArrays
  <2>2. PassInv'
    BY <2>1, EndKeeps DEF SessionInv, PassInv
  <2>. QED BY <2>1, <2>2 DEF SessionInv, CallsInv, Open
<1>5. ASSUME NEW f \in Mails, ListFile(f) PROVE SessionInv'
  <2>1. /\ pass = "listing" /\ f \in seen /\ f \notin Entries /\ Len(listed) < size
        /\ listed' = Append(listed, f) /\ disk' = disk /\ mm' = mm /\ errno' = errno
        /\ pass' = pass /\ steady' = steady /\ seen' = seen /\ size' = size /\ disturbed' = disturbed
    BY <1>5 DEF ListFile
  <2>2. CallsInv'
    BY <2>1 DEF SessionInv, CallsInv, Open
  <2>3. Entries \in SUBSET Mails /\ listed \in SetToSeqs(Entries) /\ Len(listed) \in Nat /\ size \in Nat
    BY ListedFacts
  <2>4. listed' \in SetToSeqs(Entries \cup {f})
    BY <2>1, <2>3, NumberOneMore
  <2>5. Entries \cup {f} \in SUBSET Mails
    BY <2>3
  <2>6. EntriesOf(listed') = Entries \cup {f}
    BY <2>4, <2>5, NumbersAll
  <2>7. Entries' = Entries \cup {f}
    BY <2>6 DEF Entries, EntriesOf
  <2>8. Len(listed') =< size
    <3>1. PICK n \in Nat : n = Len(listed) /\ listed \in [1..n -> Entries]
      BY <2>3, NumbersAll
    <3>2. Len(listed') = n + 1
      BY <2>1, <3>1
    <3>. QED BY <2>1, <2>3, <3>1, <3>2
  <2>9. PassInv'
    BY <2>1, <2>4, <2>7, <2>8 DEF SessionInv, PassInv, Open
  <2>. QED BY <2>2, <2>9 DEF SessionInv
<1>6. ASSUME NEW f \in Mails, StatFails(f) PROVE SessionInv'
  <2>1. /\ pass = "listing" /\ f \in seen /\ f \notin disk /\ FreeHalfFilled /\ errno' = "ENOENT"
        /\ disk' = disk /\ mm' = mm /\ disturbed' = disturbed
    BY <1>6 DEF StatFails
  <2>2. disturbed /\ ~Open
    BY <2>1 DEF SessionInv, PassInv
  <2>3. PICK to \in {"none", "wild"} : EndCreate(to)
    BY <2>1 DEF FreeHalfFilled
  <2>4. PassInv'
    BY <2>1, <2>2, <2>3, EndKeeps DEF Open
  <2>. QED BY <2>1, <2>4 DEF SessionInv, CallsInv, Open
<1>7. ASSUME NEW f \in Mails, NoName(f) PROVE SessionInv'
  <2>1. /\ pass = "listing" /\ FreeHalfFilled /\ errno' = "ENOMEM"
        /\ disk' = disk /\ mm' = mm /\ disturbed' = TRUE
    BY <1>7 DEF NoName
  <2>2. ~Open
    BY <2>1 DEF SessionInv, PassInv
  <2>3. PICK to \in {"none", "wild"} : EndCreate(to)
    BY <2>1 DEF FreeHalfFilled
  <2>4. PassInv'
    BY <2>1, <2>2, <2>3, EndKeeps DEF Open
  <2>. QED BY <2>1, <2>4 DEF SessionInv, CallsInv, Open
<1>8. ASSUME NEW f \in Mails, Overrun(f) PROVE SessionInv'
  <2>1. /\ pass = "listing" /\ f \in seen /\ f \notin Entries /\ Len(listed) = size /\ EndCreate("wild")
        /\ disk' = disk /\ mm' = mm /\ errno' = errno /\ disturbed' = disturbed
    BY <1>8 DEF Overrun
  <2>2. disturbed /\ ~Open
    <3>1. ~Open /\ disturbed \in BOOLEAN
      BY <2>1 DEF SessionInv, PassInv
    <3>. QED BY <2>1, <3>1, Undisturbed
  <2>3. PassInv'
    BY <2>1, <2>2, EndKeeps DEF Open
  <2>. QED BY <2>1, <2>3 DEF SessionInv, CallsInv, Open
<1>9. CASE Created
  <2>1. /\ pass = "listing" /\ Len(listed) = size /\ mm' = NewManager(size, listed)
        /\ EndCreate("none") /\ errno' = "OK" /\ disk' = disk /\ disturbed' = disturbed
    BY <1>9 DEF Created
  <2>2. Numbered(mm') /\ Counted(mm')
    BY <2>1, ListedFacts, CreateCounts
  <2>3. PassInv'
    BY <2>1, EndKeeps DEF SessionInv, PassInv
  <2>. QED BY <2>1, <2>2, <2>3 DEF SessionInv, CallsInv
<1>10. CASE Unfilled
  <2>1. /\ pass = "listing" /\ PassOver(Entries) /\ Len(listed) < size /\ EndCreate("wild")
        /\ disk' = disk /\ mm' = mm /\ errno' = errno /\ disturbed' = disturbed
    BY <1>10 DEF Unfilled
  <2>2. disturbed /\ ~Open
    <3>1. ~Open /\ disturbed \in BOOLEAN
      BY <2>1 DEF SessionInv, PassInv
    <3>2. Len(listed) # size
      BY <2>1, ListedFacts
    <3>3. SUFFICES ASSUME ~disturbed PROVE FALSE
      BY <3>1
    <3>4. steady = disk /\ seen = disk /\ Entries # disk
      BY <2>1, <3>2, <3>3, Undisturbed
    <3>5. steady \subseteq Entries /\ Entries \subseteq seen
      BY <2>1 DEF PassOver
    <3>. QED BY <3>4, <3>5
  <2>3. PassInv'
    BY <2>1, <2>2, EndKeeps DEF Open
  <2>. QED BY <2>1, <2>3 DEF SessionInv, CallsInv, Open
<1>. QED BY <1>1, <1>2, <1>3, <1>4, <1>5, <1>6, <1>7, <1>8, <1>9, <1>10 DEF Create

\* A step that leaves the passes alone and the session no more open than it
\* was keeps what is known of the passes.
LEMMA PassesKept ==
    ASSUME SessionInv, UNCHANGED passVars, Open
    PROVE  PassInv'
<1>1. pass = "none"
  BY DEF SessionInv, PassInv
<1>. QED BY <1>1 DEF SessionInv, PassInv, passVars, Entries

\* Every step keeps the counters.
LEMMA SessionKept == SessionInv /\ [Next]_sessionVars => SessionInv'
<1>. SUFFICES ASSUME SessionInv, [Next]_sessionVars PROVE SessionInv'
  OBVIOUS
<1>1. CASE UNCHANGED sessionVars
  BY <1>1 DEF sessionVars, passVars, SessionInv, CallsInv, PassInv, Open, Entries
<1>2. CASE Create
  BY <1>2, CreateKept
<1>3. CASE \E i \in Asked : Dele(i)
  <2>1. PICK i \in Asked : Dele(i)
    BY <1>3
  <2>2. /\ errno' = MessageResult(mm, i) /\ disk' = disk /\ Numbered(mm) /\ Counted(mm)
        /\ mm' = IF errno' = "OK" THEN DeleteMessage(mm, i) ELSE mm
    BY <2>1 DEF Dele, SessionInv, CallsInv
  <2>3. errno' \in {"OK", "EINVAL", "ENOENT", "EIO"}
    BY <2>2 DEF MessageResult
  <2>4. Numbered(mm') /\ Counted(mm')
    <3>1. CASE errno' = "OK"
      <4>1. i \in Unmarked(mm) /\ mm' = DeleteMessage(mm, i)
        BY <2>2, <3>1, UnmarkedMeansOk
      <4>. QED BY <2>2, <4>1, DeleteCounts
    <3>2. CASE errno' # "OK"
      BY <2>2, <3>2
    <3>. QED BY <3>1, <3>2
  <2>5. PassInv'
    BY <2>1, PassesKept DEF Dele
  <2>. QED BY <2>2, <2>3, <2>4, <2>5 DEF SessionInv, CallsInv
<1>4. CASE Rset
  <2>1. mm' = ResetDeletedFlag(mm) /\ errno' = "OK" /\ disk' = disk /\ Numbered(mm) /\ Counted(mm)
    BY <1>4 DEF Rset, SessionInv, CallsInv
  <2>2. Numbered(mm') /\ Counted(mm')
    BY <2>1, ResetCounts
  <2>3. PassInv'
    BY <1>4, PassesKept DEF Rset
  <2>. QED BY <2>1, <2>2, <2>3 DEF SessionInv, CallsInv
<1>5. CASE Quit
  <2>1. disk' \subseteq disk /\ errno' \in {"OK", "EIO"} /\ mm' = NoManager
    BY <1>5 DEF Quit, DeleteMarkedResult
  <2>2. PassInv'
    BY <1>5, PassesKept DEF Quit
  <2>. QED BY <2>1, <2>2 DEF SessionInv, CallsInv, Open
<1>6. CASE Drop
  <2>1. PassInv'
    BY <1>6, PassesKept DEF Drop
  <2>. QED BY <1>6, <2>1 DEF Drop, SessionInv, CallsInv, Open
<1>7. CASE \E m \in Mails : Environment(m)
  <2>1. PICK m \in Mails : Environment(m)
    BY <1>7
  <2>2. /\ disk' \subseteq Mails /\ mm' = mm /\ errno' = errno /\ pass' = pass /\ size' = size /\ listed' = listed
    BY <2>1 DEF Environment, SessionInv, CallsInv
  <2>3. CallsInv'
    BY <2>2 DEF SessionInv, CallsInv, Open
  <2>4. Entries' = Entries
    BY <2>2 DEF Entries
  <2>5. CASE pass \in {"counting", "listing"}
    <3>1. /\ steady' = steady \cap disk' /\ seen' = seen \cup disk'
          /\ disturbed' = (disturbed \/ disk' # disk)
      BY <2>1, <2>5 DEF Environment
    <3>2. disturbed' \in BOOLEAN /\ (~disturbed' => ~disturbed /\ disk' = disk)
      BY <3>1 DEF SessionInv, PassInv
    <3>. QED BY <2>2, <2>3, <2>4, <2>5, <3>1, <3>2 DEF SessionInv, PassInv, CallsInv, Open
  <2>6. CASE pass \notin {"counting", "listing"}
    <3>1. steady' = steady /\ seen' = seen /\ disturbed' = disturbed
      BY <2>1, <2>6 DEF Environment
    <3>. QED BY <2>2, <2>3, <2>4, <2>6, <3>1 DEF SessionInv, PassInv, Open
  <2>. QED BY <2>5, <2>6
<1>. QED BY <1>1, <1>2, <1>3, <1>4, <1>5, <1>6, <1>7 DEF Next

\* There is no session at the start.
LEMMA SessionInitially == Init => SessionInv
<1>. SUFFICES ASSUME Init PROVE SessionInv
  OBVIOUS
<1>1. CallsInv
  BY DEF Init, CallsInv, Open
<1>2. Entries = {} /\ listed \in SetToSeqs(Entries) /\ Len(listed) = 0
  BY NothingListed DEF Init, Entries, EntriesOf
<1>3. Cardinality(Mails) \in Nat
  BY FS_CardinalityType, MailsAssumption
<1>4. /\ pass = "none" /\ steady = {} /\ seen = {} /\ size = 0 /\ listed = <<>> /\ disturbed = FALSE
  BY DEF Init
<1>5. /\ size \in 0..Cardinality(Mails) /\ Len(listed) =< size
      /\ listed \in SetToSeqs(Entries) /\ Entries \subseteq seen
  BY <1>2, <1>3, <1>4
<1>6. PassInv
  BY <1>4, <1>5, Zenon DEF PassInv
<1>. QED BY <1>1, <1>6 DEF SessionInv

\* The counters are always right.
LEMMA SessionAlways == Spec => []SessionInv
<1>1. Init => SessionInv
  BY SessionInitially
<1>2. SessionInv /\ [Next]_sessionVars => SessionInv'
  BY SessionKept
<1>. QED BY <1>1, <1>2, PTL DEF Spec

\* The types of a session, for a maildrop of any size: the photograph, its
\* marks, and a count that is never negative.
THEOREM SessionTypes == Spec => []TypeOK
<1>1. SessionInv => TypeOK
  <2>. SUFFICES ASSUME SessionInv PROVE TypeOK
    OBVIOUS
  <2>1. listed \in UNION {SetToSeqs(S) : S \in SUBSET Mails}
    BY ListedFacts
  <2>. QED BY <2>1 DEF SessionInv, CallsInv, PassInv, TypeOK, Numbered
<1>. QED BY <1>1, SessionAlways, PTL

\* STAT tells what LIST tells, through any DELE and RSET and with sizes that
\* wrap an int as well.
THEOREM StatIsListing == Spec => []StatAgreesWithList
<1>1. SessionInv => StatAgreesWithList
  <2>. SUFFICES ASSUME SessionInv, Open PROVE MaildropInfo(mm) =
                   <<Cardinality(DOMAIN Listing(mm)),
                     ToInt(MapThenSumSet(LAMBDA i : Listing(mm)[i], DOMAIN Listing(mm)))>>
    BY DEF StatAgreesWithList
  <2>1. Numbered(mm) /\ Counted(mm)
    BY DEF SessionInv, CallsInv
  <2>2. PICK l, U : l = Listing(mm) /\ U = Unmarked(mm)
    OBVIOUS
  <2>3. DOMAIN l = U /\ \A i \in U : l[i] = SizeOf(mm, i)
    BY <2>2 DEF Listing
  <2>4. IsFiniteSet(U)
    BY <2>1, <2>2, SetsOfNumbers
  <2>5. MapThenSumSet(LAMBDA i : l[i], U) = SumOver(l, U)
    BY DEF MapThenSumSet, MapThenFoldSet, SumOver, IsSum, SumStep, Pick
  <2>6. SumOfSizes(mm, U) = SumOver(l, U)
    BY <2>3, <2>4, SizesAreSummed
  <2>7. MaildropInfo(mm) = <<Cardinality(U), ToInt(SumOver(l, U))>>
    BY <2>1, <2>2, <2>6 DEF MaildropInfo, Counted
  <2>8. MapThenSumSet(LAMBDA i : Listing(mm)[i], DOMAIN Listing(mm)) = SumOver(l, U)
    BY <2>2, <2>3 DEF MapThenSumSet, MapThenFoldSet, SumOver, IsSum, SumStep, Pick
  <2>. QED BY <2>2, <2>3, <2>7, <2>8
<1>. QED BY <1>1, SessionAlways, PTL

\* A login is undefined only if a file came or went while the directory was
\* read, or memory ran out half way: by itself the listing fills the arrays
\* the count has made, and no more.
THEOREM CreateIsDefined == Spec => []WildOnlyIfDisturbed
<1>1. SessionInv => WildOnlyIfDisturbed
  BY DEF SessionInv, PassInv, WildOnlyIfDisturbed
<1>. QED BY <1>1, SessionAlways, PTL

\* QUIT answers +OK if and only if it has removed every marked file itself,
\* whichever removals fail and whatever other programs removed before.
THEOREM QuitMeansGone == Spec => QuitOkMeansGone
<1>. DEFINE Good == LET asked == FilesAt(mm, Marked(mm))
                        gone == disk \ disk'
                    IN gone \subseteq asked /\ (errno' = "OK" <=> gone = asked)
<1>1. [Next]_sessionVars => [Quit => Good]_sessionVars
  <2>. SUFFICES ASSUME Quit PROVE Good
    OBVIOUS
  <2>1. PICK failing : /\ disk' = disk \ Removed(mm, disk, failing)
                       /\ errno' = DeleteMarkedResult(mm, disk, failing)
    BY DEF Quit
  <2>2. Removed(mm, disk, failing) \subseteq disk /\ Removed(mm, disk, failing) \subseteq FilesAt(mm, Marked(mm))
    BY DEF Removed
  <2>3. disk \ disk' = Removed(mm, disk, failing)
    BY <2>1, <2>2
  <2>4. errno' = "OK" <=> Removed(mm, disk, failing) = FilesAt(mm, Marked(mm))
    BY <2>1 DEF DeleteMarkedResult
  <2>. QED BY <2>2, <2>3, <2>4
<1>. QED BY <1>1, PTL DEF Spec, QuitOkMeansGone

----------------------------------------------------------------------------
(* The refinement of Maildrop *)

\* The counters of a session are what STAT of RFC 1939 answers.
LEMMA InfoIsStat ==
    ASSUME SizesFit, NEW m, Numbered(m), Counted(m)
    PROVE  MaildropInfo(m) = RFC1939!StatOf(m.files, Marked(m))
<1>1. Unmarked(m) \in SUBSET MessageNumbers(m) /\ Unmarked(m) = DOMAIN m.files \ Marked(m)
  BY SetsOfNumbers DEF MessageNumbers
<1>2. /\ ToInt(SumOfSizes(m, Unmarked(m))) = SumOfSizes(m, Unmarked(m))
      /\ RFC1939!Octets(m.files, Unmarked(m)) = SumOfSizes(m, Unmarked(m))
  BY <1>1, NothingWraps
<1>3. MaildropInfo(m) = <<Cardinality(Unmarked(m)), RFC1939!Octets(m.files, Unmarked(m))>>
  BY <1>2 DEF MaildropInfo, Counted
<1>4. RFC1939!Cardinality(Unmarked(m)) = Cardinality(Unmarked(m))
  BY DEF RFC1939!Cardinality, Cardinality
<1>. QED BY <1>1, <1>3, <1>4 DEF RFC1939!StatOf

\* What a client sees of a session.
SeenMessages(m) == IF m # NoManager THEN m.files ELSE <<>>
SeenMarked(m) == IF m # NoManager THEN Marked(m) ELSE {}
SeenStat(m) == IF m # NoManager THEN MaildropInfo(m) ELSE <<0, 0>>

\* What is seen of an open session.
LEMMA SeenOpen ==
    ASSUME NEW m, Numbered(m)
    PROVE  /\ m # NoManager /\ SeenMessages(m) = m.files /\ SeenMarked(m) = Marked(m)
           /\ SeenStat(m) = MaildropInfo(m)
BY ManagerIsOpen DEF SeenMessages, SeenMarked, SeenStat

\* A listing that ends with every place filled opens the maildrop: readdir's
\* order is a numbering of files that are between what was there throughout
\* and what was there at all.
LEMMA CreatedIsOpen ==
    ASSUME SizesFit, SessionInv, SessionInv', Created PROVE RFC1939!Open
<1>1. PICK S : S = Entries
  OBVIOUS
<1>2. /\ pass = "listing" /\ steady \subseteq S /\ S \subseteq seen /\ Len(listed) = size
      /\ mm' = NewManager(size, listed) /\ pass' = "none" /\ disk' = disk
  BY <1>1 DEF Created, PassOver, EndCreate
<1>3. S \in SUBSET Mails /\ listed \in SetToSeqs(S) /\ size = Cardinality(S)
  BY <1>1, <1>2, ListedFacts
<1>4. PICK m : m = mm'
  OBVIOUS
<1>5. Numbered(m) /\ Counted(m)
  BY <1>2, <1>3, <1>4, CreateCounts
<1>6. m.files = listed /\ Marked(m) = {}
  BY <1>2, <1>4 DEF NewManager, Marked, MessageNumbers
<1>7. EntriesOf(listed) = S /\ listed \in [1..Cardinality(S) -> S]
  BY <1>3, NumbersAll
<1>8. {listed[i] : i \in DOMAIN listed} = S
  BY <1>7 DEF EntriesOf
<1>9. MaildropInfo(m) = RFC1939!StatOf(listed, {})
  BY <1>5, <1>6, InfoIsStat
<1>10. SeenMessages(mm') = listed /\ SeenMarked(mm') = {} /\ SeenStat(mm') = RFC1939!StatOf(listed, {})
       /\ mm' # NoManager
  BY <1>4, <1>5, <1>6, <1>9, SeenOpen
<1>11. listed \in [1..RFC1939!Cardinality(S) -> S]
  <2>1. RFC1939!Cardinality(S) = Cardinality(S)
    BY DEF RFC1939!Cardinality, Cardinality
  <2>. QED BY <1>7, <2>1
<1>. QED BY <1>2, <1>8, <1>10, <1>11
         DEF RFC1939!Open, RFC1939!NotOpening, Open, SeenMessages, SeenMarked, SeenStat

\* Counting is over: the maildrop begins to open.
LEMMA RewindIsBegin == ASSUME SessionInv, Rewind PROVE RFC1939!BeginOpen
<1>1. /\ pass = "counting" /\ pass' = "listing" /\ steady' = disk /\ seen' = disk
      /\ disk' = disk /\ mm' = mm
  BY DEF Rewind, BeginPass
<1>2. ~Open
  BY <1>1 DEF SessionInv, PassInv
<1>. QED BY <1>1, <1>2 DEF RFC1939!BeginOpen, Open

\* A listing that ends in any other way gives up.
LEMMA EndIsGiveUp ==
    ASSUME SessionInv, pass = "listing", NEW to \in {"none", "wild"}, EndCreate(to), UNCHANGED <<disk, mm>>
    PROVE  RFC1939!GiveUp
<1>1. pass' \in {"none", "wild"}
  BY DEF EndCreate
<1>. QED BY <1>1 DEF RFC1939!GiveUp, RFC1939!NotOpening, Open

\* The calls of message_manager_create.
LEMMA CreateIsOpening ==
    ASSUME SizesFit, SessionInv, SessionInv', Create
    PROVE  RFC1939!Next \/ UNCHANGED RFC1939!mdVars
<1>1. CASE OpenMaildrop \/ Refused \/ NoArrays
  <2>1. disk' = disk /\ mm' = mm /\ pass # "listing" /\ pass' # "listing"
    BY <1>1 DEF OpenMaildrop, Refused, NoArrays, Idle, EndCreate, passVars
  <2>. QED BY <2>1 DEF RFC1939!mdVars, RFC1939!openingVars, Open
<1>2. CASE Rewind
  BY <1>2, RewindIsBegin DEF RFC1939!Next
<1>3. CASE Created
  BY <1>3, CreatedIsOpen DEF RFC1939!Next
<1>4. CASE Unfilled
  <2>1. RFC1939!GiveUp
    BY <1>4, EndIsGiveUp DEF Unfilled
  <2>. QED BY <2>1 DEF RFC1939!Next
<1>5. ASSUME NEW f \in Mails, ListFile(f) PROVE UNCHANGED RFC1939!mdVars
  BY <1>5 DEF ListFile, RFC1939!mdVars, RFC1939!openingVars, Open
<1>6. ASSUME NEW f \in Mails, StatFails(f) \/ NoName(f) \/ Overrun(f) PROVE RFC1939!Next
  <2>1. pass = "listing" /\ UNCHANGED <<disk, mm>>
    BY <1>6 DEF StatFails, NoName, Overrun
  <2>2. PICK to \in {"none", "wild"} : EndCreate(to)
    BY <1>6 DEF StatFails, NoName, Overrun, FreeHalfFilled
  <2>3. RFC1939!GiveUp
    BY <2>1, <2>2, EndIsGiveUp
  <2>. QED BY <2>3 DEF RFC1939!Next
<1>. QED BY <1>1, <1>2, <1>3, <1>4, <1>5, <1>6 DEF Create

\* A step of a session that stays open and changes the marks alone.
LEMMA MarkIsMark ==
    ASSUME SizesFit, NEW m, Numbered(m), Counted(m), NEW m2, Numbered(m2), Counted(m2),
           m2.files = m.files
    PROVE  /\ SeenMessages(m2) = SeenMessages(m)
           /\ SeenStat(m2) = RFC1939!StatOf(SeenMessages(m), SeenMarked(m2))
BY InfoIsStat, SeenOpen

\* DELE marks, or is refused and changes nothing.
LEMMA DeleIsDele ==
    ASSUME SizesFit, SessionInv, SessionInv', NEW i \in Asked, Dele(i)
    PROVE  RFC1939!Next \/ UNCHANGED RFC1939!mdVars
<1>1. /\ errno' = MessageResult(mm, i) /\ disk' = disk /\ Numbered(mm) /\ Counted(mm)
      /\ mm' = IF errno' = "OK" THEN DeleteMessage(mm, i) ELSE mm
  BY DEF Dele, SessionInv, CallsInv
<1>2. CASE errno' # "OK"
  <2>1. mm' = mm
    BY <1>1, <1>2
  <2>2. UNCHANGED passVars
    BY DEF Dele
  <2>. QED BY <1>1, <2>1, <2>2 DEF RFC1939!mdVars, RFC1939!openingVars, Open, passVars
<1>3. CASE errno' = "OK"
  <2>1. i \in Unmarked(mm) /\ i \in MessageNumbers(mm) /\ mm' = DeleteMessage(mm, i)
    BY <1>1, <1>3, UnmarkedMeansOk
  <2>2. PICK m, m2 : m = mm /\ m2 = mm'
    OBVIOUS
  <2>3. Numbered(m) /\ Counted(m) /\ Numbered(m2) /\ Counted(m2)
    BY <1>1, <2>1, <2>2, DeleteCounts
  <2>4. m2.files = m.files /\ Marked(m2) = Marked(m) \cup {i}
    <3>1. m.marked \in [DOMAIN m.files -> BOOLEAN] /\ i \in DOMAIN m.files
      BY <2>1, <2>2, <2>3 DEF Numbered, MessageNumbers
    <3>2. m = [files |-> m.files, marked |-> m.marked, count |-> m.count, total |-> m.total]
      BY <2>3 DEF Numbered, Manager
    <3>3. PICK mk : mk = [m.marked EXCEPT ![i] = TRUE]
      OBVIOUS
    <3>4. m2 = [files |-> m.files, marked |-> mk, count |-> m.count - 1, total |-> ToInt(m.total - SizeOf(m, i))]
      BY <2>1, <2>2, <3>2, <3>3 DEF DeleteMessage
    <3>5. m2.files = m.files /\ m2.marked = mk
      BY <3>4
    <3>6. \A j \in DOMAIN m.files : mk[j] = (j = i \/ m.marked[j])
      BY <3>1, <3>3
    <3>. QED BY <3>1, <3>5, <3>6 DEF Marked, MessageNumbers
  <2>5. /\ SeenMessages(m2) = SeenMessages(m)
        /\ SeenStat(m2) = RFC1939!StatOf(SeenMessages(m), SeenMarked(m2))
    BY <2>3, <2>4, MarkIsMark
  <2>6. /\ SeenMarked(m2) = SeenMarked(m) \cup {i} /\ m # NoManager /\ m2 # NoManager
        /\ i \in DOMAIN SeenMessages(m) /\ i \in DOMAIN SeenMessages(m) \ SeenMarked(m)
    BY <2>1, <2>2, <2>3, <2>4, SeenOpen DEF MessageNumbers, Unmarked
  <2>0. UNCHANGED RFC1939!openingVars
    BY DEF Dele, passVars, RFC1939!openingVars
  <2>7. RFC1939!Dele(i)
    BY <1>1, <2>0, <2>2, <2>5, <2>6
       DEF RFC1939!Dele, RFC1939!Mark, Open, SeenMessages, SeenMarked, SeenStat
  <2>8. i \in DOMAIN (IF Open THEN mm.files ELSE <<>>)
    BY <2>2, <2>6 DEF SeenMessages, Open
  <2>. QED BY <2>7, <2>8 DEF RFC1939!Next
<1>. QED BY <1>2, <1>3

\* RSET unmarks all.
LEMMA RsetIsRset ==
    ASSUME SizesFit, SessionInv, SessionInv', Rset PROVE RFC1939!Next
<1>1. PICK m, m2 : m = mm /\ m2 = mm'
  OBVIOUS
<1>2. disk' = disk /\ Numbered(m) /\ Counted(m) /\ m2 = ResetDeletedFlag(m)
  BY <1>1 DEF Rset, SessionInv, CallsInv
<1>3. Numbered(m2) /\ Counted(m2) /\ Marked(m2) = {}
  BY <1>2, ResetCounts
<1>4. m2.files = m.files
  <2>1. m = [files |-> m.files, marked |-> m.marked, count |-> m.count, total |-> m.total]
    BY <1>2 DEF Numbered, Manager
  <2>2. PICK mk, c, t : /\ mk = [i \in MessageNumbers(m) |-> FALSE] /\ c = m.count + Cardinality(Marked(m))
                        /\ t = ToInt(m.total + SumOfSizes(m, Marked(m)))
    OBVIOUS
  <2>3. m2 = [files |-> m.files, marked |-> mk, count |-> c, total |-> t]
    BY <1>2, <2>1, <2>2 DEF ResetDeletedFlag
  <2>. QED BY <2>3
<1>5. /\ SeenMessages(m2) = SeenMessages(m)
      /\ SeenStat(m2) = RFC1939!StatOf(SeenMessages(m), SeenMarked(m2))
  BY <1>2, <1>3, <1>4, MarkIsMark
<1>6. SeenMarked(m2) = {} /\ m # NoManager /\ m2 # NoManager
  BY <1>2, <1>3, SeenOpen
<1>0. UNCHANGED RFC1939!openingVars
  BY DEF Rset, passVars, RFC1939!openingVars
<1>7. RFC1939!Rset
  BY <1>0, <1>1, <1>2, <1>5, <1>6
     DEF RFC1939!Rset, RFC1939!Mark, Open, SeenMessages, SeenMarked, SeenStat
<1>. QED BY <1>7 DEF RFC1939!Next

\* QUIT takes marked files off the disk only.
LEMMA QuitIsQuit ==
    ASSUME SessionInv, Quit PROVE RFC1939!Next
<1>1. PICK failing : disk' = disk \ Removed(mm, disk, failing)
  BY DEF Quit
<1>2. Open /\ mm' = NoManager
  BY DEF Quit
<1>3. Removed(mm, disk, failing) \in SUBSET {mm.files[i] : i \in Marked(mm)}
  BY DEF Removed, FilesAt
<1>0. UNCHANGED RFC1939!openingVars
  BY DEF Quit, passVars, RFC1939!openingVars
<1>4. RFC1939!Quit
  BY <1>0, <1>1, <1>2, <1>3 DEF RFC1939!Quit, RFC1939!Empty, Open
<1>. QED BY <1>4 DEF RFC1939!Next

\* Every step of the session is a step of RFC 1939, or none.
LEMMA RefinesSession ==
    ASSUME SizesFit, SessionInv, SessionInv', [Next]_sessionVars
    PROVE  [RFC1939!Next]_RFC1939!mdVars
<1>1. CASE UNCHANGED sessionVars
  BY <1>1 DEF sessionVars, passVars, RFC1939!mdVars, RFC1939!openingVars, Open
<1>2. CASE Create
  BY <1>2, CreateIsOpening
<1>3. CASE \E i \in Asked : Dele(i)
  BY <1>3, DeleIsDele
<1>4. CASE Rset
  BY <1>4, RsetIsRset
<1>5. CASE Quit
  BY <1>5, QuitIsQuit
<1>6. CASE Drop
  <2>1. RFC1939!Drop
    BY <1>6 DEF Drop, passVars, RFC1939!Drop, RFC1939!Empty, RFC1939!openingVars, Open
  <2>. QED BY <2>1 DEF RFC1939!Next
<1>7. CASE \E m \in Mails : Environment(m)
  <2>1. PICK m \in Mails : Environment(m)
    BY <1>7
  <2>2. RFC1939!Environment(m)
    BY <2>1 DEF Environment, RFC1939!Environment, Open
  <2>. QED BY <2>2 DEF RFC1939!Next
<1>. QED BY <1>1, <1>2, <1>3, <1>4, <1>5, <1>6, <1>7 DEF Next

\* Where the sizes fit an int, a session is one of RFC 1939, up to where the
\* code is undefined: it opens on the files that were there while they were
\* listed, numbers stay, DELE marks, RSET unmarks, STAT answers for the rest,
\* and QUIT alone takes files off the disk.
THEOREM RefinesMaildrop == SizesFit => (Spec => ImplementsMaildrop)
<1>. SUFFICES ASSUME SizesFit PROVE Spec => RFC1939!Spec
  BY DEF ImplementsMaildrop
<1>1. Init => RFC1939!Init
  BY DEF Init, RFC1939!Init, Open
<1>2. SessionInv /\ SessionInv' /\ [Next]_sessionVars => [RFC1939!Next]_RFC1939!mdVars
  BY RefinesSession
<1>. QED BY <1>1, <1>2, SessionAlways, PTL DEF Spec, RFC1939!Spec
=============================================================================
