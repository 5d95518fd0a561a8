-------------------------- MODULE SensorScanProofs --------------------------
(***************************************************************************)
(* What the operators of SensorScan compute, for scans of any length: the  *)
(* ordinals number the findings of a group without a gap, sorting loses    *)
(* nothing, and a scan that covers every file read every path as it is.    *)
(***************************************************************************)
EXTENDS SensorScan, FiniteSetTheorems, SequenceTheorems, TLAPS

-----------------------------------------------------------------------------
(* Numbers and finite sets                                                 *)

LEMMA LeastNumber ==
    ASSUME NEW T \in SUBSET Nat, T # {}
    PROVE  \E x \in T : \A y \in T : x <= y
<1> DEFINE R == {ss \in Nat \X Nat : ss[1] < ss[2]}
<1>1. IsWellFoundedOn(R, Nat)
  BY NatLessThanWellFounded DEF OpToRel
<1>2. PICK x \in T : \A y \in T : ~(<<y, x>> \in R)
  <2> HIDE DEF R
  <2> QED
    BY <1>1, WFMin
<1>3. \A y \in T : ~(y < x)
  BY <1>2
<1> QED
  BY <1>3

\* Two sets with a one-to-one correspondence have the same size.
LEMMA SameSize ==
    ASSUME NEW S, NEW T, NEW f \in [S -> T], IsFiniteSet(S),
           \A x, y \in S : f[x] = f[y] => x = y,
           \A t \in T : \E x \in S : f[x] = t
    PROVE  IsFiniteSet(T) /\ Cardinality(T) = Cardinality(S)
<1>1. f \in Bijection(S, T)
  BY DEF Bijection, Injection, Surjection, IsInjective
<1> QED
  BY <1>1, FS_Bijection DEF ExistsBijection

LEMMA FiniteImage ==
    ASSUME NEW S, NEW T, NEW f \in [S -> T], IsFiniteSet(S),
           \A t \in T : \E x \in S : f[x] = t
    PROVE  IsFiniteSet(T)
<1>1. f \in Surjection(S, T)
  BY DEF Surjection
<1> QED
  BY <1>1, FS_Surjection

LEMMA SmallerSet ==
    ASSUME NEW S, IsFiniteSet(S), NEW T \in SUBSET S, S # T
    PROVE  IsFiniteSet(T) /\ Cardinality(T) \in Nat /\ Cardinality(S) \in Nat
           /\ Cardinality(T) < Cardinality(S)
  BY FS_Subset, FS_CardinalityType

\* A one-to-one numbering of n things with the numbers below n uses them all.
LEMMA Numbering ==
    ASSUME NEW S, IsFiniteSet(S), NEW f \in [S -> 0..(Cardinality(S) - 1)],
           \A x, y \in S : f[x] = f[y] => x = y
    PROVE  \A n \in 0..(Cardinality(S) - 1) : \E x \in S : f[x] = n
<1> DEFINE N == 0..(Cardinality(S) - 1)
<1>1. Cardinality(S) \in Nat
  BY FS_CardinalityType
<1>2. IsFiniteSet(N) /\ Cardinality(N) = Cardinality(S)
  BY <1>1, FS_Interval
<1>3. f \in Injection(S, N)
  BY DEF Injection, IsInjective
<1> HIDE DEF N
<1>4. f \in Surjection(S, N)
  BY <1>2, <1>3, FS_Injection
<1> QED
  BY <1>4 DEF Surjection, N

LEMMA SetToSeqOfSet ==
    ASSUME NEW S, IsFiniteSet(S)
    PROVE  /\ SetToSeq(S) \in Seq(S)
           /\ \A x \in S : \E i \in DOMAIN SetToSeq(S) : SetToSeq(S)[i] = x
<1> DEFINE n == Cardinality(S)
           f == SetToSeq(S)
<1>1. n \in Nat /\ ExistsBijection(1..n, S)
  BY FS_CardinalityType
<1>2. \E g \in [1..n -> S] : IsInjective(g)
  BY <1>1 DEF ExistsBijection, Bijection, Injection
<1>3. f \in [1..n -> S] /\ IsInjective(f)
  BY <1>2 DEF SetToSeq
<1> HIDE DEF f
<1>4. IsFiniteSet(1..n) /\ Cardinality(1..n) = n
  BY <1>1, FS_Interval
<1>5. f \in Injection(1..n, S)
  BY <1>3 DEF Injection
<1>6. f \in Surjection(1..n, S)
  BY <1>4, <1>5, FS_Injection
<1>7. f \in Seq(S) /\ DOMAIN f = 1..n
  BY <1>1, <1>3
<1> QED
  BY <1>6, <1>7 DEF Surjection, f

-----------------------------------------------------------------------------
(* Ranks by span and position                                              *)

Positions(fs, K) == IsFiniteSet(K) /\ K \subseteq Int /\ \A i \in K : fs[i].span \in Int

Rank(fs, K, i) == Cardinality({j \in K : Before(fs, j, i)})

\* The ranks of a finite set of positions are the numbers below its size, each
\* once.
LEMMA Ranks ==
    ASSUME NEW fs, NEW K, Positions(fs, K)
    PROVE  /\ \A i \in K : Rank(fs, K, i) \in 0..(Cardinality(K) - 1)
           /\ \A i, j \in K : Rank(fs, K, i) = Rank(fs, K, j) => i = j
           /\ \A n \in 0..(Cardinality(K) - 1) : \E i \in K : Rank(fs, K, i) = n
<1> DEFINE P(i) == {j \in K : Before(fs, j, i)}
<1>0. IsFiniteSet(K) /\ K \subseteq Int /\ \A i \in K : fs[i].span \in Int
  BY DEF Positions
<1>1. \A i \in K : i \notin P(i)
  BY <1>0 DEF Before
<1>2. \A i \in K : Cardinality(P(i)) \in Nat /\ Cardinality(K) \in Nat
                   /\ Cardinality(P(i)) < Cardinality(K)
  <2> SUFFICES ASSUME NEW i \in K
               PROVE  Cardinality(P(i)) \in Nat /\ Cardinality(K) \in Nat
                      /\ Cardinality(P(i)) < Cardinality(K)
    OBVIOUS
  <2>1. P(i) \in SUBSET K /\ P(i) # K
    BY <1>1
  <2> HIDE DEF P
  <2> QED
    BY <1>0, <2>1, SmallerSet
<1>3. \A i, j \in K : Before(fs, i, j) => Cardinality(P(i)) < Cardinality(P(j))
  <2> SUFFICES ASSUME NEW i \in K, NEW j \in K, Before(fs, i, j)
               PROVE  Cardinality(P(i)) < Cardinality(P(j))
    OBVIOUS
  <2>1. \A k \in K : Before(fs, k, i) => Before(fs, k, j)
    BY <1>0 DEF Before
  <2>2. P(i) \in SUBSET P(j) /\ i \in P(j) /\ i \notin P(i) /\ P(j) \in SUBSET K
    BY <1>1, <2>1
  <2> HIDE DEF P
  <2>3. IsFiniteSet(P(j))
    BY <1>0, <2>2, FS_Subset
  <2> QED
    BY <2>2, <2>3, SmallerSet
<1>4. \A i, j \in K : i # j => Before(fs, i, j) \/ Before(fs, j, i)
  BY <1>0 DEF Before
<1>5. \A i \in K : Rank(fs, K, i) = Cardinality(P(i))
  BY DEF Rank
<1> HIDE DEF P
<1>6. \A i \in K : Rank(fs, K, i) \in 0..(Cardinality(K) - 1)
  BY <1>2, <1>5
<1>7. \A i, j \in K : Rank(fs, K, i) = Rank(fs, K, j) => i = j
  BY <1>2, <1>3, <1>4, <1>5
<1> DEFINE f == [i \in K |-> Rank(fs, K, i)]
<1>8. f \in [K -> 0..(Cardinality(K) - 1)] /\ \A i \in K : f[i] = Rank(fs, K, i)
  BY <1>6
<1> HIDE DEF f
<1>9. \A n \in 0..(Cardinality(K) - 1) : \E i \in K : f[i] = n
  <2>1. \A i, j \in K : f[i] = f[j] => i = j
    BY <1>7, <1>8
  <2> QED
    BY <1>0, <1>8, <2>1, Numbering
<1> QED
  BY <1>6, <1>7, <1>8, <1>9

\* Sorting neither loses nor invents a finding.
LEMMA SortedKeeps ==
    ASSUME NEW fs, NEW n \in Nat, DOMAIN fs = 1..n, \A i \in 1..n : fs[i].span \in Int
    PROVE  /\ DOMAIN Sorted(fs) = 1..n
           /\ \A k \in 1..n : \E i \in 1..n : Sorted(fs)[k] = fs[i]
           /\ \A i \in 1..n : \E k \in 1..n : Sorted(fs)[k] = fs[i]
<1>1. IsFiniteSet(1..n) /\ Cardinality(1..n) = n
  BY FS_Interval
<1>2. Positions(fs, 1..n)
  BY <1>1 DEF Positions
<1> DEFINE At(k) == CHOOSE i \in 1..n : Rank(fs, 1..n, i) = k - 1
<1>3. \A k \in 1..n : Sorted(fs)[k] = fs[At(k)]
  BY DEF Sorted, Rank
<1>4. \A k \in 1..n : At(k) \in 1..n /\ Rank(fs, 1..n, At(k)) = k - 1
  <2> SUFFICES ASSUME NEW k \in 1..n PROVE At(k) \in 1..n /\ Rank(fs, 1..n, At(k)) = k - 1
    OBVIOUS
  <2>1. k - 1 \in 0..(n - 1)
    OBVIOUS
  <2>2. \E i \in 1..n : Rank(fs, 1..n, i) = k - 1
    BY <1>1, <1>2, <2>1, Ranks
  <2> QED
    BY <2>2
<1> HIDE DEF At
<1>5. \A i \in 1..n : Rank(fs, 1..n, i) + 1 \in 1..n /\ At(Rank(fs, 1..n, i) + 1) = i
  <2> SUFFICES ASSUME NEW i \in 1..n
               PROVE  Rank(fs, 1..n, i) + 1 \in 1..n /\ At(Rank(fs, 1..n, i) + 1) = i
    OBVIOUS
  <2>1. Rank(fs, 1..n, i) \in 0..(n - 1)
    BY <1>1, <1>2, Ranks
  <2>2. Rank(fs, 1..n, i) + 1 \in 1..n /\ (Rank(fs, 1..n, i) + 1) - 1 = Rank(fs, 1..n, i)
    BY <2>1
  <2>3. /\ At(Rank(fs, 1..n, i) + 1) \in 1..n
        /\ Rank(fs, 1..n, At(Rank(fs, 1..n, i) + 1)) = Rank(fs, 1..n, i)
    BY <1>4, <2>2
  <2> QED
    BY <1>2, <2>2, <2>3, Ranks
<1>6. DOMAIN Sorted(fs) = 1..n
  BY DEF Sorted
<1>7. \A i \in 1..n : \E k \in 1..n : Sorted(fs)[k] = fs[i]
  BY <1>3, <1>5
<1> QED
  BY <1>3, <1>4, <1>6, <1>7

-----------------------------------------------------------------------------
(* assign_sast_ordinals                                                    *)

\* The findings of a Semgrep scan: every one has a rule and a position.
Scanned(fs, n) ==
    /\ DOMAIN fs = 1..n
    /\ \A i \in 1..n : fs[i].group \in SastGroups /\ fs[i].span \in Nat \ {0}

\* The positions of the unique findings of group g at path p.
Members(fs, g, p) == {i \in Unique(fs) : fs[i].group = g /\ fs[i].path = p}

\* The findings of group g at path p.
OfGroup(F, g, p) == {f \in F : f.group = g /\ f.path = p}

LEMMA MemberPositions ==
    ASSUME NEW fs, NEW n \in Nat, Scanned(fs, n), NEW g, NEW p
    PROVE  Positions(fs, Members(fs, g, p))
<1>1. Members(fs, g, p) \in SUBSET (1..n)
  BY DEF Members, Unique, Sast, Scanned
<1>2. IsFiniteSet(Members(fs, g, p))
  BY <1>1, FS_Interval, FS_Subset
<1> QED
  BY <1>1, <1>2 DEF Positions, Scanned

LEMMA OrdinalIsRank ==
    ASSUME NEW fs, NEW i \in Unique(fs)
    PROVE  Ordinal(fs, Unique(fs), i) = Rank(fs, Members(fs, fs[i].group, fs[i].path), i)
<1>1. {j \in Unique(fs) : SameGroup(fs[j], fs[i]) /\ Before(fs, j, i)}
         = {j \in Members(fs, fs[i].group, fs[i].path) : Before(fs, j, i)}
  BY DEF Members, SameGroup
<1> QED
  BY <1>1 DEF Ordinal, Rank

\* Each finding of the scan is kept, at its span, and nothing else is.
LEMMA OrdinalsKeep ==
    ASSUME NEW fs, NEW n \in Nat, Scanned(fs, n)
    PROVE  /\ \A f \in AssignSastOrdinals(fs) : \E i \in 1..n :
                 f.group = fs[i].group /\ f.path = fs[i].path /\ f.span = fs[i].span
           /\ \A i \in 1..n : \E f \in AssignSastOrdinals(fs) :
                 f.group = fs[i].group /\ f.path = fs[i].path /\ f.span = fs[i].span
<1>0. Sast(fs) = 1..n
  BY DEF Sast, Scanned
<1>1. ASSUME NEW f \in AssignSastOrdinals(fs)
      PROVE  \E i \in 1..n :
                f.group = fs[i].group /\ f.path = fs[i].path /\ f.span = fs[i].span
  <2>1. PICK i \in Unique(fs) : f = SastFinding(fs, Unique(fs), i)
    BY <1>1 DEF AssignSastOrdinals
  <2>2. i \in 1..n
    BY <1>0 DEF Unique
  <2>3. f.group = fs[i].group /\ f.path = fs[i].path /\ f.span = fs[i].span
    BY <2>1 DEF SastFinding
  <2> QED
    BY <2>2, <2>3
<1>2. ASSUME NEW i \in 1..n
      PROVE  \E f \in AssignSastOrdinals(fs) :
                f.group = fs[i].group /\ f.path = fs[i].path /\ f.span = fs[i].span
  <2> DEFINE T == {j \in 1..n : SameGroup(fs[j], fs[i]) /\ fs[j].span = fs[i].span}
  <2>1. T \in SUBSET Nat /\ i \in T
    BY DEF SameGroup
  <2>2. PICK j \in T : \A k \in T : j <= k
    <3> HIDE DEF T
    <3> QED
      BY <2>1, LeastNumber
  <2>3. j \in 1..n /\ SameGroup(fs[j], fs[i]) /\ fs[j].span = fs[i].span
    OBVIOUS
  <2>4. ~\E k \in 1..n : k < j /\ SameGroup(fs[k], fs[j]) /\ fs[k].span = fs[j].span
    <3> SUFFICES ASSUME NEW k \in 1..n, k < j, SameGroup(fs[k], fs[j]), fs[k].span = fs[j].span
                 PROVE  FALSE
      OBVIOUS
    <3>1. k \in T
      BY <2>3 DEF SameGroup
    <3> HIDE DEF T
    <3> QED
      BY <2>2, <2>3, <3>1
  <2>5. j \in Unique(fs)
    BY <1>0, <2>3, <2>4 DEF Unique
  <2>6. SastFinding(fs, Unique(fs), j) \in AssignSastOrdinals(fs)
    BY <2>5 DEF AssignSastOrdinals
  <2>7. LET f == SastFinding(fs, Unique(fs), j)
        IN  f.group = fs[i].group /\ f.path = fs[i].path /\ f.span = fs[i].span
    BY <2>3 DEF SastFinding, SameGroup
  <2> QED
    BY <2>6, <2>7
<1> QED
  BY <1>1, <1>2

\* Within a group the spans differ, and the ordinals are the numbers below the
\* size of the group, each once.
LEMMA OrdinalsNumber ==
    ASSUME NEW fs, NEW n \in Nat, Scanned(fs, n), NEW g, NEW p
    PROVE  LET G == OfGroup(AssignSastOrdinals(fs), g, p)
           IN  /\ IsFiniteSet(G) /\ Cardinality(G) \in Nat
               /\ \A f \in G : f.ordinal \in 0..(Cardinality(G) - 1)
               /\ \A m \in 0..(Cardinality(G) - 1) : \E f \in G : f.ordinal = m
               /\ \A f, h \in G : f.ordinal = h.ordinal => f = h
               /\ \A f, h \in G : f.span = h.span => f = h
<1> DEFINE G == OfGroup(AssignSastOrdinals(fs), g, p)
           K == Members(fs, g, p)
           F(i) == SastFinding(fs, Unique(fs), i)
           m == [i \in K |-> F(i)]
<1>1. Positions(fs, K)
  BY MemberPositions
<1>2. \A i \in Unique(fs) : /\ F(i).group = fs[i].group /\ F(i).path = fs[i].path
                            /\ F(i).span = fs[i].span
                            /\ F(i).ordinal = Ordinal(fs, Unique(fs), i)
  BY DEF SastFinding
<1>3. \A i \in K : i \in Unique(fs) /\ fs[i].group = g /\ fs[i].path = p
  BY DEF Members
<1>4. \A i \in K : F(i) \in G /\ F(i).ordinal = Rank(fs, K, i) /\ F(i).span = fs[i].span
  <2> SUFFICES ASSUME NEW i \in K
               PROVE  F(i) \in G /\ F(i).ordinal = Rank(fs, K, i) /\ F(i).span = fs[i].span
    OBVIOUS
  <2>1. F(i) \in AssignSastOrdinals(fs)
    BY <1>3 DEF AssignSastOrdinals
  <2>2. Ordinal(fs, Unique(fs), i) = Rank(fs, K, i)
    BY <1>3, OrdinalIsRank
  <2> HIDE DEF F, K
  <2> QED
    BY <1>2, <1>3, <2>1, <2>2 DEF OfGroup
<1>5. \A f \in G : \E i \in K : f = F(i)
  <2> SUFFICES ASSUME NEW f \in G PROVE \E i \in K : f = F(i)
    OBVIOUS
  <2>1. PICK i \in Unique(fs) : f = F(i)
    BY DEF OfGroup, AssignSastOrdinals
  <2>2. f.group = g /\ f.path = p
    BY DEF OfGroup
  <2>3. i \in K
    BY <1>2, <2>1, <2>2 DEF Members
  <2> QED
    BY <2>1, <2>3
<1>6. \A i \in K : Rank(fs, K, i) \in 0..(Cardinality(K) - 1)
  BY <1>1, Ranks
<1>7. \A i, j \in K : Rank(fs, K, i) = Rank(fs, K, j) => i = j
  BY <1>1, Ranks
<1>8. \A x \in 0..(Cardinality(K) - 1) : \E i \in K : Rank(fs, K, i) = x
  BY <1>1, Ranks
<1>9. \A i, j \in K : fs[i].span = fs[j].span => i = j
  <2> SUFFICES ASSUME NEW i \in K, NEW j \in K, fs[i].span = fs[j].span, i < j PROVE FALSE
    BY <1>1 DEF Positions
  <2>1. SameGroup(fs[i], fs[j])
    BY <1>3 DEF SameGroup
  <2>2. i \in Sast(fs) /\ j \in Sast(fs) /\ fs[j].span # 0
    BY <1>3 DEF Unique, Sast, Scanned
  <2> QED
    BY <1>3, <2>1, <2>2 DEF Unique
<1> HIDE DEF G, K, F
<1>10. IsFiniteSet(K)
  BY <1>1 DEF Positions
<1>11. IsFiniteSet(G) /\ Cardinality(G) = Cardinality(K)
  <2>1. m \in [K -> G] /\ \A i \in K : m[i] = F(i)
    BY <1>4
  <2>2. \A i, j \in K : m[i] = m[j] => i = j
    BY <1>4, <1>7, <2>1
  <2>3. \A f \in G : \E i \in K : m[i] = f
    BY <1>5, <2>1
  <2> HIDE DEF m
  <2> QED
    BY <1>10, <2>1, <2>2, <2>3, SameSize
<1>12. Cardinality(G) \in Nat
  BY <1>11, FS_CardinalityType
<1>13. \A f \in G : f.ordinal \in 0..(Cardinality(G) - 1)
  BY <1>4, <1>5, <1>6, <1>11
<1>14. \A x \in 0..(Cardinality(G) - 1) : \E f \in G : f.ordinal = x
  BY <1>4, <1>8, <1>11
<1>15. \A f, h \in G : f.ordinal = h.ordinal => f = h
  BY <1>4, <1>5, <1>7
<1>16. \A f, h \in G : f.span = h.span => f = h
  BY <1>4, <1>5, <1>9
<1> QED
  BY <1>11, <1>12, <1>13, <1>14, <1>15, <1>16 DEF G

-----------------------------------------------------------------------------
(* Paths: a path below a directory named like the target can be read in    *)
(* two ways, but not in a scan that covers every file.                     *)

ReadPath(f, convention) == SourcePaths(PathText(f, convention))

LEMMA DropAndPrepend ==
    ASSUME NEW s \in Seq(STRING), NEW f \in Seq(STRING), IsPrefix(s, f)
    PROVE  LET g == SubSeq(f, Len(s) + 1, Len(f))
           IN  g \in Seq(STRING) /\ Len(g) = Len(f) - Len(s) /\ s \o g = f
<1> DEFINE g == SubSeq(f, Len(s) + 1, Len(f))
<1>1. Len(s) \in Nat /\ Len(f) \in Nat /\ Len(s) <= Len(f)
  BY DEF IsPrefix
<1>2. g \in Seq(STRING) /\ Len(g) = Len(f) - Len(s)
      /\ \A i \in 1..(Len(f) - Len(s)) : g[i] = f[Len(s) + i]
  BY <1>1
<1>3. SubSeq(s, 1, Len(s)) = SubSeq(f, 1, Len(s))
  BY DEF IsPrefix
<1>4. \A i \in 1..Len(s) : SubSeq(s, 1, Len(s))[i] = s[i]
  BY <1>1
<1>5. \A i \in 1..Len(s) : SubSeq(f, 1, Len(s))[i] = f[i]
  BY <1>1
<1>6. \A i \in 1..Len(s) : s[i] = f[i]
  BY <1>3, <1>4, <1>5
<1> HIDE DEF g
<1>7. s \o g \in Seq(STRING) /\ Len(s \o g) = Len(f)
  BY <1>1, <1>2
<1>8. ASSUME NEW i \in 1..Len(f) PROVE (s \o g)[i] = f[i]
  <2>1. CASE i <= Len(s)
    BY <1>1, <1>2, <1>6, <1>7, <2>1
  <2>2. CASE i > Len(s)
    <3>1. i - Len(s) \in 1..(Len(f) - Len(s)) /\ Len(s) + (i - Len(s)) = i
      BY <1>1, <2>2
    <3>2. (s \o g)[i] = g[i - Len(s)]
      BY <1>1, <1>2, <2>2, <3>1
    <3> QED
      BY <1>2, <3>1, <3>2
  <2>3. i <= Len(s) \/ i > Len(s)
    BY <1>1
  <2> QED
    BY <2>1, <2>2, <2>3
<1>9. s \o g = f
  <2> DEFINE h == s \o g
  <2>1. h \in Seq(STRING) /\ Len(h) = Len(f) /\ \A i \in 1..Len(h) : h[i] = f[i]
    BY <1>7, <1>8
  <2> HIDE DEF h
  <2>2. h = f
    BY <2>1, SeqEqual
  <2> QED
    BY <2>2 DEF h
<1> QED
  BY <1>2, <1>9 DEF g

LEMMA ReadAsIsOrShorter ==
    ASSUME NEW f \in ExpectedPythonPaths, NEW c \in Conventions
    PROVE  ReadPath(f, c) = f \/ (Target # <<>> /\ Len(ReadPath(f, c)) < Len(f))
<1> DEFINE g == SubSeq(f, Len(Target) + 1, Len(f))
           text == PathText(f, c)
<1>1. f \in Seq(STRING) /\ Target \in Seq(STRING) /\ IsPrefix(Target, f)
  BY ScanConstants DEF ExpectedPythonPaths
<1>2. g \in Seq(STRING) /\ Len(g) = Len(f) - Len(Target) /\ Target \o g = f
  BY <1>1, DropAndPrepend
<1>3. text.absolute = (c = "absolute") /\ text.path = IF c = "target" THEN g ELSE f
  BY DEF PathText
<1>4. ReadPath(f, c) = IF text.absolute \/ (Target # <<>> /\ IsPrefix(Target, text.path))
                       THEN text.path ELSE Target \o text.path
  BY DEF ReadPath, SourcePaths
<1>5. Target # <<>> => Len(Target) > 0
  BY <1>1
<1> HIDE DEF g, text
<1>6. CASE c = "absolute"
  BY <1>3, <1>4, <1>6
<1>7. CASE c = "repo"
  <2>1. text.path = f /\ ~text.absolute
    BY <1>3, <1>7
  <2>2. CASE Target = <<>>
    BY <1>1, <1>4, <2>1, <2>2
  <2> QED
    BY <1>1, <1>4, <2>1, <2>2
<1>8. CASE c = "target"
  <2>1. text.path = g /\ ~text.absolute
    BY <1>3, <1>8
  <2>2. CASE Target # <<>> /\ IsPrefix(Target, g)
    BY <1>1, <1>2, <1>4, <1>5, <2>1, <2>2
  <2>3. CASE ~(Target # <<>> /\ IsPrefix(Target, g))
    BY <1>2, <1>4, <2>1, <2>3
  <2> QED
    BY <2>2, <2>3
<1> QED
  BY <1>6, <1>7, <1>8 DEF Conventions

\* A payload whose paths, as they are read, are all the expected ones lists
\* all of them and each is read as it is: the longest of the others could only
\* be the reading of a longer one.
LEMMA CoverageMakesPathsClear ==
    ASSUME NEW c \in Conventions, NEW S \in SUBSET ExpectedPythonPaths,
           ExpectedPythonPaths \subseteq {ReadPath(f, c) : f \in S}
    PROVE  S = ExpectedPythonPaths /\ \A f \in ExpectedPythonPaths : ReadPath(f, c) = f
<1> DEFINE B == {f \in ExpectedPythonPaths : ReadPath(f, c) # f \/ f \notin S}
           U(f) == {h \in B : Len(h) > Len(f)}
           sizes == {Cardinality(U(f)) : f \in B}
<1>1. IsFiniteSet(ExpectedPythonPaths) /\ ExpectedPythonPaths \subseteq Seq(STRING)
  BY ScanConstants, FS_Subset DEF ExpectedPythonPaths
<1>2. IsFiniteSet(B) /\ \A f \in B : Len(f) \in Nat
  BY <1>1, FS_Subset
<1>3. SUFFICES ASSUME B # {} PROVE FALSE
  OBVIOUS
<1>4. \A f \in B : U(f) \in SUBSET B
  OBVIOUS
<1>5. \A f \in B : \A h \in U(f) : U(h) \in SUBSET U(f) /\ h \notin U(h) /\ h \in B
  BY <1>2
<1>6. \A f \in B : \E h \in B : Len(h) > Len(f)
  <2> SUFFICES ASSUME NEW f \in B PROVE \E h \in B : Len(h) > Len(f)
    OBVIOUS
  <2>1. PICK h \in S : ReadPath(h, c) = f
    OBVIOUS
  <2>2. h # f
    BY <2>1
  <2>3. h \in B /\ Len(f) < Len(h)
    BY <2>1, <2>2, ReadAsIsOrShorter
  <2> QED
    BY <1>2, <2>3
<1> HIDE DEF B
<1>7. \A f \in B : IsFiniteSet(U(f)) /\ Cardinality(U(f)) \in Nat
  <2> SUFFICES ASSUME NEW f \in B PROVE IsFiniteSet(U(f)) /\ Cardinality(U(f)) \in Nat
    OBVIOUS
  <2> HIDE DEF U
  <2> QED
    BY <1>2, <1>4, FS_Subset, FS_CardinalityType
<1>8. sizes \in SUBSET Nat /\ sizes # {}
  BY <1>3, <1>7
<1>9. PICK x \in sizes : \A y \in sizes : x <= y
  <2> HIDE DEF sizes
  <2> QED
    BY <1>8, LeastNumber
<1>10. PICK f \in B : x = Cardinality(U(f))
  OBVIOUS
<1>11. PICK h \in B : Len(h) > Len(f)
  BY <1>6
<1>12. h \in U(f)
  BY <1>11
<1>13. Cardinality(U(h)) \in sizes
  OBVIOUS
<1> HIDE DEF U, sizes
<1>14. Cardinality(U(h)) < Cardinality(U(f))
  BY <1>5, <1>7, <1>12, SmallerSet
<1> QED
  BY <1>7, <1>9, <1>10, <1>13, <1>14

-----------------------------------------------------------------------------
(* The findings of a scan and of two scans                                 *)

Matches == [group : SastGroups, span : Nat \ {0}]

\* The list fs holds the matches `found`, each under the path of its group.
SastOf(fs, found) ==
    /\ found \subseteq Matches
    /\ \E n \in Nat :
          /\ DOMAIN fs = 1..n
          /\ \A i \in 1..n : /\ [group |-> fs[i].group, span |-> fs[i].span] \in found
                             /\ fs[i].path = File[fs[i].group]
          /\ \A m \in found : \E i \in 1..n : fs[i].group = m.group /\ fs[i].span = m.span

\* The list fs holds the vulnerabilities `found`.
ScaOf(fs, found) ==
    /\ found \subseteq ScaGroups
    /\ \E n \in Nat :
          /\ DOMAIN fs = 1..n
          /\ \A i \in 1..n : fs[i].group \in found
          /\ \A g \in found : \E i \in 1..n : fs[i].group = g

Has(found, g) == {m \in found : m.group = g}

\* The findings of group g that fc has and fb has not.
Added(fc, fb, g) ==
    {f \in NotIn(FingerprintedFindings(fc), FingerprintedFindings(fb)) : f.group = g}

LEMMA SastIsScanned ==
    ASSUME NEW fs, NEW found, SastOf(fs, found)
    PROVE  \E n \in Nat : Scanned(fs, n)
<1>1. PICK n \in Nat :
          /\ DOMAIN fs = 1..n
          /\ \A i \in 1..n : [group |-> fs[i].group, span |-> fs[i].span] \in found
  BY DEF SastOf
<1>2. \A i \in 1..n : fs[i].group \in SastGroups /\ fs[i].span \in Nat \ {0}
  <2> SUFFICES ASSUME NEW i \in 1..n
               PROVE  fs[i].group \in SastGroups /\ fs[i].span \in Nat \ {0}
    OBVIOUS
  <2>1. [group |-> fs[i].group, span |-> fs[i].span] \in Matches
    BY <1>1 DEF SastOf
  <2> QED
    BY <2>1 DEF Matches
<1> QED
  BY <1>1, <1>2 DEF Scanned

LEMMA SastFingerprinted ==
    ASSUME NEW fs, NEW found, SastOf(fs, found)
    PROVE  FingerprintedFindings(fs) = AssignSastOrdinals(fs)
<1>1. PICK n \in Nat : Scanned(fs, n)
  BY SastIsScanned
<1>2. \A i \in DOMAIN fs : fs[i].group \notin ScaGroups
  BY <1>1, ScanConstants DEF Scanned
<1>3. ScaFindings(fs) = {}
  BY <1>2 DEF ScaFindings
<1> QED
  BY <1>3 DEF FingerprintedFindings

\* A scan has each of its matches once, under the path of its group.
LEMMA SastWhole ==
    ASSUME NEW fs, NEW found, SastOf(fs, found)
    PROVE  LET kept == FingerprintedFindings(fs)
           IN  /\ \A f \in kept : [group |-> f.group, span |-> f.span] \in found
                                  /\ f.path = File[f.group]
               /\ \A m \in found : \E f \in kept : f.group = m.group /\ f.span = m.span
                                                    /\ f.path = File[m.group]
               /\ IsFiniteSet(kept)
               /\ \A f, h \in kept : Fingerprint(f) = Fingerprint(h) => f = h
               /\ Cardinality(Fingerprints(kept)) = Cardinality(kept)
<1> DEFINE kept == AssignSastOrdinals(fs)
<1>1. PICK n \in Nat :
          /\ DOMAIN fs = 1..n
          /\ \A i \in 1..n : /\ [group |-> fs[i].group, span |-> fs[i].span] \in found
                             /\ fs[i].path = File[fs[i].group]
          /\ \A m \in found : \E i \in 1..n : fs[i].group = m.group /\ fs[i].span = m.span
  BY DEF SastOf
<1>2. Scanned(fs, n)
  <2>1. PICK k \in Nat : Scanned(fs, k)
    BY SastIsScanned
  <2> QED
    BY <1>1, <2>1 DEF Scanned
<1>3. FingerprintedFindings(fs) = kept
  BY SastFingerprinted
<1>4. \A f \in kept : \E i \in 1..n :
          f.group = fs[i].group /\ f.path = fs[i].path /\ f.span = fs[i].span
  BY <1>2, OrdinalsKeep
<1>5. \A i \in 1..n : \E f \in kept :
          f.group = fs[i].group /\ f.path = fs[i].path /\ f.span = fs[i].span
  BY <1>2, OrdinalsKeep
<1>6. IsFiniteSet(kept)
  <2> DEFINE U == Unique(fs)
             m == [i \in U |-> SastFinding(fs, U, i)]
  <2>1. U \in SUBSET (1..n)
    BY <1>1 DEF Unique, Sast
  <2>2. IsFiniteSet(U)
    <3> HIDE DEF U
    <3>1. IsFiniteSet(1..n)
      BY FS_Interval
    <3> QED
      BY <2>1, <3>1, FS_Subset
  <2>3. m \in [U -> kept] /\ \A f \in kept : \E i \in U : m[i] = f
    BY DEF AssignSastOrdinals
  <2> HIDE DEF U, m, kept
  <2> QED
    BY <2>2, <2>3, FiniteImage
<1> HIDE DEF kept
<1>7. \A f, h \in kept : Fingerprint(f) = Fingerprint(h) => f = h
  <2> SUFFICES ASSUME NEW f \in kept, NEW h \in kept, Fingerprint(f) = Fingerprint(h)
               PROVE  f = h
    OBVIOUS
  <2> DEFINE G == OfGroup(AssignSastOrdinals(fs), f.group, f.path)
  <2>1. f.group = h.group /\ f.path = h.path /\ f.ordinal = h.ordinal
    BY DEF Fingerprint
  <2>2. f \in G /\ h \in G
    BY <2>1 DEF OfGroup, kept
  <2>3. \A x, y \in G : x.ordinal = y.ordinal => x = y
    BY <1>2, OrdinalsNumber
  <2> HIDE DEF G
  <2> QED
    BY <2>1, <2>2, <2>3
<1>8. Cardinality(Fingerprints(kept)) = Cardinality(kept)
  <2> DEFINE m == [f \in kept |-> Fingerprint(f)]
  <2>1. m \in [kept -> Fingerprints(kept)] /\ \A t \in Fingerprints(kept) : \E f \in kept : m[f] = t
    BY DEF Fingerprints
  <2>2. \A f, h \in kept : m[f] = m[h] => f = h
    BY <1>7
  <2> HIDE DEF m
  <2> QED
    BY <1>6, <2>1, <2>2, SameSize
<1>9. ASSUME NEW f \in kept
      PROVE  [group |-> f.group, span |-> f.span] \in found /\ f.path = File[f.group]
  BY <1>1, <1>4
<1>10. ASSUME NEW m \in found
       PROVE  \E f \in kept : f.group = m.group /\ f.span = m.span /\ f.path = File[m.group]
  <2>1. PICK i \in 1..n : fs[i].group = m.group /\ fs[i].span = m.span
    BY <1>1
  <2>2. fs[i].path = File[m.group]
    BY <1>1, <2>1
  <2> QED
    BY <1>5, <2>1, <2>2
<1> QED
  BY <1>3, <1>6, <1>7, <1>8, <1>9, <1>10

Numbered(G, path, n) ==
    /\ n \in Nat /\ IsFiniteSet(G)
    /\ \A f \in G : f.ordinal \in 0..(n - 1) /\ f.path = path
    /\ \A m \in 0..(n - 1) : \E f \in G : f.ordinal = m
    /\ \A f, h \in G : f.ordinal = h.ordinal => f = h

\* The ordinals of a group are the numbers below the number of its matches.
LEMMA GroupNumbers ==
    ASSUME NEW fs, NEW found, SastOf(fs, found), NEW g
    PROVE  Numbered({f \in FingerprintedFindings(fs) : f.group = g}, File[g],
                    Cardinality(Has(found, g)))
<1> DEFINE kept == AssignSastOrdinals(fs)
           G == OfGroup(kept, g, File[g])
           D == Has(found, g)
<1>1. PICK n \in Nat : Scanned(fs, n)
  BY SastIsScanned
<1>2. FingerprintedFindings(fs) = kept
  BY SastFingerprinted
<1>3. /\ \A f \in kept : [group |-> f.group, span |-> f.span] \in found /\ f.path = File[f.group]
      /\ \A m \in found : \E f \in kept : f.group = m.group /\ f.span = m.span
                                           /\ f.path = File[m.group]
  BY <1>2, SastWhole
<1>4. /\ IsFiniteSet(G) /\ Cardinality(G) \in Nat
      /\ \A f \in G : f.ordinal \in 0..(Cardinality(G) - 1)
      /\ \A m \in 0..(Cardinality(G) - 1) : \E f \in G : f.ordinal = m
      /\ \A f, h \in G : f.ordinal = h.ordinal => f = h
      /\ \A f, h \in G : f.span = h.span => f = h
  BY <1>1, OrdinalsNumber
<1>5. \A f \in G : f \in kept /\ f.group = g /\ f.path = File[g]
  BY DEF OfGroup
<1>6. \A f \in kept : f.group = g => f \in G
  BY <1>3 DEF OfGroup
<1>7. {f \in FingerprintedFindings(fs) : f.group = g} = G
  BY <1>2, <1>5, <1>6
<1> HIDE DEF G, kept
<1>8. Cardinality(D) = Cardinality(G)
  <2> DEFINE m == [f \in G |-> [group |-> g, span |-> f.span]]
  <2>1. m \in [G -> D]
    BY <1>3, <1>5 DEF Has
  <2>2. \A f, h \in G : m[f] = m[h] => f = h
    <3> SUFFICES ASSUME NEW f \in G, NEW h \in G, m[f] = m[h] PROVE f = h
      OBVIOUS
    <3>1. f.span = h.span
      OBVIOUS
    <3> QED
      BY <1>4, <3>1
  <2>3. ASSUME NEW d \in D PROVE \E f \in G : m[f] = d
    <3>1. d \in found /\ d.group = g /\ d \in Matches
      BY DEF Has, SastOf
    <3>2. PICK f \in kept : f.group = d.group /\ f.span = d.span
      BY <1>3, <3>1
    <3>3. f \in G
      BY <1>6, <3>1, <3>2
    <3>4. d = [group |-> g, span |-> f.span]
      BY <3>1, <3>2 DEF Matches
    <3> QED
      BY <3>3, <3>4
  <2> HIDE DEF m, D
  <2> QED
    BY <1>4, <2>1, <2>2, <2>3, SameSize
<1> QED
  BY <1>4, <1>5, <1>7, <1>8 DEF Numbered

\* The findings of one group added between two scans: as many as the group has
\* more, whichever of the equal ones they are.
LEMMA SastGrowth ==
    ASSUME NEW fb, NEW foundB, SastOf(fb, foundB), NEW fc, NEW foundC, SastOf(fc, foundC), NEW g
    PROVE  LET A == Added(fc, fb, g)
               n == Cardinality(Has(foundC, g)) - Cardinality(Has(foundB, g))
           IN  IsFiniteSet(A) /\ Cardinality(A) = IF n > 0 THEN n ELSE 0
<1> DEFINE B == {f \in FingerprintedFindings(fb) : f.group = g}
           C == {f \in FingerprintedFindings(fc) : f.group = g}
           A == {f \in NotIn(FingerprintedFindings(fc), FingerprintedFindings(fb)) : f.group = g}
           b == Cardinality(Has(foundB, g))
           c == Cardinality(Has(foundC, g))
<1>1. Numbered(B, File[g], b) /\ Numbered(C, File[g], c)
  BY GroupNumbers
<1>2. b \in Nat /\ c \in Nat /\ IsFiniteSet(C)
  BY <1>1 DEF Numbered
<1>3. A = {f \in C : ~\E h \in B : h.path = f.path /\ h.ordinal = f.ordinal}
  BY DEF NotIn, Fingerprints, Fingerprint
<1> HIDE DEF A, B, C, b, c
<1>4. A \in SUBSET C /\ \A f \in C : f \in A <=> f.ordinal \in b..(c - 1)
  <2>1. ASSUME NEW f \in C
        PROVE  (\E h \in B : h.path = f.path /\ h.ordinal = f.ordinal) <=> f.ordinal < b
    BY <1>1, <1>2 DEF Numbered
  <2>2. \A f \in C : f.ordinal \in 0..(c - 1)
    BY <1>1 DEF Numbered
  <2> QED
    BY <1>2, <1>3, <2>1, <2>2
<1>5. IsFiniteSet(A)
  BY <1>2, <1>4, FS_Subset
<1> DEFINE N == b..(c - 1)
           m == [f \in A |-> f.ordinal]
<1>6. m \in [A -> N]
  BY <1>4
<1>7. \A f, h \in A : m[f] = m[h] => f = h
  BY <1>1, <1>4 DEF Numbered
<1>8. \A x \in N : \E f \in A : m[f] = x
  <2> SUFFICES ASSUME NEW x \in N PROVE \E f \in A : m[f] = x
    OBVIOUS
  <2>1. x \in 0..(c - 1)
    BY <1>2
  <2>2. PICK f \in C : f.ordinal = x
    BY <1>1, <2>1 DEF Numbered
  <2> QED
    BY <1>4, <2>2
<1>9. Cardinality(N) = IF b > c - 1 THEN 0 ELSE ((c - 1) - b) + 1
  BY <1>2, FS_Interval
<1>10. Cardinality(A) = Cardinality(N)
  <2> HIDE DEF N, m
  <2> QED
    BY <1>5, <1>6, <1>7, <1>8, SameSize
<1> HIDE DEF N, m
<1>11. Cardinality(A) = IF c - b > 0 THEN c - b ELSE 0
  BY <1>2, <1>9, <1>10
<1> QED
  BY <1>5, <1>11 DEF A, b, c, Added

ScaFinding(g) == [group |-> g, path |-> <<>>, span |-> 0, ordinal |-> 0]

\* A pip-audit scan has each of its vulnerabilities once.
LEMMA ScaWhole ==
    ASSUME NEW fs, NEW found, ScaOf(fs, found), IsFiniteSet(found)
    PROVE  LET kept == FingerprintedFindings(fs)
           IN  /\ kept = {ScaFinding(g) : g \in found}
               /\ IsFiniteSet(kept)
               /\ \A f, h \in kept : Fingerprint(f) = Fingerprint(h) => f = h
<1>1. PICK n \in Nat :
          /\ DOMAIN fs = 1..n
          /\ \A i \in 1..n : fs[i].group \in found
          /\ \A g \in found : \E i \in 1..n : fs[i].group = g
  BY DEF ScaOf
<1>2. found \subseteq ScaGroups /\ SastGroups \cap ScaGroups = {}
  BY ScanConstants DEF ScaOf
<1>3. Sast(fs) = {}
  BY <1>1, <1>2 DEF Sast
<1>4. AssignSastOrdinals(fs) = {}
  BY <1>3 DEF AssignSastOrdinals, Unique
<1>5. {j \in DOMAIN fs : fs[j].group \in ScaGroups} = 1..n
  BY <1>1, <1>2
<1>6. ScaFindings(fs) = {ScaFinding(fs[i].group) : i \in 1..n}
  BY <1>5 DEF ScaFindings, ScaFinding
<1>7. {ScaFinding(fs[i].group) : i \in 1..n} = {ScaFinding(g) : g \in found}
  BY <1>1
<1>8. FingerprintedFindings(fs) = {ScaFinding(g) : g \in found}
  BY <1>4, <1>6, <1>7 DEF FingerprintedFindings
<1> DEFINE kept == {ScaFinding(g) : g \in found}
           m == [g \in found |-> ScaFinding(g)]
<1>9. m \in [found -> kept] /\ \A f \in kept : \E g \in found : m[g] = f
  OBVIOUS
<1>10. \A f, h \in kept : Fingerprint(f) = Fingerprint(h) => f = h
  BY DEF Fingerprint, ScaFinding
<1> HIDE DEF m, kept
<1>11. IsFiniteSet(kept)
  BY <1>9, FiniteImage
<1> QED
  BY <1>8, <1>10, <1>11 DEF kept

\* A vulnerability is added once, when only the candidate has it.
LEMMA ScaGrowth ==
    ASSUME NEW fb, NEW foundB, ScaOf(fb, foundB), IsFiniteSet(foundB),
           NEW fc, NEW foundC, ScaOf(fc, foundC), IsFiniteSet(foundC), NEW g
    PROVE  /\ IsFiniteSet(Added(fc, fb, g))
           /\ Cardinality(Added(fc, fb, g)) = IF g \in foundC \ foundB THEN 1 ELSE 0
<1> DEFINE A == {f \in NotIn(FingerprintedFindings(fc), FingerprintedFindings(fb)) : f.group = g}
           B == {ScaFinding(x) : x \in foundB}
           C == {ScaFinding(x) : x \in foundC}
<1>1. FingerprintedFindings(fb) = B /\ FingerprintedFindings(fc) = C
  BY ScaWhole
<1>2. \A x : ScaFinding(x).group = x
  BY DEF ScaFinding
<1>3. \A x, y : Fingerprint(ScaFinding(x)) = Fingerprint(ScaFinding(y)) <=> x = y
  BY DEF ScaFinding, Fingerprint
<1>4. NotIn(C, B) = {ScaFinding(x) : x \in foundC \ foundB}
  <2>1. \A x : Fingerprint(ScaFinding(x)) \in Fingerprints(B) <=> x \in foundB
    BY <1>3 DEF Fingerprints
  <2> QED
    BY <2>1 DEF NotIn
<1>5. A = IF g \in foundC \ foundB THEN {ScaFinding(g)} ELSE {}
  <2>1. A = {f \in {ScaFinding(x) : x \in foundC \ foundB} : f.group = g}
    BY <1>1, <1>4
  <2> HIDE DEF A
  <2> QED
    BY <1>2, <2>1
<1> HIDE DEF A
<1> QED
  BY <1>5, FS_EmptySet, FS_Singleton DEF A, Added

=============================================================================
