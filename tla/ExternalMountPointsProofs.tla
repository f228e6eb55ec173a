---------------------- MODULE ExternalMountPointsProofs ----------------------
(***************************************************************************)
(* Proofs about ExternalMountPoints, for any names and paths.              *)
(***************************************************************************)
EXTENDS ExternalMountPoints, SequenceTheorems, FiniteSetTheorems,
        WellFoundedInduction, TLAPS

-----------------------------------------------------------------------------
(* Numbers.                                                                *)

\* Some numbers have a least one.
LEMMA LeastNumber ==
    ASSUME NEW S, S \subseteq Nat, S # {}
    PROVE  \E n \in S : \A m \in S : n <= m
<1> DEFINE R == OpToRel(<, Nat)
<1>1. IsWellFoundedOn(R, Nat)
  BY NatLessThanWellFounded
<1>2. \A x, y \in Nat : x < y => <<x, y>> \in R
  BY DEF OpToRel
<1> HIDE DEF R
<1>3. PICK n \in S : \A m \in S : <<m, n>> \notin R
  BY <1>1, WFMin
<1>4. \A m \in S : n <= m
  <2> TAKE m \in S
  <2>1. m \in Nat /\ n \in Nat /\ ~(m < n)
    BY <1>2, <1>3
  <2> QED BY <2>1
<1> QED BY <1>4

\* Some numbers that are bounded have a greatest one, which is Max.
LEMMA MaxIsGreatest ==
    ASSUME NEW S, NEW n \in Nat, S \subseteq 0 .. n, S # {}
    PROVE  Max(S) \in S /\ \A y \in S : y <= Max(S)
<1> DEFINE R == {n - y : y \in S}
<1>1. R \subseteq Nat /\ R # {}
  <2>1. \A y \in S : n - y \in Nat
    OBVIOUS
  <2>2. PICK y \in S : TRUE
    OBVIOUS
  <2>3. n - y \in R
    OBVIOUS
  <2> QED BY <2>1, <2>3
<1>2. PICK r \in R : \A z \in R : r <= z
  <2> HIDE DEF R
  <2> QED BY <1>1, LeastNumber
<1>3. PICK x \in S : r = n - x
  BY <1>2
<1>4. \A y \in S : x >= y
  <2> TAKE y \in S
  <2>1. n - x <= n - y
    BY <1>2, <1>3
  <2>2. x \in Nat /\ y \in Nat
    OBVIOUS
  <2> QED BY <2>1, <2>2
<1>5. Max(S) \in S /\ \A y \in S : Max(S) >= y
  BY <1>4 DEF Max
<1> QED BY <1>5

\* There is one greatest number.
LEMMA MaxIs ==
    ASSUME NEW S, S \subseteq Int, NEW n \in S, \A y \in S : y <= n
    PROVE  Max(S) = n
<1>1. \E x \in S : \A y \in S : x >= y
  <2>1. \A y \in S : n >= y
    OBVIOUS
  <2> QED BY <2>1
<1>2. Max(S) \in S /\ \A y \in S : Max(S) >= y
  BY <1>1 DEF Max
<1>3. Max(S) >= n /\ Max(S) <= n
  BY <1>2
<1>4. Max(S) \in Int /\ n \in Int
  BY <1>2
<1> QED BY <1>3, <1>4

\* What holds of m, and of i + 1 where it holds of i, holds from m to n.
LEMMA Upwards ==
    ASSUME NEW m \in Nat, NEW n \in Nat, NEW T,
           m \in T, \A i \in m .. n - 1 : i \in T => i + 1 \in T
    PROVE  m .. n \subseteq T
<1> DEFINE bad == {i \in m .. n : i \notin T}
<1> SUFFICES ASSUME bad # {} PROVE FALSE
  OBVIOUS
<1>1. bad \subseteq Nat
  OBVIOUS
<1>2. PICK i \in bad : \A j \in bad : i <= j
  <2> HIDE DEF bad
  <2> QED BY <1>1, LeastNumber
<1>3. i \in m .. n /\ i \notin T /\ i # m
  BY <1>2
<1>4. i - 1 \in m .. n - 1 /\ i - 1 \in m .. n /\ ~(i <= i - 1) /\ (i - 1) + 1 = i
  BY <1>3
<1>5. i - 1 \in T
  BY <1>2, <1>4
<1> QED BY <1>3, <1>4, <1>5

-----------------------------------------------------------------------------
(* Paths without and with the separators at their ends.                    *)

\* The first n elements of a sequence.
LEMMA FirstOf ==
    ASSUME NEW S, NEW p \in Seq(S), NEW n \in 0 .. Len(p)
    PROVE  /\ SubSeq(p, 1, n) \in Seq(S) /\ Len(SubSeq(p, 1, n)) = n
           /\ \A i \in 1 .. n : SubSeq(p, 1, n)[i] = p[i]
<1>1. n \in Int /\ \A i \in 1 .. n : p[i] \in S
  OBVIOUS
<1>2. /\ SubSeq(p, 1, n) \in Seq(S)
      /\ Len(SubSeq(p, 1, n)) = IF 1 <= n THEN n - 1 + 1 ELSE 0
      /\ \A i \in 1 .. n - 1 + 1 : SubSeq(p, 1, n)[i] = p[1 + i - 1]
  BY <1>1, SubSeqProperties
<1> QED BY <1>2

\* The path up to its n-th character is stripped, the rest separators.
Bare(p, n) ==
    /\ n \in 1 .. Len(p)
    /\ n = 1 \/ p[n] # Slash
    /\ \A i \in n + 1 .. Len(p) : p[i] = Slash

\* Where such an n is found, StripTrailingSeparators cuts there.
LEMMA StripAt ==
    ASSUME NEW p \in Seq(Characters), NEW n, Bare(p, n)
    PROVE  StripTrailingSeparators(p) = SubSeq(p, 1, n)
<1> DEFINE S == {i \in 1 .. Len(p) : i = 1 \/ p[i] # Slash} \cup {0}
<1>1. n \in S /\ S \subseteq Int
  BY DEF Bare
<1>2. \A y \in S : y <= n
  <2> TAKE y \in S
  <2>1. CASE y = 0
    BY <2>1 DEF Bare
  <2>2. CASE y \in 1 .. Len(p) /\ (y = 1 \/ p[y] # Slash)
    <3> SUFFICES ASSUME ~(y <= n) PROVE FALSE
      OBVIOUS
    <3>1. y \in n + 1 .. Len(p) /\ y # 1
      BY <2>2 DEF Bare
    <3> QED BY <2>2, <3>1 DEF Bare
  <2> QED BY <2>1, <2>2
<1> HIDE DEF S
<1>3. Max(S) = n
  BY <1>1, <1>2, MaxIs
<1> QED BY <1>3 DEF S, StripTrailingSeparators

\* And there is one in every path that is not empty.
LEMMA BareExists ==
    ASSUME NEW p \in Seq(Characters), p # <<>>
    PROVE  \E n : Bare(p, n)
<1> DEFINE S == {i \in 1 .. Len(p) : i = 1 \/ p[i] # Slash}
<1>1. Len(p) \in Nat /\ Len(p) >= 1
  OBVIOUS
<1>2. S \subseteq 0 .. Len(p) /\ 1 \in S
  BY <1>1
<1>3. \A i \in 1 .. Len(p) : i \notin S => i # 1 /\ p[i] = Slash
  OBVIOUS
<1>4. Max(S) \in S /\ \A y \in S : y <= Max(S)
  <2> HIDE DEF S
  <2> QED BY <1>1, <1>2, MaxIsGreatest
<1> DEFINE n == Max(S)
<1>5. n \in 1 .. Len(p) /\ (n = 1 \/ p[n] # Slash)
  <2>1. \A i \in S : i \in 1 .. Len(p) /\ (i = 1 \/ p[i] # Slash)
    OBVIOUS
  <2> HIDE DEF S
  <2> QED BY <1>4, <2>1
<1>6. \A i \in n + 1 .. Len(p) : p[i] = Slash
  <2> HIDE DEF S
  <2> TAKE i \in n + 1 .. Len(p)
  <2>1. i \in 1 .. Len(p) /\ ~(i <= n)
    BY <1>5
  <2> QED BY <1>3, <1>4, <2>1
<1> HIDE DEF n
<1> QED BY <1>5, <1>6 DEF Bare

\* The empty path stays as it is.
LEMMA EmptyPath ==
    /\ StripTrailingSeparators(<<>>) = <<>>
    /\ NormalizeFilePath(<<>>) = <<>>
<1>1. {i \in 1 .. Len(<<>>) : i = 1 \/ <<>>[i] # Slash} = {}
  OBVIOUS
<1>2. Max({0}) = 0
  BY MaxIs
<1>3. StripTrailingSeparators(<<>>) = SubSeq(<<>>, 1, 0)
  BY <1>1, <1>2 DEF StripTrailingSeparators
<1>4. SubSeq(<<>>, 1, 0) = <<>>
  BY SubSeqEmpty
<1> QED BY <1>3, <1>4 DEF NormalizeFilePath

\* What is stripped is a path that stays as it is when it is stripped again.
LEMMA StripIs ==
    ASSUME NEW p \in Seq(Characters)
    PROVE  /\ StripTrailingSeparators(p) \in Seq(Characters)
           /\ StripTrailingSeparators(p) = <<>> <=> p = <<>>
           /\ StripTrailingSeparators(StripTrailingSeparators(p)) = StripTrailingSeparators(p)
<1>1. CASE p = <<>>
  BY <1>1, EmptyPath
<1>2. CASE p # <<>>
  <2>1. PICK n : Bare(p, n)
    BY <1>2, BareExists
  <2> DEFINE s == SubSeq(p, 1, n)
  <2>2. StripTrailingSeparators(p) = s
    BY <2>1, StripAt
  <2>3. s \in Seq(Characters) /\ Len(s) = n /\ \A i \in 1 .. n : s[i] = p[i]
    <3>1. n \in 0 .. Len(p)
      BY <2>1 DEF Bare
    <3> QED BY <3>1, FirstOf
  <2> HIDE DEF s
  <2>4. Bare(s, n) /\ s # <<>>
    BY <2>1, <2>3 DEF Bare
  <2>5. StripTrailingSeparators(s) = SubSeq(s, 1, n)
    BY <2>3, <2>4, StripAt
  <2>6. SubSeq(s, 1, n) = s
    BY <2>3, SubSeqFull
  <2> QED BY <1>2, <2>2, <2>3, <2>4, <2>5, <2>6
<1> QED BY <1>1, <1>2

\* The path with one separator at its end.
Closed(s) == IF s = <<>> \/ Last(s) = Slash THEN s ELSE Append(s, Slash)

\* A path is normalised by closing what is stripped.
LEMMA NormIsClosed ==
    ASSUME NEW p \in Seq(Characters)
    PROVE  NormalizeFilePath(p) = Closed(StripTrailingSeparators(p))
  BY StripIs DEF NormalizeFilePath, Closed

\* A normalised path is a path, and ends with a separator unless it is empty.
LEMMA NormIs ==
    ASSUME NEW p \in Seq(Characters)
    PROVE  /\ NormalizeFilePath(p) \in Seq(Characters)
           /\ NormalizeFilePath(p) = <<>> <=> p = <<>>
           /\ p # <<>> => NormalizeFilePath(p)[Len(NormalizeFilePath(p))] = Slash
<1> DEFINE s == StripTrailingSeparators(p)
<1>1. s \in Seq(Characters) /\ (s = <<>> <=> p = <<>>) /\ NormalizeFilePath(p) = Closed(s)
  BY StripIs, NormIsClosed
<1> HIDE DEF s
<1>2. Slash \in Characters
  BY DEF Slash, Characters, Dash, Letter
<1>3. CASE s = <<>> \/ Last(s) = Slash
  BY <1>1, <1>3 DEF Closed, Last
<1>4. CASE ~(s = <<>> \/ Last(s) = Slash)
  <2>1. NormalizeFilePath(p) = Append(s, Slash)
    BY <1>1, <1>4 DEF Closed
  <2>2. /\ Append(s, Slash) \in Seq(Characters) /\ Append(s, Slash) # <<>>
        /\ Len(Append(s, Slash)) = Len(s) + 1 /\ Append(s, Slash)[Len(s) + 1] = Slash
    BY <1>1, <1>2, AppendProperties
  <2> QED BY <1>1, <1>4, <2>1, <2>2
<1> QED BY <1>3, <1>4

\* Stripping undoes normalising.
LEMMA StripNorm ==
    ASSUME NEW p \in Seq(Characters)
    PROVE  StripTrailingSeparators(NormalizeFilePath(p)) = StripTrailingSeparators(p)
<1>1. CASE p = <<>>
  BY <1>1, EmptyPath
<1>2. CASE p # <<>>
  <2> DEFINE s == StripTrailingSeparators(p)
  <2>1. PICK n : Bare(p, n)
    BY <1>2, BareExists
  <2>2. s = SubSeq(p, 1, n)
    BY <2>1, StripAt
  <2>3. s \in Seq(Characters) /\ s # <<>> /\ Len(s) = n /\ \A i \in 1 .. n : s[i] = p[i]
    <3>1. n \in 0 .. Len(p)
      BY <2>1 DEF Bare
    <3> QED BY <1>2, <2>2, <3>1, FirstOf, StripIs
  <2>4. NormalizeFilePath(p) = Closed(s) /\ StripTrailingSeparators(s) = s
    BY NormIsClosed, StripIs
  <2> HIDE DEF s
  <2>5. CASE Last(s) = Slash
    BY <2>4, <2>5 DEF Closed, s
  <2>6. CASE Last(s) # Slash
    <3> DEFINE t == Append(s, Slash)
    <3>1. Slash \in Characters
      BY DEF Slash, Characters, Dash, Letter
    <3>2. /\ t \in Seq(Characters) /\ Len(t) = n + 1 /\ t[n + 1] = Slash
          /\ \A i \in 1 .. n : t[i] = s[i]
      BY <2>3, <3>1, AppendProperties
    <3> HIDE DEF t
    <3>3. NormalizeFilePath(p) = t
      BY <2>3, <2>4, <2>6 DEF Closed, t
    <3>4. Bare(t, n)
      BY <2>1, <2>3, <3>2 DEF Bare
    <3>5. StripTrailingSeparators(t) = SubSeq(t, 1, n)
      BY <3>2, <3>4, StripAt
    <3>6. SubSeq(t, 1, n) = s
      <4>1. n \in 0 .. Len(t)
        BY <2>1, <3>2 DEF Bare
      <4>2. /\ SubSeq(t, 1, n) \in Seq(Characters) /\ Len(SubSeq(t, 1, n)) = n
            /\ \A i \in 1 .. n : SubSeq(t, 1, n)[i] = t[i]
        BY <3>2, <4>1, FirstOf
      <4> QED BY <2>3, <3>2, <4>2, SeqEqual
    <3> QED BY <3>3, <3>5, <3>6 DEF s
  <2> QED BY <2>5, <2>6
<1> QED BY <1>1, <1>2

\* Stripping a path does not change what it is normalised to.
LEMMA NormStrip ==
    ASSUME NEW p \in Seq(Characters)
    PROVE  NormalizeFilePath(StripTrailingSeparators(p)) = NormalizeFilePath(p)
  BY StripIs, NormIsClosed

-----------------------------------------------------------------------------
(* The order of paths.                                                     *)

\* The i-th character; 0, below every character, stands for the end.
At(p, i) == IF i <= Len(p) THEN p[i] ELSE 0

\* The i-th character is the first in which the paths differ; p has the lower.
Lower(p, q, i) ==
    /\ i \in Nat \ {0}
    /\ At(p, i) < At(q, i)
    /\ \A j \in 1 .. i - 1 : At(p, j) = At(q, j)

\* What stands at a place of a path.
LEMMA AtIs ==
    ASSUME NEW p \in Seq(Characters), NEW i \in Nat \ {0}
    PROVE  /\ At(p, i) \in Nat
           /\ At(p, i) = 0 <=> i > Len(p)
           /\ i <= Len(p) => At(p, i) = p[i]
<1>1. i <= Len(p) => p[i] \in 1 .. 4
  BY DEF Characters, Dash, Letter
<1>2. Len(p) \in Nat
  OBVIOUS
<1> QED BY <1>1, <1>2 DEF At

\* Equal beginnings, element by element.
LEMMA SameStart ==
    ASSUME NEW S, NEW p \in Seq(S), NEW q \in Seq(S), NEW n \in Nat,
           n <= Len(p), n <= Len(q)
    PROVE  SubSeq(p, 1, n) = SubSeq(q, 1, n) <=> \A i \in 1 .. n : p[i] = q[i]
<1>1. /\ SubSeq(p, 1, n) \in Seq(S) /\ Len(SubSeq(p, 1, n)) = n
      /\ \A i \in 1 .. n : SubSeq(p, 1, n)[i] = p[i]
  BY FirstOf
<1>2. /\ SubSeq(q, 1, n) \in Seq(S) /\ Len(SubSeq(q, 1, n)) = n
      /\ \A i \in 1 .. n : SubSeq(q, 1, n)[i] = q[i]
  BY FirstOf
<1> DEFINE s == SubSeq(p, 1, n)
           t == SubSeq(q, 1, n)
<1>3. /\ s \in Seq(S) /\ Len(s) = n /\ \A i \in 1 .. n : s[i] = p[i]
      /\ t \in Seq(S) /\ Len(t) = n /\ \A i \in 1 .. n : t[i] = q[i]
  BY <1>1, <1>2
<1> HIDE DEF s, t
<1>4. s = t <=> \A i \in 1 .. n : p[i] = q[i]
  <2>1. ASSUME s = t PROVE \A i \in 1 .. n : p[i] = q[i]
    BY <1>3, <2>1
  <2>2. ASSUME \A i \in 1 .. n : p[i] = q[i] PROVE s = t
    <3>1. \A i \in 1 .. Len(s) : s[i] = t[i]
      BY <1>3, <2>2
    <3> QED BY <1>3, <3>1, SeqEqual
  <2> QED BY <2>1, <2>2
<1> QED BY <1>4 DEF s, t

\* One sequence is the beginning of another.
LEMMA PrefixIs ==
    ASSUME NEW S, NEW p \in Seq(S), NEW q \in Seq(S)
    PROVE  IsPrefix(p, q) <=> Len(p) <= Len(q) /\ \A i \in 1 .. Len(p) : p[i] = q[i]
<1>1. CASE Len(p) <= Len(q)
  <2>1. Len(p) \in Nat /\ Len(p) <= Len(p)
    OBVIOUS
  <2>2. SubSeq(p, 1, Len(p)) = SubSeq(q, 1, Len(p)) <=> \A i \in 1 .. Len(p) : p[i] = q[i]
    BY <1>1, <2>1, SameStart
  <2> QED BY <1>1, <2>2 DEF IsPrefix
<1>2. CASE ~(Len(p) <= Len(q))
  BY <1>2 DEF IsPrefix
<1> QED BY <1>1, <1>2

\* Paths that agree in every character are the same.
LEMMA AtEqual ==
    ASSUME NEW p \in Seq(Characters), NEW q \in Seq(Characters),
           \A i \in Nat \ {0} : At(p, i) = At(q, i)
    PROVE  p = q
<1>1. Len(p) \in Nat /\ Len(q) \in Nat
  OBVIOUS
<1>2. \A i \in Nat \ {0} : i > Len(p) <=> i > Len(q)
  BY AtIs
<1>3. Len(p) = Len(q)
  <2>1. Len(p) + 1 > Len(q)
    BY <1>1, <1>2
  <2>2. Len(q) + 1 > Len(p)
    BY <1>1, <1>2
  <2> QED BY <1>1, <2>1, <2>2
<1>4. \A i \in 1 .. Len(p) : p[i] = q[i]
  <2> TAKE i \in 1 .. Len(p)
  <2>1. i \in Nat \ {0} /\ i <= Len(p) /\ i <= Len(q)
    BY <1>3
  <2>2. At(p, i) = p[i] /\ At(q, i) = q[i] /\ At(p, i) = At(q, i)
    BY <2>1, AtIs
  <2> QED BY <2>2
<1> QED BY <1>3, <1>4, SeqEqual

\* The order of the map looks at the first difference.
LEMMA BeforeIs ==
    ASSUME NEW p \in Seq(Characters), NEW q \in Seq(Characters)
    PROVE  Before(p, q) <=> \E i : Lower(p, q, i)
<1>1. Len(p) \in Nat /\ Len(q) \in Nat
  OBVIOUS
<1>2. \A i \in Nat \ {0} :
         /\ At(p, i) \in Nat /\ (At(p, i) = 0 <=> i > Len(p)) /\ (i <= Len(p) => At(p, i) = p[i])
         /\ At(q, i) \in Nat /\ (At(q, i) = 0 <=> i > Len(q)) /\ (i <= Len(q) => At(q, i) = q[i])
  BY AtIs
<1>3. ASSUME IsStrictPrefix(p, q) PROVE \E i : Lower(p, q, i)
  <2>1. p # q /\ Len(p) <= Len(q) /\ \A i \in 1 .. Len(p) : p[i] = q[i]
    BY <1>3, PrefixIs DEF IsStrictPrefix
  <2>2. Len(p) # Len(q)
    BY <2>1, SeqEqual
  <2> DEFINE k == Len(p) + 1
  <2>3. k \in Nat \ {0} /\ k > Len(p) /\ k <= Len(q) /\ ~(k > Len(q))
    BY <1>1, <2>1, <2>2
  <2>4. \A j \in 1 .. k - 1 : j \in Nat \ {0} /\ j <= Len(p) /\ j <= Len(q) /\ p[j] = q[j]
    BY <1>1, <2>1
  <2> HIDE DEF k
  <2>5. At(p, k) < At(q, k)
    BY <1>2, <2>3
  <2>6. \A j \in 1 .. k - 1 : At(p, j) = At(q, j)
    BY <1>2, <2>4
  <2> QED BY <2>3, <2>5, <2>6 DEF Lower
<1>4. ASSUME NEW i \in 1 .. Len(p), i <= Len(q), p[i] < q[i],
             SubSeq(p, 1, i - 1) = SubSeq(q, 1, i - 1)
      PROVE  Lower(p, q, i)
  <2>1. i - 1 \in Nat /\ i - 1 <= Len(p) /\ i - 1 <= Len(q)
    BY <1>1, <1>4
  <2>2. \A j \in 1 .. i - 1 : p[j] = q[j]
    BY <1>4, <2>1, SameStart
  <2>3. \A j \in 1 .. i - 1 : At(p, j) = At(q, j)
    <3> TAKE j \in 1 .. i - 1
    <3>1. j \in Nat \ {0} /\ j <= Len(p) /\ j <= Len(q)
      BY <1>1, <1>4
    <3> QED BY <1>2, <2>2, <3>1
  <2>4. i \in Nat \ {0} /\ i <= Len(p)
    BY <1>1
  <2>5. At(p, i) < At(q, i)
    BY <1>2, <1>4, <2>4
  <2> QED BY <2>3, <2>4, <2>5 DEF Lower
<1>5. ASSUME NEW i, Lower(p, q, i) PROVE Before(p, q)
  <2>1. i \in Nat \ {0} /\ At(p, i) < At(q, i) /\ \A j \in 1 .. i - 1 : At(p, j) = At(q, j)
    BY <1>5 DEF Lower
  <2>2. i <= Len(q)
    BY <1>1, <1>2, <2>1
  <2>3. \A j \in 1 .. i - 1 : j <= Len(p) /\ p[j] = q[j]
    <3> TAKE j \in 1 .. i - 1
    <3>1. j \in Nat \ {0} /\ j <= Len(q) /\ ~(j > Len(q)) /\ At(p, j) = At(q, j)
      BY <1>1, <2>1, <2>2
    <3>2. ~(j > Len(p))
      BY <1>2, <3>1
    <3>3. j <= Len(p)
      BY <1>1, <3>1, <3>2
    <3> QED BY <1>2, <3>1, <3>3
  <2>4. CASE i <= Len(p)
    <3>1. i - 1 \in Nat /\ i - 1 <= Len(p) /\ i - 1 <= Len(q) /\ i \in 1 .. Len(p)
      BY <1>1, <2>1, <2>2, <2>4
    <3>2. SubSeq(p, 1, i - 1) = SubSeq(q, 1, i - 1)
      BY <2>3, <3>1, SameStart
    <3>3. p[i] < q[i]
      BY <1>2, <2>1, <2>2, <2>4
    <3> QED BY <2>2, <3>1, <3>2, <3>3 DEF Before
  <2>5. CASE ~(i <= Len(p))
    <3>1. Len(p) = i - 1
      <4>1. i - 1 \in 1 .. i - 1 => i - 1 <= Len(p)
        BY <2>3
      <4> QED BY <1>1, <2>1, <2>5, <4>1
    <3>2. Len(p) <= Len(q) /\ p # q
      BY <1>1, <2>1, <2>2, <3>1
    <3>3. IsPrefix(p, q)
      BY <2>3, <3>1, <3>2, PrefixIs
    <3> QED BY <3>2, <3>3 DEF Before, IsStrictPrefix
  <2> QED BY <2>4, <2>5
<1> QED BY <1>3, <1>4, <1>5 DEF Before

\* No path is before itself.
LEMMA NotBeforeItself ==
    ASSUME NEW p \in Seq(Characters)
    PROVE  ~Before(p, p)
<1>1. \A i \in Nat \ {0} : At(p, i) \in Nat
  BY AtIs
<1> QED BY <1>1, BeforeIs DEF Lower

\* Of two paths one is before the other.
LEMMA BeforeTotal ==
    ASSUME NEW p \in Seq(Characters), NEW q \in Seq(Characters), p # q
    PROVE  Before(p, q) \/ Before(q, p)
<1> DEFINE D == {i \in Nat \ {0} : At(p, i) # At(q, i)}
<1>1. D \subseteq Nat /\ D # {}
  BY AtEqual
<1>2. PICK i \in D : \A j \in D : i <= j
  <2> HIDE DEF D
  <2> QED BY <1>1, LeastNumber
<1>3. i \in Nat \ {0} /\ At(p, i) # At(q, i)
  BY <1>2
<1>4. \A j \in 1 .. i - 1 : At(p, j) = At(q, j)
  <2> TAKE j \in 1 .. i - 1
  <2>1. j \in Nat \ {0} /\ ~(i <= j)
    BY <1>3
  <2> QED BY <1>2, <2>1
<1>5. At(p, i) \in Nat /\ At(q, i) \in Nat
  BY <1>3, AtIs
<1>6. At(p, i) < At(q, i) \/ At(q, i) < At(p, i)
  BY <1>3, <1>5
<1> QED BY <1>3, <1>4, <1>6, BeforeIs DEF Lower

\* The order is transitive.
LEMMA BeforeTransitive ==
    ASSUME NEW p \in Seq(Characters), NEW q \in Seq(Characters), NEW r \in Seq(Characters),
           Before(p, q), Before(q, r)
    PROVE  Before(p, r)
<1>1. PICK i : Lower(p, q, i)
  BY BeforeIs
<1>2. PICK k : Lower(q, r, k)
  BY BeforeIs
<1>3. /\ i \in Nat \ {0} /\ At(p, i) < At(q, i) /\ \A j \in 1 .. i - 1 : At(p, j) = At(q, j)
      /\ k \in Nat \ {0} /\ At(q, k) < At(r, k) /\ \A j \in 1 .. k - 1 : At(q, j) = At(r, j)
  BY <1>1, <1>2 DEF Lower
<1>4. \A j \in Nat \ {0} : At(p, j) \in Nat /\ At(q, j) \in Nat /\ At(r, j) \in Nat
  BY AtIs
<1>5. CASE i < k
  <2>1. i \in 1 .. k - 1 /\ \A j \in 1 .. i - 1 : j \in 1 .. k - 1
    BY <1>3, <1>5
  <2>2. At(p, i) < At(r, i) /\ \A j \in 1 .. i - 1 : At(p, j) = At(r, j)
    BY <1>3, <2>1
  <2> QED BY <1>3, <2>2, BeforeIs DEF Lower
<1>6. CASE i = k
  <2>1. At(p, i) < At(r, i)
    BY <1>3, <1>4, <1>6
  <2>2. \A j \in 1 .. i - 1 : At(p, j) = At(r, j)
    BY <1>3, <1>6
  <2> QED BY <1>3, <2>1, <2>2, BeforeIs DEF Lower
<1>7. CASE i > k
  <2>1. k \in 1 .. i - 1 /\ \A j \in 1 .. k - 1 : j \in 1 .. i - 1
    BY <1>3, <1>7
  <2>2. At(p, k) < At(r, k) /\ \A j \in 1 .. k - 1 : At(p, j) = At(r, j)
    BY <1>3, <2>1
  <2> QED BY <1>3, <2>2, BeforeIs DEF Lower
<1> QED BY <1>3, <1>5, <1>6, <1>7

\* A path between one of its beginnings and itself starts with that beginning.
LEMMA Between ==
    ASSUME NEW p \in Seq(Characters), NEW f \in Seq(Characters), NEW q \in Seq(Characters),
           IsPrefix(p, q), Before(p, f), f = q \/ Before(f, q)
    PROVE  IsPrefix(p, f)
<1>1. Len(p) \in Nat /\ Len(f) \in Nat /\ Len(q) \in Nat
  OBVIOUS
<1>2. PICK i : Lower(p, f, i)
  BY BeforeIs
<1>3. i \in Nat \ {0} /\ At(p, i) < At(f, i) /\ \A j \in 1 .. i - 1 : At(p, j) = At(f, j)
  BY <1>2 DEF Lower
<1>4. Len(p) <= Len(q) /\ \A j \in 1 .. Len(p) : p[j] = q[j]
  BY PrefixIs
<1>5. \A j \in 1 .. Len(p) : At(p, j) = At(q, j)
  <2> TAKE j \in 1 .. Len(p)
  <2>1. j \in Nat \ {0} /\ j <= Len(p) /\ j <= Len(q)
    BY <1>1, <1>4
  <2>2. At(p, j) = p[j] /\ At(q, j) = q[j]
    BY <2>1, AtIs
  <2> QED BY <1>4, <2>2
<1>6. CASE i <= Len(p)
  <2>1. i \in 1 .. Len(p) /\ \A j \in 1 .. i - 1 : j \in 1 .. Len(p)
    BY <1>1, <1>3, <1>6
  <2>2. At(q, i) < At(f, i) /\ \A j \in 1 .. i - 1 : At(q, j) = At(f, j)
    BY <1>3, <1>5, <2>1
  <2>3. Before(q, f)
    BY <1>3, <2>2, BeforeIs DEF Lower
  <2>4. Before(f, f)
    BY <2>3, BeforeTransitive
  <2> QED BY <2>4, NotBeforeItself
<1>7. CASE ~(i <= Len(p))
  <2>1. \A j \in 1 .. Len(p) : j <= Len(f) /\ p[j] = f[j]
    <3> TAKE j \in 1 .. Len(p)
    <3>1. j \in 1 .. i - 1 /\ j \in Nat \ {0} /\ j <= Len(p) /\ ~(j > Len(p))
      BY <1>1, <1>3, <1>7
    <3>2. At(p, j) = At(f, j)
      BY <1>3, <3>1
    <3>3. At(p, j) # 0 /\ At(p, j) = p[j]
      BY <3>1, AtIs
    <3>4. ~(j > Len(f)) /\ (j <= Len(f) => At(f, j) = f[j])
      BY <3>1, <3>2, <3>3, AtIs
    <3>5. j <= Len(f)
      BY <1>1, <3>1, <3>4
    <3> QED BY <3>2, <3>3, <3>4, <3>5
  <2>2. Len(p) <= Len(f)
    <3>1. CASE Len(p) = 0
      BY <1>1, <3>1
    <3>2. CASE Len(p) # 0
      <4>1. Len(p) \in 1 .. Len(p)
        BY <1>1, <3>2
      <4> QED BY <2>1, <4>1
    <3> QED BY <3>1, <3>2
  <2> QED BY <2>1, <2>2, PrefixIs
<1> QED BY <1>6, <1>7

-----------------------------------------------------------------------------
(* The two maps.                                                           *)

Instance == [type : Types, path : Seq(Characters)]
Entry == [path : Seq(Characters), name : Names]

\* The entry of a mount, and the entries there should be.
EntryOf(n) == [path |-> NormalizeFilePath(instances[n].path), name |-> n]
Entries == {EntryOf(n) : n \in Exclusive}

\* No path is in the map twice: with it a revoked mount takes one entry along.
MapsInv ==
    /\ instances \in [Names -> Instance \cup {None}]
    /\ <<>> \notin Mounted
    /\ names = Entries
    /\ \A e, f \in names : e.path = f.path => e = f

\* None is no instance.
LEMMA NoneIsNone == \A m \in Instance : m # None
  BY NoneAssumption DEF Instance

\* The instance of a mounted name.
LEMMA InstanceOf ==
    ASSUME MapsInv, NEW n \in Mounted
    PROVE  n \in Names /\ instances[n] \in Instance
  BY DEF MapsInv, Mounted

\* What an entry is.
LEMMA EntryIs ==
    ASSUME MapsInv, NEW n \in Exclusive
    PROVE  /\ n \in Names /\ instances[n] \in Instance
           /\ EntryOf(n) \in Entry /\ EntryOf(n).name = n
           /\ EntryOf(n).path = NormalizeFilePath(instances[n].path)
           /\ EntryOf(n).path # <<>>
<1>1. n \in Mounted /\ instances[n].path # <<>>
  BY DEF Exclusive
<1>2. n \in Names /\ instances[n] \in Instance
  BY <1>1, InstanceOf
<1>3. instances[n].path \in Seq(Characters)
  BY <1>2 DEF Instance
<1>4. NormalizeFilePath(instances[n].path) \in Seq(Characters) \ {<<>>}
  BY <1>1, <1>3, NormIs
<1> QED BY <1>2, <1>4 DEF EntryOf, Entry

\* The entries, by their names.
LEMMA NamesAre ==
    ASSUME MapsInv
    PROVE  /\ names \subseteq Entry
           /\ \A e \in names : e.name \in Exclusive /\ e = EntryOf(e.name) /\ e.path # <<>>
           /\ \A n \in Exclusive : EntryOf(n) \in names
<1>1. names = {EntryOf(n) : n \in Exclusive}
  BY DEF MapsInv, Entries
<1>2. \A n \in Exclusive : EntryOf(n) \in Entry /\ EntryOf(n).name = n /\ EntryOf(n).path # <<>>
  BY EntryIs
<1>3. \A e \in names : \E n \in Exclusive : e = EntryOf(n)
  BY <1>1
<1>4. \A e \in names : e \in Entry /\ e.name \in Exclusive /\ e = EntryOf(e.name) /\ e.path # <<>>
  <2> TAKE e \in names
  <2>1. PICK n \in Exclusive : e = EntryOf(n)
    BY <1>3
  <2> QED BY <1>2, <2>1
<1> QED BY <1>1, <1>4

\* The entry that has a path is the one below or at that path.
LEMMA EntryFound ==
    ASSUME MapsInv, NEW e \in names
    PROVE  e \in NotAbove(e.path)
<1>1. names \subseteq Entry /\ \A f \in names : f.path \in Seq(Characters)
  BY NamesAre DEF Entry
<1>2. e \in Upto(e.path)
  BY <1>1, NotBeforeItself DEF Upto, After
<1>3. \A f \in Upto(e.path) : f = e \/ Before(f.path, e.path)
  <2> TAKE f \in Upto(e.path)
  <2>1. f \in names /\ ~Before(e.path, f.path)
    BY DEF Upto, After
  <2>2. f.path = e.path => f = e
    BY <2>1 DEF MapsInv
  <2> QED BY <1>1, <2>1, <2>2, BeforeTotal
<1> QED BY <1>2, <1>3 DEF NotAbove

\* A path that may be mounted exclusively is not in the map.
LEMMA NewPath ==
    ASSUME MapsInv, NEW name, NEW type, NEW path,
           ValidateNewMountPoint(name, type, path), path # <<>>, IsOverlappingMountPathForbidden(type)
    PROVE  \A e \in names : e.path # path
<1>1. \A e \in NotAbove(path) : e.path # path
  BY DEF ValidateNewMountPoint
<1> QED BY <1>1, EntryFound

\* At first nothing is mounted.
LEMMA MapsInit == Init => MapsInv
<1> SUFFICES ASSUME Init PROVE MapsInv
  OBVIOUS
<1>1. instances \in [Names -> Instance \cup {None}] /\ \A n \in Names : instances[n] = None
  BY DEF Init
<1>2. Mounted = {} /\ Exclusive = {}
  BY <1>1 DEF Mounted, Exclusive
<1>3. names = {} /\ Entries = {}
  BY <1>2 DEF Init, Entries
<1> QED BY <1>1, <1>2, <1>3 DEF MapsInv

\* RegisterFileSystem: the new mount brings its entry, if it is exclusive.
LEMMA MapsRegister ==
    ASSUME MapsInv, NEW n \in Names, NEW t \in Types, NEW p \in Paths, RegisterFileSystem(n, t, p)
    PROVE  MapsInv'
<1> DEFINE path == NormalizeFilePath(p)
           bare == StripTrailingSeparators(path)
           new == [type |-> t, path |-> bare]
           entry == [path |-> path, name |-> n]
<1>1. p \in Seq(Characters) /\ path \in Seq(Characters) /\ bare \in Seq(Characters)
  BY PathsAssumption, NormIs, StripIs
<1>2. bare = <<>> <=> path = <<>>
  BY <1>1, StripIs
<1>3. NormalizeFilePath(bare) = path
  BY <1>1, StripNorm, NormStrip
<1>4. ValidateNewMountPoint(n, t, path) /\ n # <<>> /\ instances[n] = None
  BY DEF RegisterFileSystem, ValidateNewMountPoint
<1>5. /\ instances' = [instances EXCEPT ![n] = new]
      /\ names' = IF path # <<>> /\ IsOverlappingMountPathForbidden(t) THEN names \cup {entry} ELSE names
  BY DEF RegisterFileSystem
<1>6. path # <<>> /\ IsOverlappingMountPathForbidden(t) => \A e \in names : e.path # path
  BY <1>4, NewPath
<1>7. new \in Instance /\ new.type = t /\ new.path = bare /\ entry.path = path /\ entry.name = n
  BY <1>1 DEF Instance
<1> HIDE DEF path, bare, new
<1>8. instances \in [Names -> Instance \cup {None}] /\ instances'[n] = new /\ new # None
      /\ \A m \in Names \ {n} : instances'[m] = instances[m]
  BY <1>5, <1>7, NoneIsNone DEF MapsInv
<1>9. instances' \in [Names -> Instance \cup {None}]
  BY <1>5, <1>7, <1>8
<1>10. Mounted' = Mounted \cup {n} /\ n \notin Mounted
  BY <1>4, <1>8 DEF Mounted
<1>11. Exclusive' = IF path # <<>> /\ IsOverlappingMountPathForbidden(t)
                    THEN Exclusive \cup {n} ELSE Exclusive
  <2>1. \A m \in Mounted : m \in Names \ {n} /\ instances'[m] = instances[m]
    BY <1>8, <1>10 DEF Mounted
  <2>2. Exclusive' = {m \in Mounted \cup {n} :
                         IsOverlappingMountPathForbidden(instances'[m].type) /\ instances'[m].path # <<>>}
    BY <1>10 DEF Exclusive, IsOverlappingMountPathForbidden
  <2>3. Exclusive = {m \in Mounted :
                         IsOverlappingMountPathForbidden(instances'[m].type) /\ instances'[m].path # <<>>}
    BY <2>1 DEF Exclusive
  <2>4. instances'[n].type = t /\ instances'[n].path = bare
    BY <1>7, <1>8
  <2> QED BY <1>2, <2>2, <2>3, <2>4
<1>12. \A m \in Exclusive : EntryOf(m)' = EntryOf(m)
  <2>1. \A m \in Exclusive : m \in Names \ {n}
    BY <1>10 DEF Exclusive, Mounted
  <2> QED BY <1>8, <2>1 DEF EntryOf
<1>13. EntryOf(n)' = entry
  BY <1>3, <1>7, <1>8 DEF EntryOf
<1>14. names = {EntryOf(m) : m \in Exclusive}
  BY DEF MapsInv, Entries
<1>15. Entries' = {EntryOf(m)' : m \in Exclusive'}
  BY DEF Entries
<1> HIDE DEF entry
<1>16. names' = Entries'
  <2>1. CASE path # <<>> /\ IsOverlappingMountPathForbidden(t)
    <3>1. names' = names \cup {entry} /\ Exclusive' = Exclusive \cup {n}
      BY <1>5, <1>11, <2>1 DEF entry
    <3> QED BY <1>12, <1>13, <1>14, <1>15, <3>1
  <2>2. CASE ~(path # <<>> /\ IsOverlappingMountPathForbidden(t))
    <3>1. names' = names /\ Exclusive' = Exclusive
      BY <1>5, <1>11, <2>2
    <3> QED BY <1>12, <1>14, <1>15, <3>1
  <2> QED BY <2>1, <2>2
<1>17. \A e, f \in names' : e.path = f.path => e = f
  <2>1. \A e, f \in names : e.path = f.path => e = f
    BY DEF MapsInv
  <2>2. names' \subseteq names \cup {entry}
    BY <1>5 DEF entry
  <2>3. entry \in names' => entry \in names \/ \A e \in names : e.path # entry.path
    BY <1>5, <1>6, <1>7 DEF entry
  <2> QED BY <2>1, <2>2, <2>3
<1>18. <<>> \notin Mounted'
  BY <1>4, <1>10 DEF MapsInv
<1> QED BY <1>9, <1>16, <1>17, <1>18 DEF MapsInv

\* RevokeFileSystem: a revoked mount takes its entry along, and no other.
LEMMA MapsRevoke ==
    ASSUME MapsInv, NEW n \in Names, RevokeFileSystem(n)
    PROVE  MapsInv'
<1> DEFINE gone == NormalizeFilePath(instances[n].path)
<1>1. /\ instances[n] # None
      /\ instances' = [instances EXCEPT ![n] = None]
      /\ names' = IF IsOverlappingMountPathForbidden(instances[n].type)
                  THEN {e \in names : e.path # gone} ELSE names
  BY DEF RevokeFileSystem
<1>2. n \in Mounted /\ instances[n] \in Instance /\ instances[n].path \in Seq(Characters)
  <2>1. n \in Mounted
    BY <1>1 DEF Mounted
  <2> QED BY <2>1, InstanceOf DEF Instance
<1>3. /\ instances \in [Names -> Instance \cup {None}]
      /\ instances' \in [Names -> Instance \cup {None}] /\ instances'[n] = None
      /\ \A m \in Names \ {n} : instances'[m] = instances[m]
  BY <1>1 DEF MapsInv
<1>4. Mounted' = Mounted \ {n}
  BY <1>3 DEF Mounted
<1>5. Exclusive' = Exclusive \ {n}
  <2>1. \A m \in Mounted \ {n} : instances'[m] = instances[m]
    BY <1>3 DEF Mounted
  <2> QED BY <1>4, <2>1 DEF Exclusive, IsOverlappingMountPathForbidden
<1>6. \A m \in Exclusive \ {n} : EntryOf(m)' = EntryOf(m)
  <2>1. \A m \in Exclusive \ {n} : m \in Names \ {n}
    BY DEF Exclusive, Mounted
  <2> QED BY <1>3, <2>1 DEF EntryOf
<1>7. names = {EntryOf(m) : m \in Exclusive} /\ \A e, f \in names : e.path = f.path => e = f
  BY DEF MapsInv, Entries
<1>8. Entries' = {EntryOf(m) : m \in Exclusive \ {n}}
  <2>1. Entries' = {EntryOf(m)' : m \in Exclusive'}
    BY DEF Entries
  <2> QED BY <1>5, <1>6, <2>1
<1>9. \A m \in Exclusive : EntryOf(m).name = m
  BY EntryIs
<1>10. names' = {EntryOf(m) : m \in Exclusive \ {n}}
  <2>1. CASE n \in Exclusive
    <3>1. EntryOf(n) \in names /\ EntryOf(n).path = gone
      BY <1>7, <2>1, EntryIs
    <3>2. names' = {e \in names : e.path # gone}
      BY <1>1, <2>1 DEF Exclusive
    <3>3. \A e \in names : e.path = gone <=> e = EntryOf(n)
      BY <1>7, <3>1
    <3> HIDE DEF gone
    <3>4. names' = names \ {EntryOf(n)}
      BY <3>2, <3>3
    <3> QED BY <1>7, <1>9, <2>1, <3>4
  <2>2. CASE n \notin Exclusive
    <3>1. names' = names
      <4>1. CASE IsOverlappingMountPathForbidden(instances[n].type)
        <5>1. instances[n].path = <<>>
          BY <1>2, <2>2, <4>1 DEF Exclusive
        <5>2. gone = <<>>
          BY <5>1, EmptyPath
        <5>3. \A e \in names : e.path # <<>>
          BY NamesAre
        <5> QED BY <1>1, <4>1, <5>2, <5>3
      <4>2. CASE ~IsOverlappingMountPathForbidden(instances[n].type)
        BY <1>1, <4>2
      <4> QED BY <4>1, <4>2
    <3> QED BY <1>7, <2>2, <3>1
  <2> QED BY <2>1, <2>2
<1>11. names' \subseteq names
  BY <1>1
<1>12. <<>> \notin Mounted'
  BY <1>4 DEF MapsInv
<1> QED BY <1>3, <1>7, <1>8, <1>10, <1>11, <1>12 DEF MapsInv

\* Every step keeps the maps in agreement.
LEMMA MapsStep ==
    ASSUME MapsInv, [Next]_vars
    PROVE  MapsInv'
<1>1. CASE UNCHANGED <<instances, names>>
  BY <1>1 DEF MapsInv, Mounted, Exclusive, Entries, EntryOf
<1>2. CASE RevokeAllFileSystems
  <2>1. /\ names' = {} /\ instances' \in [Names -> Instance \cup {None}]
        /\ \A n \in Names : instances'[n] = None
    BY <1>2 DEF RevokeAllFileSystems
  <2>2. Mounted' = {} /\ Exclusive' = {}
    BY <2>1 DEF Mounted, Exclusive
  <2>3. Entries' = {}
    BY <2>2 DEF Entries
  <2> QED BY <2>1, <2>2, <2>3 DEF MapsInv
<1>3. UNCHANGED vars \/ CrackVirtualPath \/ ReaderDone => UNCHANGED <<instances, names>>
  BY DEF vars, CrackVirtualPath, ReaderDone
<1>4. (\E p \in Paths : FindVirtualPath(p)) => UNCHANGED <<instances, names>>
  BY DEF FindVirtualPath
<1> QED BY <1>1, <1>2, <1>3, <1>4, MapsRegister, MapsRevoke DEF Next

\* The strengthened invariant says what MapsAgree says.
LEMMA MapsHold == MapsInv => MapsAgree
<1> SUFFICES ASSUME MapsInv PROVE MapsAgree
  OBVIOUS
<1>1. \A n \in Mounted : instances[n].type \in Types /\ instances[n].path \in Seq(Characters)
  BY InstanceOf DEF Instance
<1>2. \A e \in names : e.name \in Names /\ e.path \in Seq(Characters)
  BY NamesAre DEF Entry
<1>3. TypeOK
  BY <1>1, <1>2 DEF TypeOK, MapsInv
<1>4. names = {[path |-> NormalizeFilePath(instances[n].path), name |-> n] : n \in Exclusive}
  BY DEF MapsInv, Entries, EntryOf
<1> QED BY <1>3, <1>4 DEF MapsAgree

\* The two maps agree in every state.
LEMMA MapsAlways == Spec => []MapsInv
<1>1. MapsInv /\ [Next]_vars => MapsInv'
  BY MapsStep
<1> QED BY <1>1, MapsInit, PTL DEF Spec

\* Whatever is mounted and revoked, and however its path is written, the map
\* of paths has the exclusive mounts and nothing else (RegisterFileSystem,
\* RevokeFileSystem, RevokeAllFileSystems).
THEOREM MapsCorrect == Spec => []MapsAgree
  BY MapsAlways, MapsHold, PTL

-----------------------------------------------------------------------------
(* What FlattenSeq computes.                                               *)

\* What FlattenSeq computes up to the n-th list.
Flattens(lists, n, g) == g = [i \in 1 .. n |-> IF i = 1 THEN lists[i] ELSE g[i - 1] \o lists[i]]

\* There is a function that flattens: if there were none up to some list, take
\* the first such one; the function up to the list before it can be extended.
LEMMA FlattensExists ==
    ASSUME NEW lists, NEW n \in Nat, n >= 1
    PROVE  \E g : Flattens(lists, n, g)
<1> DEFINE none == {k \in Nat : k >= 1 /\ ~\E g : Flattens(lists, k, g)}
<1> SUFFICES ASSUME none # {} PROVE FALSE
  OBVIOUS
<1>1. PICK k \in none : \A m \in none : k <= m
  <2> HIDE DEF none
  <2>1. none \subseteq Nat
    BY DEF none
  <2> QED BY <2>1, LeastNumber
<1>2. k # 1
  <2> SUFFICES ASSUME k = 1 PROVE FALSE
    OBVIOUS
  <2> DEFINE g == [i \in 1 .. 1 |-> lists[i]]
  <2>1. Flattens(lists, 1, g)
    <3>1. \A i \in 1 .. 1 : lists[i] = IF i = 1 THEN lists[i] ELSE g[i - 1] \o lists[i]
      OBVIOUS
    <3> QED BY <3>1 DEF Flattens
  <2> QED BY <2>1
<1>3. k - 1 \in Nat /\ k - 1 >= 1 /\ k - 1 \notin none
  BY <1>1, <1>2
<1>4. PICK g : Flattens(lists, k - 1, g)
  BY <1>3
<1> DEFINE h == [i \in 1 .. k |-> IF i = k THEN g[i - 1] \o lists[i] ELSE g[i]]
<1>5. \A i \in 1 .. k : h[i] = IF i = 1 THEN lists[i] ELSE h[i - 1] \o lists[i]
  <2> TAKE i \in 1 .. k
  <2>1. CASE i = k
    <3>1. k - 1 \in 1 .. k /\ k - 1 # k /\ k \in 1 .. k
      BY <1>3
    <3>2. h[k - 1] = g[k - 1] /\ h[k] = g[k - 1] \o lists[k]
      BY <3>1
    <3> HIDE DEF h
    <3> QED BY <1>2, <2>1, <3>2
  <2>2. CASE i # k
    <3>1. i \in 1 .. k - 1
      BY <1>3, <2>2
    <3>2. h[i] = g[i] /\ g[i] = IF i = 1 THEN lists[i] ELSE g[i - 1] \o lists[i]
      <4>1. h[i] = g[i]
        BY <2>2
      <4> QED BY <1>4, <3>1, <4>1 DEF Flattens
    <3>3. i # 1 => h[i - 1] = g[i - 1]
      <4>1. i # 1 => i - 1 \in 1 .. k /\ i - 1 # k
        BY <1>3, <3>1
      <4> QED BY <4>1
    <3> HIDE DEF h
    <3> QED BY <3>2, <3>3
  <2> QED BY <2>1, <2>2
<1>6. Flattens(lists, k, h)
  <2>1. h = [i \in 1 .. k |-> h[i]]
    OBVIOUS
  <2> HIDE DEF h
  <2>2. [i \in 1 .. k |-> h[i]] = [i \in 1 .. k |-> IF i = 1 THEN lists[i] ELSE h[i - 1] \o lists[i]]
    BY <1>5
  <2> QED BY <2>1, <2>2 DEF Flattens
<1> QED BY <1>1, <1>6

Flat(lists) == CHOOSE g : Flattens(lists, Len(lists), g)

\* FlattenSeq puts one list after the other.
LEMMA FlatIs ==
    ASSUME NEW lists, Len(lists) \in Nat, Len(lists) >= 1
    PROVE  /\ FlattenSeq(lists) = Flat(lists)[Len(lists)]
           /\ Flat(lists)[1] = lists[1]
           /\ \A i \in 2 .. Len(lists) : Flat(lists)[i] = Flat(lists)[i - 1] \o lists[i]
<1>1. FlattenSeq(lists) = Flat(lists)[Len(lists)]
  BY DEF FlattenSeq, Flattens, Flat
<1>2. Flattens(lists, Len(lists), Flat(lists))
  BY FlattensExists DEF Flat
<1> DEFINE g == Flat(lists)
<1>3. g = [i \in 1 .. Len(lists) |-> IF i = 1 THEN lists[i] ELSE g[i - 1] \o lists[i]]
  BY <1>2 DEF Flattens
<1> HIDE DEF g
<1>4. \A i \in 1 .. Len(lists) : g[i] = IF i = 1 THEN lists[i] ELSE g[i - 1] \o lists[i]
  BY <1>3
<1>5. 1 \in 1 .. Len(lists) /\ \A i \in 2 .. Len(lists) : i \in 1 .. Len(lists) /\ i # 1
  OBVIOUS
<1>6. g[1] = lists[1]
  BY <1>4, <1>5
<1>7. \A i \in 2 .. Len(lists) : g[i] = g[i - 1] \o lists[i]
  BY <1>4, <1>5
<1> QED BY <1>1, <1>6, <1>7 DEF g

\* Lists of S make a list of S.
LEMMA FlatTypes ==
    ASSUME NEW S, NEW lists, Len(lists) \in Nat, Len(lists) >= 1,
           \A i \in 1 .. Len(lists) : lists[i] \in Seq(S)
    PROVE  \A i \in 1 .. Len(lists) : Flat(lists)[i] \in Seq(S)
<1> DEFINE g == Flat(lists)
           L == Len(lists)
           T == {i \in Nat : g[i] \in Seq(S)}
<1>1. L \in Nat /\ 1 \in 1 .. L /\ g[1] = lists[1] /\ \A i \in 2 .. L : g[i] = g[i - 1] \o lists[i]
  <2>1. L \in Nat /\ 1 \in 1 .. L
    OBVIOUS
  <2>2. g[1] = lists[1] /\ \A i \in 2 .. L : g[i] = g[i - 1] \o lists[i]
    BY FlatIs
  <2> QED BY <2>1, <2>2
<1>2. \A i \in 1 .. L : lists[i] \in Seq(S)
  OBVIOUS
<1> HIDE DEF g, L
<1>3. 1 \in T
  BY <1>1, <1>2
<1>4. \A i \in 1 .. L - 1 : i \in T => i + 1 \in T
  <2> TAKE i \in 1 .. L - 1
  <2> HAVE i \in T
  <2>1. i + 1 \in 2 .. L /\ i + 1 \in 1 .. L /\ (i + 1) - 1 = i
    BY <1>1
  <2>2. g[i + 1] = g[i] \o lists[i + 1]
    BY <1>1, <2>1
  <2>3. g[i] \in Seq(S) /\ lists[i + 1] \in Seq(S)
    BY <1>2, <2>1
  <2>4. g[i + 1] \in Seq(S)
    BY <2>2, <2>3
  <2> QED BY <2>1, <2>4
<1>5. 1 .. L \subseteq T
  <2> HIDE DEF T
  <2> QED BY <1>1, <1>3, <1>4, Upwards
<1> QED BY <1>5 DEF g, L

\* What two lists of lists have in common is flattened to the same.
LEMMA FlatSame ==
    ASSUME NEW lists, Len(lists) \in Nat, NEW others, Len(others) \in Nat,
           NEW n \in Nat, 1 <= n, n <= Len(lists), n <= Len(others),
           \A i \in 1 .. n : lists[i] = others[i]
    PROVE  Flat(lists)[n] = Flat(others)[n]
<1> DEFINE g == Flat(lists)
           h == Flat(others)
           T == {i \in Nat : g[i] = h[i]}
<1>1. Len(lists) >= 1 /\ Len(others) >= 1 /\ 1 \in 1 .. n
  OBVIOUS
<1>2. g[1] = lists[1] /\ \A i \in 2 .. n : g[i] = g[i - 1] \o lists[i]
  <2>1. \A i \in 2 .. n : i \in 2 .. Len(lists)
    OBVIOUS
  <2> QED BY <1>1, <2>1, FlatIs
<1>3. h[1] = others[1] /\ \A i \in 2 .. n : h[i] = h[i - 1] \o others[i]
  <2>1. \A i \in 2 .. n : i \in 2 .. Len(others)
    OBVIOUS
  <2> QED BY <1>1, <2>1, FlatIs
<1> HIDE DEF g, h
<1>4. 1 \in T
  BY <1>1, <1>2, <1>3
<1>5. \A i \in 1 .. n - 1 : i \in T => i + 1 \in T
  <2> TAKE i \in 1 .. n - 1
  <2> HAVE i \in T
  <2>1. i + 1 \in 2 .. n /\ i + 1 \in 1 .. n /\ (i + 1) - 1 = i
    OBVIOUS
  <2>2. g[i + 1] = g[i] \o lists[i + 1] /\ h[i + 1] = h[i] \o others[i + 1]
    BY <1>2, <1>3, <2>1
  <2>3. lists[i + 1] = others[i + 1] /\ g[i] = h[i]
    BY <2>1
  <2>4. g[i + 1] = h[i + 1]
    BY <2>2, <2>3
  <2> QED BY <2>1, <2>4
<1>6. 1 .. n \subseteq T
  <2> HIDE DEF T
  <2> QED BY <1>4, <1>5, Upwards
<1>7. n \in T
  BY <1>6
<1> QED BY <1>7 DEF g, h

\* Empty lists add nothing.
LEMMA FlatStill ==
    ASSUME NEW S, NEW lists, Len(lists) \in Nat, \A i \in 1 .. Len(lists) : lists[i] \in Seq(S),
           NEW m \in Nat, NEW n \in Nat, 1 <= m, m <= n, n <= Len(lists),
           \A i \in m + 1 .. n : lists[i] = <<>>
    PROVE  Flat(lists)[n] = Flat(lists)[m]
<1> DEFINE g == Flat(lists)
           T == {i \in Nat : g[i] = g[m]}
<1>1. Len(lists) >= 1
  OBVIOUS
<1>2. \A i \in 1 .. Len(lists) : g[i] \in Seq(S)
  BY <1>1, FlatTypes
<1>3. \A i \in 2 .. Len(lists) : g[i] = g[i - 1] \o lists[i]
  BY <1>1, FlatIs
<1> HIDE DEF g
<1>4. m \in T
  OBVIOUS
<1>5. \A i \in m .. n - 1 : i \in T => i + 1 \in T
  <2> TAKE i \in m .. n - 1
  <2> HAVE i \in T
  <2>1. i + 1 \in 2 .. Len(lists) /\ i + 1 \in m + 1 .. n /\ (i + 1) - 1 = i /\ i \in 1 .. Len(lists)
    OBVIOUS
  <2>2. g[i + 1] = g[i] \o <<>>
    BY <1>3, <2>1
  <2>3. g[i] \o <<>> = g[i]
    BY <1>2, <2>1, ConcatEmptySeq
  <2> QED BY <2>1, <2>2, <2>3
<1>6. m .. n \subseteq T
  <2> HIDE DEF T
  <2> QED BY <1>4, <1>5, Upwards
<1>7. n \in T
  BY <1>6
<1> QED BY <1>7 DEF g

\* s is how t begins.
Begins(s, t) == Len(s) <= Len(t) /\ \A i \in 1 .. Len(s) : s[i] = t[i]

\* What is flattened only grows.
LEMMA FlatGrows ==
    ASSUME NEW S, NEW lists, Len(lists) \in Nat, \A i \in 1 .. Len(lists) : lists[i] \in Seq(S),
           NEW m \in Nat, NEW n \in Nat, 1 <= m, m <= n, n <= Len(lists)
    PROVE  Begins(Flat(lists)[m], Flat(lists)[n])
<1> DEFINE g == Flat(lists)
           T == {i \in Nat : Begins(g[m], g[i])}
<1>1. Len(lists) >= 1
  OBVIOUS
<1>2. \A i \in 1 .. Len(lists) : g[i] \in Seq(S)
  BY <1>1, FlatTypes
<1>3. \A i \in 2 .. Len(lists) : g[i] = g[i - 1] \o lists[i]
  BY <1>1, FlatIs
<1> HIDE DEF g
<1>4. m \in T
  <2>1. m \in 1 .. Len(lists)
    OBVIOUS
  <2>2. Len(g[m]) <= Len(g[m])
    BY <1>2, <2>1
  <2> QED BY <2>2 DEF Begins
<1>5. \A i \in m .. n - 1 : i \in T => i + 1 \in T
  <2> TAKE i \in m .. n - 1
  <2> HAVE i \in T
  <2>1. /\ i + 1 \in 2 .. Len(lists) /\ (i + 1) - 1 = i /\ i \in 1 .. Len(lists) /\ m \in 1 .. Len(lists)
        /\ i + 1 \in 1 .. Len(lists)
    OBVIOUS
  <2>2. g[i + 1] = g[i] \o lists[i + 1]
    BY <1>3, <2>1
  <2> DEFINE u == g[m]
             s == g[i]
             t == lists[i + 1]
  <2>3. u \in Seq(S) /\ s \in Seq(S) /\ t \in Seq(S)
    BY <1>2, <2>1
  <2>4. Begins(u, s)
    OBVIOUS
  <2> HIDE DEF u, s, t
  <2>5. /\ Len(s \o t) = Len(s) + Len(t) /\ Len(s) \in Nat /\ Len(t) \in Nat /\ Len(u) \in Nat
        /\ \A k \in 1 .. Len(s) + Len(t) : (s \o t)[k] = IF k <= Len(s) THEN s[k] ELSE t[k - Len(s)]
    BY <2>3, ConcatProperties
  <2>6. \A k \in 1 .. Len(u) : k \in 1 .. Len(s) + Len(t) /\ k <= Len(s) /\ s[k] = u[k]
    BY <2>4, <2>5 DEF Begins
  <2>7. Len(u) <= Len(s \o t)
    BY <2>4, <2>5 DEF Begins
  <2>8. Begins(u, s \o t)
    BY <2>5, <2>6, <2>7 DEF Begins
  <2>9. Begins(g[m], g[i + 1])
    BY <2>2, <2>8 DEF u, s, t
  <2> QED BY <2>1, <2>9
<1>6. m .. n \subseteq T
  <2> HIDE DEF T
  <2> QED BY <1>4, <1>5, Upwards
<1>7. n \in T
  BY <1>6
<1> QED BY <1>7 DEF g

-----------------------------------------------------------------------------
(* The components of a path.                                               *)

\* Some elements of a sequence that follow each other.
LEMMA Part ==
    ASSUME NEW S, NEW p \in Seq(S), NEW a \in 1 .. Len(p), NEW b \in a .. Len(p)
    PROVE  /\ SubSeq(p, a, b) \in Seq(S) /\ Len(SubSeq(p, a, b)) = b - a + 1
           /\ \A i \in 1 .. b - a + 1 : SubSeq(p, a, b)[i] = p[a + i - 1]
<1>1. a \in Int /\ b \in Int /\ a <= b /\ \A i \in a .. b : p[i] \in S
  OBVIOUS
<1>2. /\ SubSeq(p, a, b) \in Seq(S)
      /\ Len(SubSeq(p, a, b)) = IF a <= b THEN b - a + 1 ELSE 0
      /\ \A i \in 1 .. b - a + 1 : SubSeq(p, a, b)[i] = p[a + i - 1]
  BY <1>1, SubSeqProperties
<1> QED BY <1>1, <1>2

\* The same elements at the same place.
LEMMA SamePart ==
    ASSUME NEW S, NEW p \in Seq(S), NEW q \in Seq(S),
           NEW a \in 1 .. Len(p), NEW b \in a .. Len(p), b <= Len(q),
           \A i \in a .. b : p[i] = q[i]
    PROVE  SubSeq(p, a, b) = SubSeq(q, a, b)
<1> DEFINE s == SubSeq(p, a, b)
           t == SubSeq(q, a, b)
<1>1. /\ s \in Seq(S) /\ Len(s) = b - a + 1
      /\ \A i \in 1 .. b - a + 1 : s[i] = p[a + i - 1]
  BY Part
<1>2. /\ t \in Seq(S) /\ Len(t) = b - a + 1
      /\ \A i \in 1 .. b - a + 1 : t[i] = q[a + i - 1]
  <2>1. a \in 1 .. Len(q) /\ b \in a .. Len(q)
    OBVIOUS
  <2> QED BY <2>1, Part
<1> HIDE DEF s, t
<1>3. \A i \in 1 .. Len(s) : s[i] = t[i]
  <2> TAKE i \in 1 .. Len(s)
  <2>1. i \in 1 .. b - a + 1 /\ a + i - 1 \in a .. b
    BY <1>1
  <2> QED BY <1>1, <1>2, <2>1
<1>4. s = t
  BY <1>1, <1>2, <1>3, SeqEqual
<1> QED BY <1>4 DEF s, t

\* The component that ends at i starts after the last separator before i.
LEMMA StartAt ==
    ASSUME NEW p \in Seq(Characters), NEW i \in 1 .. Len(p), NEW k \in 0 .. i - 1,
           k = 0 \/ p[k] = Slash, \A j \in k + 1 .. i - 1 : p[j] # Slash
    PROVE  Start(p, i) = k + 1
<1> DEFINE S == {0} \cup {j \in 1 .. i - 1 : p[j] = Slash}
<1>1. S \subseteq Int /\ k \in S
  OBVIOUS
<1>2. \A y \in S : y <= k
  <2> TAKE y \in S
  <2> SUFFICES ASSUME ~(y <= k) PROVE FALSE
    OBVIOUS
  <2>1. y \in 1 .. i - 1 /\ p[y] = Slash
    OBVIOUS
  <2>2. y \in k + 1 .. i - 1
    BY <2>1
  <2> QED BY <2>1, <2>2
<1> HIDE DEF S
<1>3. Max(S) = k
  BY <1>1, <1>2, MaxIs
<1> QED BY <1>3 DEF S, Start

\* There is such a separator, or none before i.
LEMMA StartExists ==
    ASSUME NEW p \in Seq(Characters), NEW i \in 1 .. Len(p)
    PROVE  \E k \in 0 .. i - 1 : (k = 0 \/ p[k] = Slash) /\ \A j \in k + 1 .. i - 1 : p[j] # Slash
<1> DEFINE S == {0} \cup {j \in 1 .. i - 1 : p[j] = Slash}
<1>1. S \subseteq 0 .. i - 1 /\ S # {} /\ i - 1 \in Nat
  OBVIOUS
<1>2. \A j \in S : j = 0 \/ p[j] = Slash
  OBVIOUS
<1>3. \A j \in 1 .. i - 1 : j \notin S => p[j] # Slash
  OBVIOUS
<1> HIDE DEF S
<1>4. Max(S) \in S /\ \A y \in S : y <= Max(S)
  BY <1>1, MaxIsGreatest
<1> DEFINE k == Max(S)
<1>5. k \in 0 .. i - 1 /\ (k = 0 \/ p[k] = Slash)
  BY <1>1, <1>2, <1>4
<1>6. \A j \in k + 1 .. i - 1 : p[j] # Slash
  <2> TAKE j \in k + 1 .. i - 1
  <2>1. j \in 1 .. i - 1 /\ ~(j <= k)
    BY <1>5
  <2> QED BY <1>3, <1>4, <2>1
<1> QED BY <1>5, <1>6

\* The component that ends at i, if one does.
Piece(p, i) == IF Ends(p, i) THEN <<SubSeq(p, Start(p, i), i)>> ELSE <<>>
Pieces(p) == [i \in 1 .. Len(p) |-> Piece(p, i)]
Root(p) == IF IsAbsolute(p) THEN << <<Slash>> >> ELSE <<>>

\* A piece holds at most one component, which does not end with a separator.
LEMMA PieceIs ==
    ASSUME NEW p \in Seq(Characters), NEW i \in 1 .. Len(p)
    PROVE  /\ Piece(p, i) \in Seq(Seq(Characters))
           /\ Start(p, i) \in 1 .. i
<1>1. PICK k \in 0 .. i - 1 : (k = 0 \/ p[k] = Slash) /\ \A j \in k + 1 .. i - 1 : p[j] # Slash
  BY StartExists
<1>2. Start(p, i) = k + 1
  BY <1>1, StartAt
<1>3. Start(p, i) \in 1 .. i /\ i \in Start(p, i) .. Len(p) /\ Start(p, i) \in 1 .. Len(p)
  BY <1>2
<1>4. SubSeq(p, Start(p, i), i) \in Seq(Characters)
  BY <1>3, Part
<1> DEFINE c == SubSeq(p, Start(p, i), i)
<1>5. <<c>> \in Seq(Seq(Characters)) /\ <<>> \in Seq(Seq(Characters))
  <2> HIDE DEF c
  <2>1. c \in Seq(Characters)
    BY <1>4 DEF c
  <2> QED BY <2>1
<1> QED BY <1>3, <1>5 DEF Piece

\* What precedes i, and whether a component ends there, decide the piece.
LEMMA SamePiece ==
    ASSUME NEW p \in Seq(Characters), NEW q \in Seq(Characters),
           NEW i \in 1 .. Len(p), i <= Len(q),
           \A j \in 1 .. i : p[j] = q[j], Ends(p, i) <=> Ends(q, i)
    PROVE  Piece(p, i) = Piece(q, i)
<1>1. i \in 1 .. Len(q)
  OBVIOUS
<1>2. PICK k \in 0 .. i - 1 : (k = 0 \/ p[k] = Slash) /\ \A j \in k + 1 .. i - 1 : p[j] # Slash
  BY StartExists
<1>3. (k = 0 \/ q[k] = Slash) /\ \A j \in k + 1 .. i - 1 : q[j] # Slash
  <2>1. k # 0 => k \in 1 .. i
    OBVIOUS
  <2>2. \A j \in k + 1 .. i - 1 : j \in 1 .. i
    OBVIOUS
  <2> QED BY <1>2, <2>1, <2>2
<1>4. Start(p, i) = k + 1 /\ Start(q, i) = k + 1
  BY <1>1, <1>2, <1>3, StartAt
<1>5. k + 1 \in 1 .. Len(p) /\ i \in k + 1 .. Len(p) /\ \A j \in k + 1 .. i : p[j] = q[j]
  OBVIOUS
<1>6. SubSeq(p, k + 1, i) = SubSeq(q, k + 1, i)
  BY <1>5, SamePart
<1> QED BY <1>4, <1>6 DEF Piece

\* The pieces of a path.
LEMMA PiecesAre ==
    ASSUME NEW p \in Seq(Characters)
    PROVE  /\ Len(Pieces(p)) = Len(p) /\ Len(p) \in Nat
           /\ \A i \in 1 .. Len(p) : Pieces(p)[i] = Piece(p, i) /\ Pieces(p)[i] \in Seq(Seq(Characters))
<1>1. \A i \in 1 .. Len(p) : Piece(p, i) \in Seq(Seq(Characters))
  BY PieceIs
<1>2. Len(p) \in Nat
  OBVIOUS
<1> QED BY <1>1, <1>2 DEF Pieces

\* The components are the root, if there is one, and the pieces.
LEMMA ComponentsAre ==
    ASSUME NEW p \in Seq(Characters)
    PROVE  /\ Components(p) \in Seq(Seq(Characters))
           /\ p # <<>> => /\ Components(p) = Root(p) \o Flat(Pieces(p))[Len(p)]
                          /\ \A i \in 1 .. Len(p) : Flat(Pieces(p))[i] \in Seq(Seq(Characters))
           /\ Root(p) \in Seq(Seq(Characters))
<1>1. Components(p) = Root(p) \o FlattenSeq(Pieces(p))
  BY DEF Components, Root, Pieces, Piece
<1>2. Root(p) \in Seq(Seq(Characters))
  <2>1. Slash \in Characters
    BY DEF Slash, Characters, Dash, Letter
  <2>2. <<Slash>> \in Seq(Characters)
    BY <2>1
  <2> DEFINE c == <<Slash>>
  <2>3. <<c>> \in Seq(Seq(Characters)) /\ <<>> \in Seq(Seq(Characters))
    <3> HIDE DEF c
    <3>1. c \in Seq(Characters)
      BY <2>2 DEF c
    <3> QED BY <3>1
  <2> QED BY <2>3 DEF Root
<1>3. CASE p = <<>>
  <2>1. Len(Pieces(p)) = 0 /\ Pieces(p) = <<>>
    BY <1>3 DEF Pieces
  <2>2. FlattenSeq(Pieces(p)) = <<>>
    BY <2>1 DEF FlattenSeq
  <2>3. <<>> \in Seq(Seq(Characters))
    OBVIOUS
  <2>4. Root(p) \o <<>> \in Seq(Seq(Characters))
    BY <1>2, <2>3, ConcatProperties
  <2> QED BY <1>1, <1>2, <1>3, <2>2, <2>4
<1>4. CASE p # <<>>
  <2>1. Len(p) \in Nat /\ Len(p) >= 1 /\ Len(p) \in 1 .. Len(p)
    BY <1>4
  <2>2. Len(Pieces(p)) = Len(p) /\ \A i \in 1 .. Len(p) : Pieces(p)[i] \in Seq(Seq(Characters))
    BY PiecesAre
  <2>3. FlattenSeq(Pieces(p)) = Flat(Pieces(p))[Len(p)]
    BY <2>1, <2>2, FlatIs
  <2>4. \A i \in 1 .. Len(p) : Flat(Pieces(p))[i] \in Seq(Seq(Characters))
    <3> DEFINE lists == Pieces(p)
    <3>1. Len(lists) \in Nat /\ Len(lists) >= 1 /\ \A i \in 1 .. Len(lists) : lists[i] \in Seq(Seq(Characters))
      BY <2>1, <2>2
    <3> HIDE DEF lists
    <3>2. \A i \in 1 .. Len(lists) : Flat(lists)[i] \in Seq(Seq(Characters))
      BY <3>1, FlatTypes
    <3> QED BY <2>2, <3>2 DEF lists
  <2>5. Root(p) \o Flat(Pieces(p))[Len(p)] \in Seq(Seq(Characters))
    BY <1>2, <2>1, <2>4, ConcatProperties
  <2> QED BY <1>1, <1>2, <2>3, <2>4, <2>5
<1> QED BY <1>3, <1>4

\* Separators at the end of a path make no component.
LEMMA ComponentsStrip ==
    ASSUME NEW p \in Seq(Characters)
    PROVE  Components(StripTrailingSeparators(p)) = Components(p)
<1>1. CASE p = <<>>
  BY <1>1, EmptyPath
<1>2. CASE p # <<>>
  <2>1. PICK n : Bare(p, n)
    BY <1>2, BareExists
  <2>2. n \in 1 .. Len(p) /\ (n = 1 \/ p[n] # Slash) /\ \A i \in n + 1 .. Len(p) : p[i] = Slash
    BY <2>1 DEF Bare
  <2> DEFINE s == SubSeq(p, 1, n)
             P == Pieces(p)
             Q == Pieces(s)
  <2>3. StripTrailingSeparators(p) = s
    BY <2>1, StripAt
  <2>4. s \in Seq(Characters) /\ Len(s) = n /\ \A i \in 1 .. n : s[i] = p[i]
    <3>1. n \in 0 .. Len(p)
      BY <2>2
    <3> QED BY <3>1, FirstOf
  <2> HIDE DEF s
  <2>5. s # <<>> /\ Len(p) \in Nat /\ n \in Nat /\ 1 <= n /\ n <= Len(p)
    BY <2>2, <2>4
  <2>6. /\ Len(P) = Len(p) /\ \A i \in 1 .. Len(p) : P[i] = Piece(p, i) /\ P[i] \in Seq(Seq(Characters))
        /\ Len(Q) = n /\ \A i \in 1 .. n : Q[i] = Piece(s, i) /\ Q[i] \in Seq(Seq(Characters))
    BY <2>4, PiecesAre
  <2> HIDE DEF P, Q
  <2>7. \A i \in 1 .. n : P[i] = Q[i]
    <3> TAKE i \in 1 .. n
    <3>1. i \in 1 .. Len(p) /\ i <= Len(s) /\ \A j \in 1 .. i : p[j] = s[j]
      BY <2>2, <2>4
    <3>2. Ends(p, i) <=> Ends(s, i)
      <4>1. CASE i = n
        <5>1. n = Len(p) \/ n + 1 \in n + 1 .. Len(p)
          BY <2>2
        <5>2. n = Len(p) \/ p[n + 1] = Slash
          BY <2>2, <5>1
        <5>3. p[n] = s[n]
          BY <2>2, <2>4
        <5> QED BY <2>4, <4>1, <5>2, <5>3 DEF Ends
      <4>2. CASE i # n
        <5>1. i + 1 \in 1 .. n /\ i # Len(p) /\ i # Len(s)
          BY <2>2, <2>4, <4>2
        <5>2. p[i] = s[i] /\ p[i + 1] = s[i + 1]
          BY <2>4, <5>1
        <5> QED BY <5>1, <5>2 DEF Ends
      <4> QED BY <4>1, <4>2
    <3>3. Piece(p, i) = Piece(s, i)
      BY <2>4, <3>1, <3>2, SamePiece
    <3> QED BY <2>6, <3>1, <3>3
  <2>8. \A i \in n + 1 .. Len(p) : P[i] = <<>>
    <3> TAKE i \in n + 1 .. Len(p)
    <3>1. i \in 1 .. Len(p) /\ p[i] = Slash
      BY <2>2
    <3>2. Piece(p, i) = <<>>
      BY <3>1 DEF Piece, Ends
    <3> QED BY <2>6, <3>1, <3>2
  <2>9. Flat(P)[n] = Flat(Q)[n]
    <3>1. Len(P) \in Nat /\ Len(Q) \in Nat /\ n <= Len(P) /\ n <= Len(Q)
      BY <2>5, <2>6
    <3> QED BY <2>5, <2>7, <3>1, FlatSame
  <2>10. Flat(P)[Len(p)] = Flat(P)[n]
    <3> DEFINE S == Seq(Characters)
               l == Len(p)
    <3>1. Len(P) \in Nat /\ l \in Nat /\ n <= l /\ l <= Len(P) /\ \A i \in 1 .. Len(P) : P[i] \in Seq(S)
      BY <2>5, <2>6
    <3>2. \A i \in n + 1 .. l : P[i] = <<>>
      BY <2>8
    <3> HIDE DEF S, l
    <3>3. Flat(P)[l] = Flat(P)[n]
      BY <2>5, <3>1, <3>2, FlatStill
    <3> QED BY <3>3 DEF l
  <2>11. Root(s) = Root(p)
    <3>1. s[1] = p[1]
      BY <2>2, <2>4
    <3> QED BY <1>2, <2>5, <3>1 DEF Root, IsAbsolute
  <2>12. Components(p) = Root(p) \o Flat(P)[Len(p)] /\ Components(s) = Root(s) \o Flat(Q)[n]
    BY <1>2, <2>4, <2>5, ComponentsAre DEF P, Q
  <2> QED BY <2>3, <2>9, <2>10, <2>11, <2>12
<1> QED BY <1>1, <1>2

\* Nor does normalising change the components.
LEMMA ComponentsNorm ==
    ASSUME NEW p \in Seq(Characters)
    PROVE  Components(NormalizeFilePath(p)) = Components(p)
<1>1. NormalizeFilePath(p) \in Seq(Characters)
  BY NormIs
<1>2. Components(StripTrailingSeparators(NormalizeFilePath(p))) = Components(NormalizeFilePath(p))
  BY <1>1, ComponentsStrip
<1>3. Components(StripTrailingSeparators(p)) = Components(p)
  BY ComponentsStrip
<1> QED BY <1>2, <1>3, StripNorm

-----------------------------------------------------------------------------
(* Paths that are cracked.                                                 *)

Parts == Seq(Seq(Characters))

\* A mount has a path that was given, and exclusive ones have no "..".
PathsInv ==
    /\ \A n \in Mounted : \E p \in Paths : Components(instances[n].path) = Components(p)
    /\ \A n \in Exclusive : ~ReferencesParent(instances[n].path)

\* A look-up under way.
Reader == [given : Seq(Characters), name : Names, virtual : Parts, revoked : BOOLEAN,
           done : BOOLEAN, urls : SUBSET Parts]

\* Some part of what was looked up is "..".
UpIn(r) == ReferencesParent(r.given) \/ ReferencesParent(r.name)

\* A virtual path stands for the path that was given, under that name.
StandsFor(r) ==
    /\ instances[r.name] # None
    /\ Components(instances[r.name].path) \o Tail(r.virtual) = Components(r.given)

\* What a look-up found stays right for as long as its mount does.
FoundInv ==
    reader # None =>
        /\ reader \in Reader
        /\ HasParent(reader.virtual) <=> UpIn(reader)
        /\ Plain(reader.name) => reader.virtual # <<>> /\ reader.virtual[1] = reader.name
        /\ Plain(reader.name) /\ ~reader.revoked => StandsFor(reader)

ReaderInv == FoundInv /\ CrackedBack

\* A sequence that begins with another is that one and the rest.
LEMMA BeginningAndRest ==
    ASSUME NEW S, NEW s \in Seq(S), NEW t \in Seq(S), s = t \/ IsPrefix(s, t)
    PROVE  /\ SubSeq(t, Len(s) + 1, Len(t)) \in Seq(S)
           /\ s \o SubSeq(t, Len(s) + 1, Len(t)) = t
<1>1. Len(s) \in Nat /\ Len(t) \in Nat
  OBVIOUS
<1>2. Len(s) <= Len(t) /\ SubSeq(t, 1, Len(s)) = s
  <2>1. CASE s = t
    BY <1>1, <2>1, SubSeqFull
  <2>2. CASE IsPrefix(s, t)
    <3>1. SubSeq(s, 1, Len(s)) = s
      BY SubSeqFull
    <3> QED BY <2>2, <3>1 DEF IsPrefix
  <2> QED BY <2>1, <2>2
<1>3. SubSeq(t, 1, Len(s)) \o SubSeq(t, Len(s) + 1, Len(t)) = SubSeq(t, 1, Len(t))
  <2>1. 1 \in 1 .. Len(t) + 1 /\ Len(s) \in 1 - 1 .. Len(t) /\ Len(t) \in Len(s) .. Len(t)
    BY <1>1, <1>2
  <2> QED BY <2>1, ConcatAdjacentSubSeq
<1>4. SubSeq(t, 1, Len(t)) = t
  BY SubSeqFull
<1>5. SubSeq(t, Len(s) + 1, Len(t)) \in Seq(S)
  <2>1. Len(s) + 1 \in Int /\ Len(t) \in Int /\ \A i \in Len(s) + 1 .. Len(t) : t[i] \in S
    BY <1>1
  <2> QED BY <2>1, SubSeqProperties
<1> QED BY <1>2, <1>3, <1>4, <1>5

\* ".." is in a path if it is in one of its two parts.
LEMMA ParentOfParts ==
    ASSUME NEW s \in Parts, NEW t \in Parts
    PROVE  HasParent(s \o t) <=> HasParent(s) \/ HasParent(t)
<1>1. /\ s \o t \in Parts
      /\ DOMAIN s = 1 .. Len(s) /\ DOMAIN t = 1 .. Len(t) /\ DOMAIN (s \o t) = 1 .. Len(s) + Len(t)
      /\ Len(s) \in Nat /\ Len(t) \in Nat
      /\ \A i \in 1 .. Len(s) : (s \o t)[i] = s[i]
      /\ \A i \in 1 .. Len(t) : (s \o t)[Len(s) + i] = t[i]
  BY DEF Parts
<1> DEFINE up == <<Dot, Dot>>
           u == s \o t
<1> HIDE DEF up, u
<1>2. ASSUME NEW i \in 1 .. Len(s) + Len(t), u[i] = up
      PROVE  (\E j \in 1 .. Len(s) : s[j] = up) \/ \E j \in 1 .. Len(t) : t[j] = up
  <2>1. CASE i <= Len(s)
    <3>1. i \in 1 .. Len(s)
      BY <1>1, <2>1
    <3> QED BY <1>1, <1>2, <3>1 DEF u
  <2>2. CASE i > Len(s)
    <3>1. i - Len(s) \in 1 .. Len(t) /\ Len(s) + (i - Len(s)) = i
      BY <1>1, <2>2
    <3>2. u[i] = t[i - Len(s)]
      BY <1>1, <3>1 DEF u
    <3> QED BY <1>2, <3>1, <3>2
  <2> QED BY <1>1, <2>1, <2>2
<1>3. \A j \in 1 .. Len(s) : j \in 1 .. Len(s) + Len(t) /\ u[j] = s[j]
  BY <1>1 DEF u
<1>4. \A j \in 1 .. Len(t) : Len(s) + j \in 1 .. Len(s) + Len(t) /\ u[Len(s) + j] = t[j]
  BY <1>1 DEF u
<1>5. /\ HasParent(s) <=> \E j \in 1 .. Len(s) : s[j] = up
      /\ HasParent(t) <=> \E j \in 1 .. Len(t) : t[j] = up
      /\ HasParent(s \o t) <=> \E j \in 1 .. Len(s) + Len(t) : u[j] = up
  BY <1>1 DEF HasParent, up, u
<1> QED BY <1>2, <1>3, <1>4, <1>5

\* What follows a first component.
LEMMA TailIs ==
    ASSUME NEW c \in Seq(Characters), NEW t \in Parts
    PROVE  (<<c>> \o t) # <<>> /\ (<<c>> \o t)[1] = c /\ Tail(<<c>> \o t) = t
<1> DEFINE u == <<c>> \o t
           v == Tail(u)
<1>1. /\ u \in Parts /\ Len(u) = 1 + Len(t) /\ Len(t) \in Nat /\ u[1] = c
      /\ \A i \in 1 .. Len(t) : u[1 + i] = t[i]
  BY DEF Parts
<1>2. u # <<>>
  BY <1>1
<1> HIDE DEF u
<1>3. v \in Parts /\ Len(v) = Len(t) /\ \A i \in 1 .. Len(t) : v[i] = u[i + 1]
  BY <1>1, <1>2 DEF Parts
<1>4. \A i \in 1 .. Len(t) : v[i] = t[i]
  BY <1>1, <1>3
<1> HIDE DEF v
<1>5. v = t
  <2>1. v \in Seq(Seq(Characters)) /\ t \in Seq(Seq(Characters))
    BY <1>3 DEF Parts
  <2> QED BY <1>3, <1>4, <2>1, SeqEqual
<1> QED BY <1>1, <1>2, <1>5 DEF u, v

\* GetVirtualPath: an exclusive mount and the rest make up the path.
LEMMA VirtualPathIs ==
    ASSUME MapsInv, NEW given \in Seq(Characters), NEW v \in GetVirtualPath(given)
    PROVE  /\ v.name \in Names /\ v.name \in Exclusive /\ instances[v.name] # None
           /\ \E rest \in Parts :
                 /\ v.path = Components(v.name) \o rest
                 /\ Components(instances[v.name].path) \o rest = Components(given)
<1> DEFINE path == NormalizeFilePath(given)
<1>1. PICK e \in NotAbove(path) :
         /\ e.path = path \/ IsParent(e.path, path)
         /\ v = [name |-> e.name,
                 path |-> Components(e.name)
                     \o SubSeq(Components(path), Len(Components(e.path)) + 1, Len(Components(path)))]
  BY DEF GetVirtualPath, CreateVirtualRootPath
<1>2. path \in Seq(Characters) /\ Components(path) = Components(given) /\ Components(path) \in Parts
  <2>1. path \in Seq(Characters) /\ Components(path) = Components(given)
    BY NormIs, ComponentsNorm
  <2> QED BY <2>1, ComponentsAre DEF Parts
<1> HIDE DEF path
<1>3. e \in names /\ e \in Entry /\ e.name \in Exclusive /\ e = EntryOf(e.name)
  <2>1. e \in names
    BY DEF NotAbove, Upto
  <2> QED BY <2>1, NamesAre
<1>4. e.name \in Names /\ instances[e.name] \in Instance
  BY <1>3, EntryIs
<1>5. e.path = NormalizeFilePath(instances[e.name].path) /\ e.path \in Seq(Characters)
  BY <1>3 DEF EntryOf, Entry
<1>6. Components(instances[e.name].path) = Components(e.path) /\ Components(e.path) \in Parts
  <2>1. instances[e.name].path \in Seq(Characters)
    BY <1>4 DEF Instance
  <2>2. Components(instances[e.name].path) = Components(e.path)
    BY <1>5, <2>1, ComponentsNorm
  <2> QED BY <1>5, <2>2, ComponentsAre DEF Parts
<1>7. Components(e.path) = Components(path) \/ IsPrefix(Components(e.path), Components(path))
  BY <1>1 DEF IsParent, IsStrictPrefix
<1> DEFINE s == Components(e.path)
           t == Components(path)
           rest == SubSeq(t, Len(s) + 1, Len(t))
<1>8. rest \in Parts /\ s \o rest = t
  <2>1. s \in Seq(Seq(Characters)) /\ t \in Seq(Seq(Characters)) /\ (s = t \/ IsPrefix(s, t))
    BY <1>2, <1>6, <1>7 DEF Parts
  <2> HIDE DEF s, t
  <2> QED BY <2>1, BeginningAndRest DEF Parts
<1>9. v.name = e.name /\ v.path = Components(e.name) \o rest
  BY <1>1
<1>10. instances[e.name] # None
  BY <1>4, NoneIsNone
<1> HIDE DEF rest
<1>11. Components(instances[e.name].path) \o rest = Components(given)
  BY <1>2, <1>6, <1>8
<1> QED BY <1>3, <1>4, <1>8, <1>9, <1>10, <1>11

\* CrackFileSystemURL, its first critical section.
LEMMA ReaderFind ==
    ASSUME MapsInv, PathsInv, ReaderInv, NEW p \in Paths, FindVirtualPath(p)
    PROVE  ReaderInv'
<1>1. p \in Seq(Characters)
  BY PathsAssumption
<1>2. PICK v \in GetVirtualPath(p) :
         reader' = [given |-> p, name |-> v.name, virtual |-> v.path, revoked |-> FALSE,
                    done |-> FALSE, urls |-> {}]
  BY DEF FindVirtualPath
<1>3. v.name \in Names /\ v.name \in Exclusive /\ instances[v.name] # None
  BY <1>1, VirtualPathIs
<1>4. PICK rest \in Parts :
         /\ v.path = Components(v.name) \o rest
         /\ Components(instances[v.name].path) \o rest = Components(p)
  BY <1>1, VirtualPathIs
<1>5. instances' = instances
  BY DEF FindVirtualPath
<1>6. v.name \in Seq(Characters) /\ Components(v.name) \in Parts
  <2>1. v.name \in Seq(Characters)
    BY <1>3, NamesAssumption
  <2> QED BY <2>1, ComponentsAre DEF Parts
<1>7. Components(instances[v.name].path) \in Parts
  <2>1. instances[v.name].path \in Seq(Characters)
    BY <1>3, EntryIs DEF Instance
  <2> QED BY <2>1, ComponentsAre DEF Parts
<1>8. v.path \in Parts
  BY <1>4, <1>6 DEF Parts
<1>9. HasParent(v.path) <=> ReferencesParent(p) \/ ReferencesParent(v.name)
  <2>1. ~HasParent(Components(instances[v.name].path))
    BY <1>3 DEF PathsInv, ReferencesParent
  <2>2. HasParent(Components(p)) <=> HasParent(rest)
    <3> DEFINE s == Components(instances[v.name].path)
    <3>1. s \in Parts /\ ~HasParent(s) /\ Components(p) = s \o rest
      BY <1>4, <1>7, <2>1
    <3> HIDE DEF s
    <3>2. HasParent(s \o rest) <=> HasParent(s) \/ HasParent(rest)
      BY <3>1, ParentOfParts
    <3>3. HasParent(Components(p)) <=> HasParent(s \o rest)
      BY <3>1
    <3> QED BY <3>1, <3>2, <3>3
  <2>3. HasParent(v.path) <=> HasParent(Components(v.name)) \/ HasParent(rest)
    BY <1>4, <1>6, ParentOfParts
  <2> QED BY <2>2, <2>3 DEF ReferencesParent
<1>10. Plain(v.name) => v.path # <<>> /\ v.path[1] = v.name /\ Tail(v.path) = rest
  <2> SUFFICES ASSUME Plain(v.name) PROVE v.path # <<>> /\ v.path[1] = v.name /\ Tail(v.path) = rest
    OBVIOUS
  <2>1. v.path = <<v.name>> \o rest
    BY <1>4 DEF Plain
  <2> QED BY <1>6, <2>1, TailIs
<1>11. /\ reader'.given = p /\ reader'.name = v.name /\ reader'.virtual = v.path
       /\ reader'.done = FALSE
  BY <1>2
<1>12. reader' \in Reader
  BY <1>1, <1>2, <1>3, <1>8 DEF Reader
<1>13. Plain(reader'.name) => StandsFor(reader)'
  BY <1>3, <1>4, <1>5, <1>10, <1>11 DEF StandsFor
<1>14. HasParent(reader'.virtual) <=> UpIn(reader')
  BY <1>9, <1>11 DEF UpIn
<1>15. FoundInv'
  BY <1>10, <1>11, <1>12, <1>13, <1>14 DEF FoundInv
<1>16. CrackedBack'
  BY <1>11 DEF CrackedBack
<1> QED BY <1>15, <1>16 DEF ReaderInv

\* CrackFileSystemURL, its second critical section.
LEMMA ReaderCrack ==
    ASSUME MapsInv, PathsInv, ReaderInv, CrackVirtualPath
    PROVE  ReaderInv'
<1> DEFINE urls == Cracked(reader.virtual)
           Url(n) == Components(instances[n].path) \o Tail(reader.virtual)
<1>1. /\ reader # None /\ instances' = instances
      /\ reader' = [reader EXCEPT !.done = TRUE, !.urls = urls]
  BY DEF CrackVirtualPath
<1>2. /\ reader \in Reader
      /\ HasParent(reader.virtual) <=> UpIn(reader)
      /\ Plain(reader.name) => reader.virtual # <<>> /\ reader.virtual[1] = reader.name
      /\ Plain(reader.name) /\ ~reader.revoked => StandsFor(reader)
  BY <1>1 DEF ReaderInv, FoundInv
<1>3. reader.name \in Names /\ reader.virtual \in Parts
  BY <1>2 DEF Reader
<1>4. urls = IF HasParent(reader.virtual) THEN {} ELSE {Url(n) : n \in Named(reader.virtual)}
  BY DEF Cracked, CrackedIn
<1> HIDE DEF urls
<1>5. urls \subseteq Parts
  <2>1. ASSUME NEW n \in Named(reader.virtual) PROVE Url(n) \in Parts
    <3>1. n \in Mounted /\ reader.virtual # <<>>
      BY DEF Named, Mounted
    <3>2. instances[n].path \in Seq(Characters)
      BY <3>1, InstanceOf DEF Instance
    <3>3. Components(instances[n].path) \in Parts
      BY <3>2, ComponentsAre DEF Parts
    <3>4. Tail(reader.virtual) \in Parts
      BY <1>3, <3>1 DEF Parts
    <3> QED BY <3>3, <3>4 DEF Parts
  <2> HIDE DEF Url
  <2> QED BY <1>4, <2>1
<1>6. UpIn(reader) => urls = {}
  BY <1>2, <1>4
<1>7. Plain(reader.name) => Named(reader.virtual) = {n \in {reader.name} : instances[n] # None}
  BY <1>2, <1>3 DEF Named
<1>8. Plain(reader.name) /\ ~UpIn(reader) /\ ~reader.revoked => urls = {Components(reader.given)}
  <2> SUFFICES ASSUME Plain(reader.name), ~UpIn(reader), ~reader.revoked
               PROVE  urls = {Components(reader.given)}
    OBVIOUS
  <2>1. Url(reader.name) = Components(reader.given) /\ instances[reader.name] # None
    BY <1>2 DEF StandsFor
  <2>2. Named(reader.virtual) = {reader.name}
    BY <1>7, <2>1
  <2> HIDE DEF Url
  <2> QED BY <1>2, <1>4, <2>1, <2>2
<1>9. Plain(reader.name) =>
          \A u \in urls : \E p \in Paths : u = Components(p) \o Tail(reader.virtual)
  <2> SUFFICES ASSUME Plain(reader.name), NEW u \in urls
               PROVE  \E p \in Paths : u = Components(p) \o Tail(reader.virtual)
    OBVIOUS
  <2>1. PICK n \in Named(reader.virtual) : u = Url(n)
    <3> HIDE DEF Url
    <3> QED BY <1>4
  <2>2. n \in Mounted
    BY DEF Named, Mounted
  <2>3. PICK p \in Paths : Components(instances[n].path) = Components(p)
    BY <2>2 DEF PathsInv
  <2> QED BY <2>1, <2>3
<1> HIDE DEF Url
<1>10. /\ reader'.given = reader.given /\ reader'.name = reader.name
       /\ reader'.virtual = reader.virtual /\ reader'.revoked = reader.revoked /\ reader'.urls = urls
  BY <1>1, <1>2 DEF Reader
<1>11. reader' \in Reader
  BY <1>1, <1>2, <1>5 DEF Reader
<1>12. UpIn(reader') <=> UpIn(reader)
  BY <1>10 DEF UpIn
<1>13. StandsFor(reader) => StandsFor(reader)'
  BY <1>1, <1>10 DEF StandsFor
<1>14. FoundInv'
  BY <1>2, <1>10, <1>11, <1>12, <1>13 DEF FoundInv
<1>15. CrackedBack'
  <2>1. UpIn(reader') => reader'.urls = {}
    BY <1>6, <1>10, <1>12
  <2>2. Plain(reader'.name) /\ ~UpIn(reader') /\ ~reader'.revoked =>
            reader'.urls = {Components(reader'.given)}
    BY <1>8, <1>10, <1>12
  <2>3. Plain(reader'.name) =>
            \A u \in reader'.urls : \E p \in Paths : u = Components(p) \o Tail(reader'.virtual)
    BY <1>9, <1>10
  <2> QED BY <2>1, <2>2, <2>3 DEF CrackedBack, UpIn
<1> QED BY <1>14, <1>15 DEF ReaderInv

\* Steps that leave the reader alone, and its mount if it is there.
LEMMA ReaderKept ==
    ASSUME ReaderInv, reader' = reader,
           reader # None /\ instances[reader.name] # None => instances'[reader.name] = instances[reader.name]
    PROVE  ReaderInv'
<1>1. CrackedBack'
  BY DEF ReaderInv, CrackedBack
<1>2. reader # None /\ StandsFor(reader) => StandsFor(reader)'
  BY DEF StandsFor
<1>3. FoundInv'
  BY <1>2 DEF ReaderInv, FoundInv
<1> QED BY <1>1, <1>3 DEF ReaderInv

\* A reader whose mount goes is told so; the instances of the others stay.
LEMMA ReaderDisturbed ==
    ASSUME ReaderInv, NEW gone, reader' = Disturb(gone),
           \A m \in Names \ gone : instances'[m] = instances[m]
    PROVE  ReaderInv'
<1>1. CASE reader # None /\ reader.name \in gone
  <2>1. reader' = [reader EXCEPT !.revoked = TRUE]
    BY <1>1 DEF Disturb
  <2>2. /\ reader \in Reader
        /\ HasParent(reader.virtual) <=> UpIn(reader)
        /\ Plain(reader.name) => reader.virtual # <<>> /\ reader.virtual[1] = reader.name
    BY <1>1 DEF ReaderInv, FoundInv
  <2>3. /\ reader'.given = reader.given /\ reader'.name = reader.name
        /\ reader'.virtual = reader.virtual /\ reader'.revoked = TRUE
        /\ reader'.done = reader.done /\ reader'.urls = reader.urls
    BY <2>1, <2>2 DEF Reader
  <2>4. reader' \in Reader
    BY <2>1, <2>2 DEF Reader
  <2>5. UpIn(reader') <=> UpIn(reader)
    BY <2>3 DEF UpIn
  <2>6. FoundInv'
    BY <2>2, <2>3, <2>4, <2>5 DEF FoundInv
  <2>7. CrackedBack
    BY DEF ReaderInv
  <2>8. CrackedBack'
    BY <1>1, <2>3, <2>7 DEF CrackedBack
  <2> QED BY <2>6, <2>8 DEF ReaderInv
<1>2. CASE ~(reader # None /\ reader.name \in gone)
  <2>1. reader' = reader
    BY <1>2 DEF Disturb
  <2>2. reader # None => reader.name \in Names
    BY DEF ReaderInv, FoundInv, Reader
  <2> QED BY <1>2, <2>1, <2>2, ReaderKept
<1> QED BY <1>1, <1>2

\* Every step keeps what the reader knows.
LEMMA ReaderStep ==
    ASSUME MapsInv, PathsInv, ReaderInv, [Next]_vars
    PROVE  ReaderInv'
<1>1. CASE UNCHANGED vars
  BY <1>1, ReaderKept DEF vars
<1>2. ASSUME NEW n \in Names, NEW t \in Types, NEW p \in Paths, RegisterFileSystem(n, t, p)
      PROVE  ReaderInv'
  <2>1. reader' = reader /\ instances[n] = None
    BY <1>2 DEF RegisterFileSystem, ValidateNewMountPoint
  <2>2. \A m \in Names \ {n} : instances'[m] = instances[m]
    BY <1>2 DEF RegisterFileSystem, MapsInv
  <2>3. reader # None => reader.name \in Names
    BY DEF ReaderInv, FoundInv, Reader
  <2> QED BY <2>1, <2>2, <2>3, ReaderKept
<1>3. ASSUME NEW n \in Names, RevokeFileSystem(n) PROVE ReaderInv'
  <2>1. reader' = Disturb({n})
    BY <1>3 DEF RevokeFileSystem
  <2>2. \A m \in Names \ {n} : instances'[m] = instances[m]
    BY <1>3 DEF RevokeFileSystem, MapsInv
  <2> QED BY <2>1, <2>2, ReaderDisturbed
<1>4. CASE RevokeAllFileSystems
  <2>1. reader' = Disturb(Names) /\ \A m \in Names \ Names : instances'[m] = instances[m]
    BY <1>4 DEF RevokeAllFileSystems
  <2> QED BY <2>1, ReaderDisturbed
<1>5. CASE ReaderDone
  <2>1. reader' = None
    BY <1>5 DEF ReaderDone
  <2> QED BY <2>1 DEF ReaderInv, FoundInv, CrackedBack
<1> QED BY <1>1, <1>2, <1>3, <1>4, <1>5, ReaderFind, ReaderCrack DEF Next

\* RegisterFileSystem: the path of a mount was given, and checked for "..".
LEMMA PathsRegister ==
    ASSUME MapsInv, PathsInv, NEW n \in Names, NEW t \in Types, NEW p \in Paths,
           RegisterFileSystem(n, t, p)
    PROVE  PathsInv'
<1> DEFINE path == NormalizeFilePath(p)
           bare == StripTrailingSeparators(path)
<1>1. p \in Seq(Characters) /\ path \in Seq(Characters) /\ bare \in Seq(Characters)
  BY PathsAssumption, NormIs, StripIs
<1>2. Components(bare) = Components(p) /\ Components(bare) = Components(path)
  BY <1>1, ComponentsStrip, ComponentsNorm
<1>3. bare # <<>> => path # <<>>
  BY <1>1, StripIs
<1>4. path # <<>> => ~ReferencesParent(path)
  BY DEF RegisterFileSystem, ValidateNewMountPoint
<1>5. instances' = [instances EXCEPT ![n] = [type |-> t, path |-> bare]]
  BY DEF RegisterFileSystem
<1> HIDE DEF path, bare
<1>6. instances'[n].path = bare /\ \A m \in Names \ {n} : instances'[m] = instances[m]
  BY <1>5 DEF MapsInv
<1>7. \A m \in Mounted' : m # n => m \in Mounted /\ instances'[m] = instances[m]
  BY <1>6 DEF Mounted
<1>8. \A m \in Exclusive' : m # n => m \in Exclusive /\ instances'[m] = instances[m]
  BY <1>7 DEF Exclusive, IsOverlappingMountPathForbidden
<1>9. n \in Exclusive' => ~ReferencesParent(instances'[n].path)
  <2>1. n \in Exclusive' => bare # <<>>
    BY <1>6 DEF Exclusive
  <2> QED BY <1>2, <1>3, <1>4, <1>6, <2>1 DEF ReferencesParent
<1>10. \A m \in Mounted' : \E q \in Paths : Components(instances'[m].path) = Components(q)
  <2> TAKE m \in Mounted'
  <2>1. CASE m = n
    BY <1>2, <1>6, <2>1
  <2>2. CASE m # n
    BY <1>7, <2>2 DEF PathsInv
  <2> QED BY <2>1, <2>2
<1>11. \A m \in Exclusive' : ~ReferencesParent(instances'[m].path)
  BY <1>8, <1>9 DEF PathsInv
<1> QED BY <1>10, <1>11 DEF PathsInv

\* No other step gives a mount a path.
LEMMA PathsStep ==
    ASSUME MapsInv, PathsInv, [Next]_vars
    PROVE  PathsInv'
<1>1. CASE instances' = instances
  BY <1>1 DEF PathsInv, Mounted, Exclusive
<1>2. ASSUME NEW n \in Names, RevokeFileSystem(n) PROVE PathsInv'
  <2>1. instances'[n] = None /\ \A m \in Names \ {n} : instances'[m] = instances[m]
    BY <1>2 DEF RevokeFileSystem, MapsInv
  <2>2. \A m \in Mounted' : m \in Mounted /\ instances'[m] = instances[m]
    BY <2>1 DEF Mounted
  <2>3. \A m \in Exclusive' : m \in Exclusive /\ instances'[m] = instances[m]
    BY <2>2 DEF Exclusive, IsOverlappingMountPathForbidden
  <2> QED BY <2>2, <2>3 DEF PathsInv
<1>3. CASE RevokeAllFileSystems
  <2>1. \A n \in Names : instances'[n] = None
    BY <1>3 DEF RevokeAllFileSystems
  <2>2. Mounted' = {} /\ Exclusive' = {}
    BY <2>1 DEF Mounted, Exclusive
  <2> QED BY <2>2 DEF PathsInv
<1>4. UNCHANGED vars \/ CrackVirtualPath \/ ReaderDone => instances' = instances
  BY DEF vars, CrackVirtualPath, ReaderDone
<1>5. (\E p \in Paths : FindVirtualPath(p)) => instances' = instances
  BY DEF FindVirtualPath
<1> QED BY <1>1, <1>2, <1>3, <1>4, <1>5, PathsRegister DEF Next

\* A path that is found and cracked in two critical sections (GetVirtualPath and
\* CrackVirtualPath of CrackFileSystemURL) comes back as it was if its mount
\* stays, unless ".." in it or in the name leaves no URL, or the name has a
\* separator; and when the mount was revoked or mounted anew in between, the URL,
\* if there is one, is the rest of the path below a path that was mounted.
THEOREM CrackingCorrect == Spec => []CrackedBack
<1>1. Init => ReaderInv /\ PathsInv
  BY DEF Init, ReaderInv, FoundInv, CrackedBack, PathsInv, Mounted, Exclusive
<1>2. MapsInv /\ PathsInv /\ [Next]_vars => PathsInv'
  BY PathsStep
<1>3. MapsInv /\ PathsInv /\ ReaderInv /\ [Next]_vars => ReaderInv'
  BY ReaderStep
<1>4. ReaderInv => CrackedBack
  BY DEF ReaderInv
<1> QED BY <1>1, <1>2, <1>3, <1>4, MapsAlways, PTL DEF Spec

-----------------------------------------------------------------------------
(* Components against text.                                                *)

\* No two separators follow each other.
Clean(p) == \A i \in 1 .. Len(p) - 1 : ~(p[i] = Slash /\ p[i + 1] = Slash)

\* A path that is clean and normalised.
Tidy(p) == p \in Seq(Characters) /\ p # <<>> /\ p[Len(p)] = Slash /\ Clean(p)

\* Normalising keeps a path clean.
LEMMA NormTidy ==
    ASSUME NEW p \in Seq(Characters), p # <<>>, Clean(p)
    PROVE  Tidy(NormalizeFilePath(p))
<1> DEFINE s == StripTrailingSeparators(p)
           t == NormalizeFilePath(p)
<1>1. t \in Seq(Characters) /\ t # <<>> /\ t[Len(t)] = Slash
  BY NormIs
<1>2. PICK n : Bare(p, n)
  BY BareExists
<1>3. n \in 0 .. Len(p) /\ n \in 1 .. Len(p)
  BY <1>2 DEF Bare
<1>4. s \in Seq(Characters) /\ Len(s) = n /\ \A i \in 1 .. n : s[i] = p[i]
  <2>1. s = SubSeq(p, 1, n)
    BY <1>2, StripAt
  <2> QED BY <1>3, <2>1, FirstOf
<1>5. t = Closed(s)
  BY NormIsClosed
<1> HIDE DEF s, t
<1>6. \A i \in 1 .. n - 1 : ~(s[i] = Slash /\ s[i + 1] = Slash)
  <2> TAKE i \in 1 .. n - 1
  <2>1. i \in 1 .. Len(p) - 1 /\ i \in 1 .. n /\ i + 1 \in 1 .. n
    BY <1>3
  <2>2. s[i] = p[i] /\ s[i + 1] = p[i + 1]
    BY <1>4, <2>1
  <2> QED BY <2>1, <2>2 DEF Clean
<1>7. CASE Last(s) = Slash
  <2>1. t = s
    BY <1>5, <1>7 DEF Closed
  <2> QED BY <1>1, <1>4, <1>6, <2>1 DEF Tidy, Clean, t
<1>8. CASE Last(s) # Slash
  <2>1. t = Append(s, Slash) /\ s[n] # Slash
    BY <1>3, <1>4, <1>5, <1>8 DEF Closed, Last
  <2>2. Slash \in Characters
    BY DEF Slash, Characters, Dash, Letter
  <2>3. Len(t) = n + 1 /\ \A i \in 1 .. n : t[i] = s[i]
    BY <1>4, <2>1, <2>2, AppendProperties
  <2>4. \A i \in 1 .. Len(t) - 1 : ~(t[i] = Slash /\ t[i + 1] = Slash)
    <3> TAKE i \in 1 .. Len(t) - 1
    <3>1. i \in 1 .. n /\ (i = n \/ (i \in 1 .. n - 1 /\ i + 1 \in 1 .. n))
      BY <1>3, <2>3
    <3>2. t[i] = s[i]
      BY <2>3, <3>1
    <3>3. CASE i = n
      BY <2>1, <3>2, <3>3
    <3>4. CASE i \in 1 .. n - 1 /\ i + 1 \in 1 .. n
      <4>1. t[i + 1] = s[i + 1]
        BY <2>3, <3>4
      <4> QED BY <1>6, <3>2, <3>4, <4>1
    <3> QED BY <3>1, <3>3, <3>4
  <2> QED BY <1>1, <2>4 DEF Tidy, Clean, t
<1> QED BY <1>7, <1>8

\* Paths that agree up to a separator have the same components up to there.
LEMMA CommonParts ==
    ASSUME NEW p \in Seq(Characters), NEW q \in Seq(Characters),
           NEW k \in 1 .. Len(p), k <= Len(q), p[k] = Slash, \A j \in 1 .. k : p[j] = q[j]
    PROVE  Flat(Pieces(p))[k] = Flat(Pieces(q))[k]
<1> DEFINE P == Pieces(p)
           Q == Pieces(q)
<1>1. /\ Len(P) = Len(p) /\ \A i \in 1 .. Len(p) : P[i] = Piece(p, i)
      /\ Len(Q) = Len(q) /\ \A i \in 1 .. Len(q) : Q[i] = Piece(q, i)
      /\ Len(p) \in Nat /\ Len(q) \in Nat
  BY PiecesAre
<1> HIDE DEF P, Q
<1>2. \A i \in 1 .. k : P[i] = Q[i]
  <2> TAKE i \in 1 .. k
  <2>1. i \in 1 .. Len(p) /\ i \in 1 .. Len(q) /\ i <= Len(q) /\ \A j \in 1 .. i : p[j] = q[j]
    BY <1>1
  <2>2. Ends(p, i) <=> Ends(q, i)
    <3>1. CASE i = k
      <4>1. p[i] = Slash /\ q[i] = Slash
        BY <2>1, <3>1
      <4> QED BY <4>1 DEF Ends
    <3>2. CASE i # k
      <4>1. i + 1 \in 1 .. k /\ i # Len(p) /\ i # Len(q)
        BY <1>1, <3>2
      <4>2. p[i] = q[i] /\ p[i + 1] = q[i + 1]
        BY <4>1
      <4> QED BY <4>1, <4>2 DEF Ends
    <3> QED BY <3>1, <3>2
  <2>3. Piece(p, i) = Piece(q, i)
    BY <2>1, <2>2, SamePiece
  <2> QED BY <1>1, <2>1, <2>3
<1>3. Len(P) \in Nat /\ Len(Q) \in Nat /\ k \in Nat /\ 1 <= k /\ k <= Len(P) /\ k <= Len(Q)
  BY <1>1
<1>4. Flat(P)[k] = Flat(Q)[k]
  BY <1>2, <1>3, FlatSame
<1> QED BY <1>4 DEF P, Q

\* The components up to a place are how all of them begin.
LEMMA PartsGrow ==
    ASSUME NEW p \in Seq(Characters), NEW k \in 1 .. Len(p)
    PROVE  Begins(Flat(Pieces(p))[k], Flat(Pieces(p))[Len(p)])
<1> DEFINE S == Seq(Characters)
           P == Pieces(p)
           l == Len(p)
<1>1. Len(P) = l /\ l \in Nat /\ \A i \in 1 .. l : P[i] \in Seq(S)
  BY PiecesAre
<1>2. k \in Nat /\ 1 <= k /\ k <= l
  OBVIOUS
<1> HIDE DEF S, P, l
<1>3. Len(P) \in Nat /\ \A i \in 1 .. Len(P) : P[i] \in Seq(S)
  BY <1>1
<1>4. l \in Nat /\ k <= l /\ l <= Len(P)
  BY <1>1, <1>2
<1>5. Begins(Flat(P)[k], Flat(P)[l])
  BY <1>2, <1>3, <1>4, FlatGrows
<1> QED BY <1>5 DEF P, l

\* A normalised path that another begins with has components the other's
\* begin with.
LEMMA TextThenParts ==
    ASSUME NEW p \in Seq(Characters), p # <<>>, p[Len(p)] = Slash, NEW q \in Seq(Characters), IsPrefix(p, q)
    PROVE  IsPrefix(Components(p), Components(q))
<1> DEFINE f == Flat(Pieces(p))[Len(p)]
           g == Flat(Pieces(q))[Len(q)]
           r == Root(p)
<1>1. Len(p) \in 1 .. Len(p) /\ Len(p) <= Len(q) /\ \A j \in 1 .. Len(p) : p[j] = q[j]
  <2>1. Len(p) \in 1 .. Len(p)
    OBVIOUS
  <2> QED BY <2>1, PrefixIs
<1>2. q # <<>> /\ Len(p) \in 1 .. Len(q) /\ Len(q) \in 1 .. Len(q)
  BY <1>1
<1>3. Root(q) = r
  BY <1>1, <1>2 DEF Root, IsAbsolute
<1>4. /\ Components(p) = r \o f /\ Components(q) = r \o g
      /\ r \in Parts /\ f \in Parts /\ g \in Parts
      /\ Components(p) \in Parts /\ Components(q) \in Parts
  BY <1>1, <1>2, <1>3, ComponentsAre DEF Parts
<1>5. f = Flat(Pieces(q))[Len(p)]
  BY <1>1, CommonParts
<1>6. Begins(Flat(Pieces(q))[Len(p)], g)
  BY <1>2, PartsGrow
<1> HIDE DEF f, g, r
<1>7. Begins(f, g)
  BY <1>5, <1>6
<1>8. Len(r) \in Nat /\ Len(f) \in Nat /\ Len(g) \in Nat /\ Len(f) <= Len(g) /\ \A i \in 1 .. Len(f) : f[i] = g[i]
  BY <1>4, <1>7 DEF Begins, Parts
<1>9. /\ Len(r \o f) = Len(r) + Len(f)
      /\ \A i \in 1 .. Len(r) + Len(f) : (r \o f)[i] = IF i <= Len(r) THEN r[i] ELSE f[i - Len(r)]
      /\ Len(r \o g) = Len(r) + Len(g)
      /\ \A i \in 1 .. Len(r) + Len(g) : (r \o g)[i] = IF i <= Len(r) THEN r[i] ELSE g[i - Len(r)]
  BY <1>4, ConcatProperties DEF Parts
<1>10. \A i \in 1 .. Len(r) + Len(f) : (r \o f)[i] = (r \o g)[i]
  <2> TAKE i \in 1 .. Len(r) + Len(f)
  <2>1. i \in 1 .. Len(r) + Len(g) /\ (i <= Len(r) \/ i - Len(r) \in 1 .. Len(f))
    BY <1>8
  <2> QED BY <1>8, <1>9, <2>1
<1>11. Len(r \o f) <= Len(r \o g) /\ \A i \in 1 .. Len(r \o f) : (r \o f)[i] = (r \o g)[i]
  BY <1>8, <1>9, <1>10
<1> QED BY <1>4, <1>11, PrefixIs DEF Parts

\* After a separator that is not the last comes one component, up to the next
\* separator.
LEMMA NextPart ==
    ASSUME NEW p, Tidy(p), NEW k \in 1 .. Len(p) - 1, p[k] = Slash
    PROVE  \E a \in k + 2 .. Len(p) :
              /\ p[a] = Slash
              /\ Flat(Pieces(p))[a] = Flat(Pieces(p))[k] \o <<SubSeq(p, k + 1, a - 1)>>
<1> DEFINE S == Seq(Characters)
           P == Pieces(p)
           l == Len(p)
           seps == {j \in k + 1 .. l : p[j] = Slash}
<1>1. /\ p \in S /\ p # <<>> /\ p[l] = Slash
      /\ \A i \in 1 .. l - 1 : ~(p[i] = Slash /\ p[i + 1] = Slash)
  BY DEF Tidy, Clean
<1>2. l \in Nat /\ l \in k + 1 .. l
  BY <1>1
<1>3. seps \subseteq Nat /\ l \in seps
  BY <1>1, <1>2
<1>4. PICK a \in seps : \A j \in seps : a <= j
  <2> HIDE DEF seps
  <2> QED BY <1>3, LeastNumber
<1>5. a \in k + 1 .. l /\ p[a] = Slash
  BY <1>4
<1>6. \A j \in k + 1 .. a - 1 : p[j] # Slash
  <2> SUFFICES ASSUME NEW j \in k + 1 .. a - 1, p[j] = Slash PROVE FALSE
    OBVIOUS
  <2>1. j \in seps
    BY <1>5
  <2> QED BY <1>4, <1>5, <2>1
<1>7. a # k + 1
  BY <1>1, <1>5
<1>8. /\ Len(P) = l
      /\ \A i \in 1 .. l : P[i] = Piece(p, i) /\ P[i] \in Seq(S)
  BY <1>1, PiecesAre
<1> HIDE DEF S, P, l, seps
<1>9. /\ a \in k + 2 .. l /\ a - 2 \in Nat /\ k <= a - 2 /\ k \in Nat /\ 1 <= k /\ a - 2 <= l
      /\ a \in 2 .. l /\ a - 1 \in 2 .. l /\ a - 1 \in 1 .. l /\ a \in 1 .. l /\ (a - 1) - 1 = a - 2
      /\ k \in 1 .. l
  BY <1>2, <1>5, <1>7
<1>10. \A i \in k + 1 .. a - 2 : P[i] = <<>>
  <2> TAKE i \in k + 1 .. a - 2
  <2>1. i \in 1 .. l /\ i # Len(p) /\ i + 1 \in k + 1 .. a - 1
    BY <1>9 DEF l
  <2>2. ~Ends(p, i)
    BY <1>6, <2>1 DEF Ends
  <2> QED BY <1>8, <2>1, <2>2 DEF Piece
<1>11. P[a - 1] = <<SubSeq(p, k + 1, a - 1)>>
  <2>1. a - 1 \in k + 1 .. a - 1 /\ (a - 1) + 1 = a
    BY <1>9
  <2>2. Ends(p, a - 1)
    BY <1>5, <1>6, <2>1 DEF Ends
  <2>3. Start(p, a - 1) = k + 1
    <3>1. a - 1 \in 1 .. Len(p) /\ k \in 0 .. (a - 1) - 1
      BY <1>9 DEF l
    <3>2. \A j \in k + 1 .. (a - 1) - 1 : p[j] # Slash
      <4>1. \A j \in k + 1 .. (a - 1) - 1 : j \in k + 1 .. a - 1
        BY <1>9
      <4> QED BY <1>6, <4>1
    <3> QED BY <1>1, <3>1, <3>2, StartAt DEF S
  <2> QED BY <1>8, <1>9, <2>2, <2>3 DEF Piece
<1>12. P[a] = <<>>
  BY <1>5, <1>8, <1>9 DEF Piece, Ends
<1>13. Len(P) \in Nat /\ Len(P) >= 1 /\ \A i \in 1 .. Len(P) : P[i] \in Seq(S)
  BY <1>2, <1>8, <1>9
<1>14. Flat(P)[a - 2] = Flat(P)[k]
  <2> DEFINE b == a - 2
  <2>1. b \in Nat /\ k <= b /\ b <= Len(P) /\ \A i \in k + 1 .. b : P[i] = <<>>
    BY <1>8, <1>9, <1>10
  <2> HIDE DEF b
  <2>2. Flat(P)[b] = Flat(P)[k]
    BY <1>9, <1>13, <2>1, FlatStill
  <2> QED BY <2>2 DEF b
<1>15. /\ Flat(P)[a] = Flat(P)[a - 1] \o P[a]
       /\ Flat(P)[a - 1] = Flat(P)[a - 2] \o P[a - 1]
  <2>1. \A i \in 2 .. Len(P) : Flat(P)[i] = Flat(P)[i - 1] \o P[i]
    BY <1>13, FlatIs
  <2>2. a \in 2 .. Len(P) /\ a - 1 \in 2 .. Len(P)
    BY <1>8, <1>9
  <2>3. Flat(P)[a - 1] = Flat(P)[(a - 1) - 1] \o P[a - 1]
    BY <2>1, <2>2
  <2> QED BY <1>9, <2>1, <2>2, <2>3
<1>16. Flat(P)[a - 1] \in Seq(S)
  <2>1. \A i \in 1 .. Len(P) : Flat(P)[i] \in Seq(S)
    BY <1>13, FlatTypes
  <2> QED BY <1>8, <1>9, <2>1
<1>17. Flat(P)[a - 1] \o <<>> = Flat(P)[a - 1]
  BY <1>16, ConcatEmptySeq
<1>18. Flat(P)[a] = Flat(P)[k] \o <<SubSeq(p, k + 1, a - 1)>>
  BY <1>11, <1>12, <1>14, <1>15, <1>17
<1> QED BY <1>5, <1>9, <1>18 DEF P, l

\* The component after a separator, with its place among all of them.
LEMMA PartAfter ==
    ASSUME NEW p, Tidy(p), NEW k \in 1 .. Len(p) - 1, p[k] = Slash
    PROVE  \E a \in k + 2 .. Len(p) :
              /\ p[a] = Slash
              /\ Len(Flat(Pieces(p))[k]) + 1 <= Len(Flat(Pieces(p))[Len(p)])
              /\ Flat(Pieces(p))[Len(p)][Len(Flat(Pieces(p))[k]) + 1] = SubSeq(p, k + 1, a - 1)
<1>1. PICK a \in k + 2 .. Len(p) :
         /\ p[a] = Slash
         /\ Flat(Pieces(p))[a] = Flat(Pieces(p))[k] \o <<SubSeq(p, k + 1, a - 1)>>
  BY NextPart
<1> DEFINE f == Flat(Pieces(p))[k]
           g == Flat(Pieces(p))[a]
           h == Flat(Pieces(p))[Len(p)]
           c == SubSeq(p, k + 1, a - 1)
<1>2. p \in Seq(Characters) /\ p # <<>> /\ Len(p) \in Nat
  BY DEF Tidy
<1>3. k \in 1 .. Len(p) /\ a \in 1 .. Len(p) /\ Len(p) \in 1 .. Len(p)
  BY <1>2
<1>4. f \in Seq(Seq(Characters)) /\ h \in Seq(Seq(Characters))
  BY <1>2, <1>3, ComponentsAre
<1>5. c \in Seq(Characters)
  <2>1. k + 1 \in 1 .. Len(p) /\ a - 1 \in k + 1 .. Len(p)
    BY <1>2
  <2> QED BY <1>2, <2>1, Part
<1>6. Begins(g, h)
  BY <1>2, <1>3, PartsGrow
<1>7. g = f \o <<c>>
  BY <1>1
<1> HIDE DEF f, g, h, c
<1>8. <<c>> \in Seq(Seq(Characters)) /\ Len(<<c>>) = 1 /\ <<c>>[1] = c
  BY <1>5
<1>9. /\ Len(f \o <<c>>) = Len(f) + Len(<<c>>)
      /\ \A i \in 1 .. Len(f) + Len(<<c>>) : (f \o <<c>>)[i] = IF i <= Len(f) THEN f[i] ELSE <<c>>[i - Len(f)]
  BY <1>4, <1>8, ConcatProperties
<1>10. Len(f) \in Nat /\ Len(h) \in Nat
  BY <1>4
<1>11. Len(g) = Len(f) + 1 /\ g[Len(f) + 1] = c
  <2>1. Len(f) + 1 \in 1 .. Len(f) + Len(<<c>>) /\ ~(Len(f) + 1 <= Len(f)) /\ (Len(f) + 1) - Len(f) = 1
    BY <1>8, <1>10
  <2>2. (f \o <<c>>)[Len(f) + 1] = <<c>>[(Len(f) + 1) - Len(f)]
    BY <1>9, <2>1
  <2> QED BY <1>7, <1>8, <1>9, <2>1, <2>2
<1>12. Len(f) + 1 <= Len(h) /\ h[Len(f) + 1] = c
  <2>1. Len(f) + 1 \in 1 .. Len(g)
    BY <1>10, <1>11
  <2> QED BY <1>6, <1>11, <2>1 DEF Begins
<1> QED BY <1>1, <1>12 DEF f, h, c

\* The components of an absolute path, counted from the root.
LEMMA RootFirst ==
    ASSUME NEW p \in Seq(Characters), IsAbsolute(p)
    PROVE  /\ Len(Components(p)) = Len(Flat(Pieces(p))[Len(p)]) + 1
           /\ Len(Flat(Pieces(p))[Len(p)]) \in Nat
           /\ Components(p)[1] = <<Slash>>
           /\ \A m \in 1 .. Len(Flat(Pieces(p))[Len(p)]) :
                 Components(p)[m + 1] = Flat(Pieces(p))[Len(p)][m]
<1> DEFINE f == Flat(Pieces(p))[Len(p)]
           r == << <<Slash>> >>
<1>1. p # <<>> /\ Len(p) \in 1 .. Len(p) /\ Root(p) = r
  BY DEF IsAbsolute, Root
<1>2. /\ Components(p) = r \o f /\ r \in Seq(Seq(Characters)) /\ f \in Seq(Seq(Characters))
  BY <1>1, ComponentsAre
<1>3. Len(r) = 1 /\ r[1] = <<Slash>>
  OBVIOUS
<1> HIDE DEF f, r
<1>4. /\ Len(r \o f) = Len(r) + Len(f)
      /\ \A i \in 1 .. Len(r) + Len(f) : (r \o f)[i] = IF i <= Len(r) THEN r[i] ELSE f[i - Len(r)]
  BY <1>2, ConcatProperties
<1>5. Len(f) \in Nat
  BY <1>2
<1>6. Len(Components(p)) = Len(f) + 1
  BY <1>2, <1>3, <1>4, <1>5
<1>7. Components(p)[1] = <<Slash>>
  <2>1. 1 \in 1 .. Len(r) + Len(f) /\ 1 <= Len(r)
    BY <1>3, <1>5
  <2> QED BY <1>2, <1>3, <1>4, <2>1
<1>8. \A m \in 1 .. Len(f) : Components(p)[m + 1] = f[m]
  <2> TAKE m \in 1 .. Len(f)
  <2>1. m + 1 \in 1 .. Len(r) + Len(f) /\ ~(m + 1 <= Len(r)) /\ (m + 1) - Len(r) = m
    BY <1>3, <1>5
  <2>2. (r \o f)[m + 1] = f[(m + 1) - Len(r)]
    BY <1>4, <2>1
  <2> QED BY <1>2, <2>1, <2>2
<1> QED BY <1>5, <1>6, <1>7, <1>8 DEF f

\* Only an absolute path has the root among its components.
LEMMA OnlyRoot ==
    ASSUME NEW p \in Seq(Characters), ~IsAbsolute(p), NEW i \in 1 .. Len(Components(p))
    PROVE  Components(p)[i] # <<Slash>>
<1> DEFINE S == Seq(Characters) \ {<<Slash>>}
           P == Pieces(p)
           l == Len(p)
<1>1. p # <<>>
  <2> SUFFICES ASSUME p = <<>> PROVE FALSE
    OBVIOUS
  <2>1. Pieces(p) = <<>>
    BY DEF Pieces
  <2>2. Components(p) = Root(p) \o FlattenSeq(Pieces(p))
    BY DEF Components, Root, Pieces, Piece
  <2>3. Components(p) = <<>>
    BY <2>1, <2>2 DEF Root, FlattenSeq
  <2> QED BY <2>3
<1>2. l \in Nat /\ l >= 1 /\ l \in 1 .. l
  BY <1>1
<1>3. \A j \in 1 .. l : Piece(p, j) \in Seq(S)
  <2> TAKE j \in 1 .. l
  <2> DEFINE c == SubSeq(p, Start(p, j), j)
  <2>1. <<>> \in Seq(S)
    OBVIOUS
  <2>2. ASSUME Ends(p, j) PROVE <<c>> \in Seq(S)
    <3>1. Start(p, j) \in 1 .. j
      BY PieceIs
    <3>2. Start(p, j) \in 1 .. Len(p) /\ j \in Start(p, j) .. Len(p)
      BY <3>1
    <3>3. /\ c \in Seq(Characters) /\ Len(c) = j - Start(p, j) + 1
          /\ \A n \in 1 .. j - Start(p, j) + 1 : c[n] = p[Start(p, j) + n - 1]
      BY <3>2, Part
    <3>4. /\ j - Start(p, j) + 1 \in 1 .. j - Start(p, j) + 1
          /\ Start(p, j) + (j - Start(p, j) + 1) - 1 = j
      BY <3>1
    <3>5. c[Len(c)] = p[j]
      BY <3>3, <3>4
    <3> HIDE DEF c
    <3>6. c # <<Slash>>
      <4>1. <<Slash>>[Len(<<Slash>>)] = Slash
        OBVIOUS
      <4>2. p[j] # Slash
        BY <2>2 DEF Ends
      <4> QED BY <3>5, <4>1, <4>2
    <3>7. c \in S
      BY <3>3, <3>6
    <3> HIDE DEF S
    <3> QED BY <3>7
  <2> QED BY <2>1, <2>2 DEF Piece
<1>4. Len(P) = l /\ \A j \in 1 .. l : P[j] = Piece(p, j)
  BY PiecesAre
<1>5. \A c \in S : c # <<Slash>>
  OBVIOUS
<1>6. Components(p) = Root(p) \o Flat(P)[l] /\ Root(p) = <<>>
  BY <1>1, ComponentsAre DEF Root
<1> HIDE DEF S, P, l
<1>7. Flat(P)[l] \in Seq(S)
  <2>1. Len(P) \in Nat /\ Len(P) >= 1 /\ \A j \in 1 .. Len(P) : P[j] \in Seq(S)
    BY <1>2, <1>3, <1>4
  <2>2. \A j \in 1 .. Len(P) : Flat(P)[j] \in Seq(S)
    BY <2>1, FlatTypes
  <2> QED BY <1>2, <1>4, <2>2
<1>8. Components(p) = Flat(P)[l]
  BY <1>6, <1>7, ConcatEmptySeq
<1>9. Components(p)[i] \in S
  BY <1>7, <1>8, ElementOfSeq
<1> QED BY <1>5, <1>9

\* And the other way round: a tidy path whose components another's begin with
\* is how that path begins.  The two are compared separator by separator: from
\* the last one up to which they agree, both have the same next component.
LEMMA PartsThenText ==
    ASSUME NEW p, Tidy(p), IsAbsolute(p), NEW q, Tidy(q), IsPrefix(Components(p), Components(q))
    PROVE  IsPrefix(p, q)
<1> DEFINE P == Pieces(p)
           Q == Pieces(q)
           K == {k \in 1 .. Len(p) : p[k] = Slash /\ k <= Len(q) /\ \A j \in 1 .. k : p[j] = q[j]}
<1>1. /\ p \in Seq(Characters) /\ p # <<>> /\ Len(p) \in Nat /\ p[Len(p)] = Slash
      /\ q \in Seq(Characters) /\ q # <<>> /\ Len(q) \in Nat
  BY DEF Tidy
<1>2. /\ Len(Components(p)) <= Len(Components(q))
      /\ \A i \in 1 .. Len(Components(p)) : Components(p)[i] = Components(q)[i]
  <2>1. Components(p) \in Seq(Seq(Characters)) /\ Components(q) \in Seq(Seq(Characters))
    BY <1>1, ComponentsAre
  <2> QED BY <2>1, PrefixIs
<1>3. IsAbsolute(q)
  <2>1. 1 \in 1 .. Len(Components(p)) /\ 1 \in 1 .. Len(Components(q)) /\ Components(p)[1] = <<Slash>>
    <3>1. Len(Components(p)) >= 1 /\ Components(p)[1] = <<Slash>>
      BY <1>1, RootFirst
    <3>2. Len(Components(p)) \in Nat /\ Len(Components(q)) \in Nat
      BY <1>1, ComponentsAre
    <3> QED BY <1>2, <3>1, <3>2
  <2>2. Components(q)[1] = <<Slash>>
    BY <1>2, <2>1
  <2> QED BY <1>1, <2>1, <2>2, OnlyRoot
<1>4. /\ Len(Flat(P)[Len(p)]) \in Nat /\ Len(Components(p)) = Len(Flat(P)[Len(p)]) + 1
      /\ \A m \in 1 .. Len(Flat(P)[Len(p)]) : Components(p)[m + 1] = Flat(P)[Len(p)][m]
  BY <1>1, RootFirst
<1>5. /\ Len(Flat(Q)[Len(q)]) \in Nat /\ Len(Components(q)) = Len(Flat(Q)[Len(q)]) + 1
      /\ \A m \in 1 .. Len(Flat(Q)[Len(q)]) : Components(q)[m + 1] = Flat(Q)[Len(q)][m]
  BY <1>1, <1>3, RootFirst
<1>6. K \subseteq 0 .. Len(p) /\ 1 \in K
  <2>1. 1 \in 1 .. Len(p) /\ 1 <= Len(q) /\ p[1] = Slash /\ q[1] = Slash
    BY <1>1, <1>3 DEF IsAbsolute
  <2> QED BY <2>1
<1>7. PICK k \in K : \A j \in K : j <= k
  <2> HIDE DEF K
  <2>1. Max(K) \in K /\ \A j \in K : j <= Max(K)
    BY <1>1, <1>6, MaxIsGreatest
  <2> QED BY <2>1
<1>8. k \in 1 .. Len(p) /\ p[k] = Slash /\ k <= Len(q) /\ \A j \in 1 .. k : p[j] = q[j]
  BY <1>7
<1>9. CASE k = Len(p)
  BY <1>1, <1>8, <1>9, PrefixIs
<1>10. CASE k # Len(p)
  <2> DEFINE f == Flat(P)[Len(p)]
             g == Flat(Q)[Len(q)]
             m == Len(Flat(P)[k]) + 1
  <2>1. k \in 1 .. Len(p) - 1
    BY <1>1, <1>8, <1>10
  <2>2. PICK a \in k + 2 .. Len(p) :
           p[a] = Slash /\ m <= Len(f) /\ f[m] = SubSeq(p, k + 1, a - 1)
    BY <1>8, <2>1, PartAfter
  <2>3. Flat(P)[k] = Flat(Q)[k] /\ m \in Nat /\ m >= 1
    <3>1. Flat(P)[k] = Flat(Q)[k]
      BY <1>1, <1>8, CommonParts
    <3>2. Flat(P)[k] \in Seq(Seq(Characters))
      BY <1>1, <1>8, ComponentsAre
    <3> QED BY <3>1, <3>2
  <2>4. m <= Len(g) /\ g[m] = f[m]
    <3>1. m \in 1 .. Len(f) /\ m + 1 \in 1 .. Len(Components(p)) /\ m <= Len(g) /\ m \in 1 .. Len(g)
      <4> HIDE DEF m
      <4>1. m \in 1 .. Len(f) /\ m + 1 \in 1 .. Len(Components(p))
        BY <1>4, <2>2, <2>3
      <4>2. Len(Components(p)) <= Len(Components(q))
        BY <1>2
      <4> QED BY <1>4, <1>5, <4>1, <4>2
    <3> HIDE DEF m
    <3>2. Components(p)[m + 1] = Components(q)[m + 1]
      BY <1>2, <3>1
    <3>3. Components(p)[m + 1] = f[m] /\ Components(q)[m + 1] = g[m]
      BY <1>4, <1>5, <3>1
    <3> QED BY <3>1, <3>2, <3>3
  <2>5. k # Len(q)
    <3> SUFFICES ASSUME k = Len(q) PROVE FALSE
      OBVIOUS
    <3>1. m = Len(g) + 1
      BY <2>3
    <3> HIDE DEF m
    <3> QED BY <1>5, <2>4, <3>1
  <2>6. k \in 1 .. Len(q) - 1 /\ q[k] = Slash
    BY <1>1, <1>8, <2>5
  <2>7. PICK b \in k + 2 .. Len(q) :
           q[b] = Slash /\ g[Len(Flat(Q)[k]) + 1] = SubSeq(q, k + 1, b - 1)
    BY <2>6, PartAfter
  <2>8. SubSeq(p, k + 1, a - 1) = SubSeq(q, k + 1, b - 1)
    <3>1. g[m] = SubSeq(q, k + 1, b - 1)
      BY <2>3, <2>7
    <3> HIDE DEF m
    <3> QED BY <2>2, <2>4, <3>1
  <2> HIDE DEF f, g, m
  <2> DEFINE s == SubSeq(p, k + 1, a - 1)
             t == SubSeq(q, k + 1, b - 1)
  <2>9. Len(s) = a - 1 - k /\ \A i \in 1 .. a - 1 - k : s[i] = p[k + i]
    <3>1. /\ k + 1 \in 1 .. Len(p) /\ a - 1 \in k + 1 .. Len(p) /\ (a - 1) - (k + 1) + 1 = a - 1 - k
          /\ \A i \in 1 .. a - 1 - k : (k + 1) + i - 1 = k + i
      BY <1>1, <2>1
    <3>2. /\ Len(s) = (a - 1) - (k + 1) + 1
          /\ \A i \in 1 .. (a - 1) - (k + 1) + 1 : s[i] = p[(k + 1) + i - 1]
      BY <1>1, <3>1, Part
    <3> HIDE DEF s
    <3>3. \A i \in 1 .. a - 1 - k : s[i] = p[(k + 1) + i - 1]
      BY <3>1, <3>2
    <3> QED BY <3>1, <3>2, <3>3
  <2>10. Len(t) = b - 1 - k /\ \A i \in 1 .. b - 1 - k : t[i] = q[k + i]
    <3>1. /\ k + 1 \in 1 .. Len(q) /\ b - 1 \in k + 1 .. Len(q) /\ (b - 1) - (k + 1) + 1 = b - 1 - k
          /\ \A i \in 1 .. b - 1 - k : (k + 1) + i - 1 = k + i
      BY <1>1, <2>6
    <3>2. /\ Len(t) = (b - 1) - (k + 1) + 1
          /\ \A i \in 1 .. (b - 1) - (k + 1) + 1 : t[i] = q[(k + 1) + i - 1]
      BY <1>1, <3>1, Part
    <3> HIDE DEF t
    <3>3. \A i \in 1 .. b - 1 - k : t[i] = q[(k + 1) + i - 1]
      BY <3>1, <3>2
    <3> QED BY <3>1, <3>2, <3>3
  <2>11. s = t
    BY <2>8
  <2> HIDE DEF s, t
  <2>12. a = b
    <3>1. a \in Nat /\ b \in Nat /\ k \in Nat
      BY <1>1, <2>1
    <3>2. a - 1 - k = b - 1 - k
      BY <2>9, <2>10, <2>11
    <3> QED BY <3>1, <3>2
  <2>13. \A j \in 1 .. a : p[j] = q[j]
    <3> TAKE j \in 1 .. a
    <3>1. j \in 1 .. k \/ j = a \/ (j - k \in 1 .. a - 1 - k /\ k + (j - k) = j)
      BY <1>8
    <3>2. CASE j - k \in 1 .. a - 1 - k /\ k + (j - k) = j
      <4>1. s[j - k] = p[k + (j - k)] /\ t[j - k] = q[k + (j - k)]
        BY <2>9, <2>10, <2>12, <3>2
      <4> QED BY <2>11, <3>2, <4>1
    <3> QED BY <1>8, <2>2, <2>7, <2>12, <3>1, <3>2
  <2>14. a \in 1 .. Len(p) /\ a <= Len(q) /\ ~(a <= k)
    BY <1>8, <2>2, <2>7, <2>12
  <2>15. a \in K
    BY <2>2, <2>13, <2>14
  <2> QED BY <1>7, <2>14, <2>15
<1> QED BY <1>9, <1>10

-----------------------------------------------------------------------------
(* Exclusive mounts do not overlap.                                        *)

\* No path in the map is how another one begins.
OverlapInv ==
    /\ \A e \in names : Tidy(e.path) /\ IsAbsolute(e.path)
    /\ \A e, f \in names : IsPrefix(e.path, f.path) => e = f

\* Paths that begin with each other are the same.
LEMMA PrefixBoth ==
    ASSUME NEW p \in Seq(Characters), NEW q \in Seq(Characters), IsPrefix(p, q), IsPrefix(q, p)
    PROVE  p = q
<1>1. Len(p) <= Len(q) /\ Len(q) <= Len(p) /\ \A i \in 1 .. Len(p) : p[i] = q[i]
  BY PrefixIs
<1>2. Len(p) = Len(q)
  <2>1. Len(p) \in Nat /\ Len(q) \in Nat
    OBVIOUS
  <2> QED BY <1>1, <2>1
<1> QED BY <1>1, <1>2, SeqEqual

\* For tidy paths the beginning of the text is what IsParent looks at.
LEMMA ParentIs ==
    ASSUME NEW p, Tidy(p), IsAbsolute(p), NEW q, Tidy(q)
    PROVE  /\ IsPrefix(p, q) <=> IsPrefix(Components(p), Components(q))
           /\ IsPrefix(p, q) <=> p = q \/ IsParent(p, q)
<1>1. p \in Seq(Characters) /\ p # <<>> /\ p[Len(p)] = Slash /\ q \in Seq(Characters)
  BY DEF Tidy
<1>2. IsPrefix(p, q) <=> IsPrefix(Components(p), Components(q))
  <2>1. IsPrefix(p, q) => IsPrefix(Components(p), Components(q))
    BY <1>1, TextThenParts
  <2>2. IsPrefix(Components(p), Components(q)) => IsPrefix(p, q)
    BY PartsThenText
  <2> QED BY <2>1, <2>2
<1>3. IsPrefix(p, p)
  BY <1>1, PrefixIs
<1>4. ASSUME IsPrefix(p, q), p # q PROVE IsParent(p, q)
  <2>1. Components(p) # Components(q)
    <3> SUFFICES ASSUME Components(p) = Components(q) PROVE FALSE
      OBVIOUS
    <3>1. IsAbsolute(q)
      <4>1. 1 <= Len(q) /\ p[1] = q[1]
        <5>1. Len(p) \in Nat /\ Len(p) >= 1 /\ Len(p) <= Len(q) /\ \A i \in 1 .. Len(p) : p[i] = q[i]
          BY <1>1, <1>4, PrefixIs
        <5> QED BY <5>1
      <4> QED BY <1>1, <4>1 DEF IsAbsolute
    <3>2. Components(p) \in Seq(Seq(Characters)) /\ IsPrefix(Components(q), Components(p))
      <4>1. Components(p) \in Seq(Seq(Characters))
        BY <1>1, ComponentsAre
      <4>2. IsPrefix(Components(p), Components(p))
        BY <4>1, PrefixIs
      <4> QED BY <4>1, <4>2
    <3>3. IsPrefix(q, p)
      BY <3>1, <3>2, PartsThenText
    <3> QED BY <1>1, <1>4, <3>3, PrefixBoth
  <2> QED BY <1>2, <1>4, <2>1 DEF IsParent, IsStrictPrefix
<1>5. IsParent(p, q) => IsPrefix(p, q)
  BY <1>2 DEF IsParent, IsStrictPrefix
<1> QED BY <1>2, <1>3, <1>4, <1>5

\* The entry whose path another path begins with is the one below that path:
\* an entry in between would begin with it too.
LEMMA BelowFound ==
    ASSUME MapsInv, OverlapInv, NEW path \in Seq(Characters), NEW e \in names, IsPrefix(e.path, path)
    PROVE  e \in NotAbove(path)
<1>1. \A f \in names : f.path \in Seq(Characters)
  BY NamesAre DEF Entry
<1>2. e.path = path \/ Before(e.path, path)
  BY DEF Before, IsStrictPrefix
<1>3. ~Before(path, e.path)
  <2> SUFFICES ASSUME Before(path, e.path) PROVE FALSE
    OBVIOUS
  <2>1. Before(path, path)
    BY <1>1, <1>2, BeforeTransitive
  <2> QED BY <2>1, NotBeforeItself
<1>4. e \in Upto(path)
  BY <1>3 DEF Upto, After
<1>5. \A f \in Upto(path) : f = e \/ Before(f.path, e.path)
  <2> SUFFICES ASSUME NEW f \in Upto(path), f # e, ~Before(f.path, e.path) PROVE FALSE
    OBVIOUS
  <2>1. f \in names /\ ~Before(path, f.path) /\ f.path \in Seq(Characters) /\ e.path \in Seq(Characters)
    BY <1>1 DEF Upto, After
  <2>2. f.path # e.path
    BY <2>1 DEF MapsInv
  <2>3. Before(e.path, f.path)
    BY <2>1, <2>2, BeforeTotal
  <2>4. f.path = path \/ Before(f.path, path)
    BY <2>1, BeforeTotal
  <2>5. IsPrefix(e.path, f.path)
    BY <2>1, <2>3, <2>4, Between
  <2> QED BY <2>1, <2>5 DEF OverlapInv
<1> QED BY <1>4, <1>5 DEF NotAbove

\* Where there are entries above a path, upper_bound finds the lowest: take
\* the one with the fewest entries before it.
LEMMA UpperFound ==
    ASSUME MapsInv, NEW path \in Seq(Characters), After(path) # {}
    PROVE  UpperBound(path) # {}
<1> DEFINE Lower2(e) == {n \in Names : \E f \in After(path) : f.name = n /\ Before(f.path, e.path)}
           sizes == {Cardinality(Lower2(e)) : e \in After(path)}
<1>1. /\ After(path) \subseteq names
      /\ \A e \in names : e.path \in Seq(Characters) /\ e.name \in Names /\ e = EntryOf(e.name)
  BY NamesAre DEF After, Entry
<1>2. \A e : IsFiniteSet(Lower2(e)) /\ Cardinality(Lower2(e)) \in Nat
  <2> TAKE e
  <2>1. Lower2(e) \in SUBSET Names
    OBVIOUS
  <2> HIDE DEF Lower2
  <2>2. IsFiniteSet(Lower2(e))
    BY <2>1, NamesAssumption, FS_Subset
  <2> QED BY <2>2, FS_CardinalityType
<1>3. sizes \subseteq Nat /\ sizes # {}
  <2> HIDE DEF Lower2
  <2> QED BY <1>2
<1>4. PICK u \in After(path) : \A e \in After(path) : Cardinality(Lower2(u)) <= Cardinality(Lower2(e))
  <2> HIDE DEF Lower2
  <2>1. PICK s \in sizes : \A r \in sizes : s <= r
    <3> HIDE DEF sizes
    <3> QED BY <1>3, LeastNumber
  <2>2. PICK u \in After(path) : s = Cardinality(Lower2(u))
    OBVIOUS
  <2> QED BY <2>1, <2>2
<1>5. \A f \in After(path) : f = u \/ Before(u.path, f.path)
  <2> SUFFICES ASSUME NEW f \in After(path), f # u, ~Before(u.path, f.path) PROVE FALSE
    OBVIOUS
  <2>1. f \in names /\ u \in names /\ f.path \in Seq(Characters) /\ u.path \in Seq(Characters)
    BY <1>1
  <2>2. f.path # u.path
    BY <2>1 DEF MapsInv
  <2>3. Before(f.path, u.path)
    BY <2>1, <2>2, BeforeTotal
  <2>4. Lower2(f) \subseteq Lower2(u)
    <3> SUFFICES ASSUME NEW n \in Lower2(f) PROVE n \in Lower2(u)
      OBVIOUS
    <3>1. PICK g \in After(path) : g.name = n /\ Before(g.path, f.path)
      OBVIOUS
    <3>2. g.path \in Seq(Characters)
      BY <1>1
    <3>3. Before(g.path, u.path)
      BY <2>1, <2>3, <3>1, <3>2, BeforeTransitive
    <3> QED BY <3>1, <3>3
  <2>5. f.name \in Lower2(u)
    BY <1>1, <2>1, <2>3
  <2>6. f.name \notin Lower2(f)
    <3> SUFFICES ASSUME NEW g \in After(path), g.name = f.name, Before(g.path, f.path) PROVE FALSE
      OBVIOUS
    <3>1. g = f
      BY <1>1, <2>1
    <3> QED BY <2>1, <3>1, NotBeforeItself
  <2> HIDE DEF Lower2
  <2>7. Cardinality(Lower2(f)) <= Cardinality(Lower2(u)) /\ Lower2(u) # Lower2(f)
    BY <1>2, <2>4, <2>5, <2>6, FS_Subset
  <2>8. Cardinality(Lower2(u)) <= Cardinality(Lower2(f))
    BY <1>4
  <2>9. Cardinality(Lower2(u)) = Cardinality(Lower2(f))
    BY <1>2, <2>7, <2>8
  <2>10. Lower2(u) = Lower2(f)
    BY <1>2, <2>4, <2>9, FS_Subset
  <2> QED BY <2>7, <2>10
<1> QED BY <1>4, <1>5 DEF UpperBound

\* An entry that begins with a path makes the one above that path begin so.
LEMMA AboveFound ==
    ASSUME MapsInv, NEW path \in Seq(Characters), NEW e \in names, IsPrefix(path, e.path), path # e.path
    PROVE  \E u \in UpperBound(path) : IsPrefix(path, u.path)
<1>1. \A f \in names : f.path \in Seq(Characters)
  BY NamesAre DEF Entry
<1>2. Before(path, e.path)
  BY DEF Before, IsStrictPrefix
<1>3. e \in After(path)
  BY <1>2 DEF After
<1>4. PICK u \in UpperBound(path) : TRUE
  BY <1>3, UpperFound
<1>5. u \in names /\ Before(path, u.path) /\ (e = u \/ Before(u.path, e.path))
  BY <1>3, <1>4 DEF UpperBound, After
<1>6. IsPrefix(path, u.path)
  BY <1>1, <1>5, Between
<1> QED BY <1>6

\* What ValidateNewMountPoint finds at two neighbours holds of every entry.
LEMMA NoneOverlaps ==
    ASSUME MapsInv, OverlapInv, NEW name, NEW type, NEW path, Tidy(path),
           ValidateNewMountPoint(name, type, path), IsOverlappingMountPathForbidden(type)
    PROVE  \A e \in names : ~IsPrefix(e.path, path) /\ ~IsPrefix(path, e.path)
<1>1. path \in Seq(Characters) /\ path # <<>>
  BY DEF Tidy
<1>2. /\ IsAbsolute(path)
      /\ \A e \in NotAbove(path) : e.path # path /\ ~IsParent(e.path, path)
      /\ \A e \in UpperBound(path) : e.path # path /\ ~IsParent(path, e.path)
  BY <1>1 DEF ValidateNewMountPoint
<1>3. \A e \in names : Tidy(e.path) /\ IsAbsolute(e.path)
  BY DEF OverlapInv
<1> TAKE e \in names
<1>4. ~IsPrefix(e.path, path)
  <2> SUFFICES ASSUME IsPrefix(e.path, path) PROVE FALSE
    OBVIOUS
  <2>1. e \in NotAbove(path)
    BY <1>1, BelowFound
  <2>2. e.path # path /\ ~IsParent(e.path, path)
    BY <1>2, <2>1
  <2> QED BY <1>3, <2>2, ParentIs
<1>5. ~IsPrefix(path, e.path)
  <2> SUFFICES ASSUME IsPrefix(path, e.path) PROVE FALSE
    OBVIOUS
  <2>1. path # e.path
    BY <1>1, <1>2, NewPath
  <2>2. PICK u \in UpperBound(path) : IsPrefix(path, u.path)
    BY <1>1, <2>1, AboveFound
  <2>3. u \in names /\ u.path # path /\ ~IsParent(path, u.path)
    BY <1>2 DEF UpperBound, After
  <2> QED BY <1>2, <1>3, <2>2, <2>3, ParentIs
<1> QED BY <1>4, <1>5

\* RegisterFileSystem keeps exclusive mounts apart.
LEMMA OverlapRegister ==
    ASSUME \A p \in Paths : Clean(p), MapsInv, OverlapInv,
           NEW n \in Names, NEW t \in Types, NEW p \in Paths, RegisterFileSystem(n, t, p)
    PROVE  OverlapInv'
<1> DEFINE path == NormalizeFilePath(p)
           entry == [path |-> path, name |-> n]
<1>1. p \in Seq(Characters) /\ Clean(p)
  BY PathsAssumption
<1>2. ValidateNewMountPoint(n, t, path)
  BY DEF RegisterFileSystem
<1>3. names' = IF path # <<>> /\ IsOverlappingMountPathForbidden(t) THEN names \cup {entry} ELSE names
  BY DEF RegisterFileSystem
<1>4. path # <<>> => Tidy(path)
  BY <1>1, NormIs, NormTidy
<1>5. entry.path = path
  OBVIOUS
<1>6. path # <<>> => IsAbsolute(path)
  BY <1>2 DEF ValidateNewMountPoint
<1> HIDE DEF path, entry
<1>7. CASE path # <<>> /\ IsOverlappingMountPathForbidden(t)
  <2>1. names' = names \cup {entry}
    BY <1>3, <1>7
  <2>2. \A e \in names : ~IsPrefix(e.path, path) /\ ~IsPrefix(path, e.path)
    BY <1>2, <1>4, <1>7, NoneOverlaps
  <2> QED BY <1>4, <1>5, <1>6, <1>7, <2>1, <2>2 DEF OverlapInv
<1>8. CASE ~(path # <<>> /\ IsOverlappingMountPathForbidden(t))
  <2>1. names' = names
    BY <1>3, <1>8
  <2> QED BY <2>1 DEF OverlapInv
<1> QED BY <1>7, <1>8

\* No other step adds to the map.
LEMMA OverlapStep ==
    ASSUME \A p \in Paths : Clean(p), MapsInv, OverlapInv, [Next]_vars
    PROVE  OverlapInv'
<1>1. CASE names' \subseteq names
  BY <1>1 DEF OverlapInv
<1>2. UNCHANGED vars \/ CrackVirtualPath \/ ReaderDone \/ RevokeAllFileSystems => names' \subseteq names
  BY DEF vars, CrackVirtualPath, ReaderDone, RevokeAllFileSystems
<1>3. (\E p \in Paths : FindVirtualPath(p)) => names' \subseteq names
  BY DEF FindVirtualPath
<1>4. (\E n \in Names : RevokeFileSystem(n)) => names' \subseteq names
  BY DEF RevokeFileSystem
<1> QED BY <1>1, <1>2, <1>3, <1>4, OverlapRegister DEF Next

\* GetVirtualPath finds the mount that contains a path, and no other.
LEMMA MountFound ==
    ASSUME \A p \in Paths : Clean(p), MapsInv, OverlapInv
    PROVE  FindsTheMount
<1> SUFFICES ASSUME NEW p \in Paths \ {<<>>}
             PROVE  {v.name : v \in GetVirtualPath(p)} = {n \in Exclusive : Covers(instances[n].path, p)}
  BY DEF FindsTheMount
<1> DEFINE path == NormalizeFilePath(p)
           found == {f \in NotAbove(path) : f.path = path \/ IsParent(f.path, path)}
<1>1. p \in Seq(Characters) /\ Clean(p) /\ p # <<>>
  BY PathsAssumption
<1>2. Tidy(path) /\ path \in Seq(Characters) /\ Components(path) = Components(p)
  BY <1>1, NormTidy, NormIs, ComponentsNorm
<1>3. {v.name : v \in GetVirtualPath(p)} = {e.name : e \in found}
  <2> DEFINE V(e) == [name |-> e.name,
                      path |-> CreateVirtualRootPath(e.name)
                          \o SubSeq(Components(path), Len(Components(e.path)) + 1, Len(Components(path)))]
  <2>1. GetVirtualPath(p) = {V(e) : e \in found}
    BY DEF GetVirtualPath
  <2>2. \A e : V(e).name = e.name
    OBVIOUS
  <2> HIDE DEF V, found
  <2> QED BY <2>1, <2>2
<1> HIDE DEF path
<1>4. \A e \in names : /\ e.name \in Exclusive /\ e = EntryOf(e.name)
                       /\ Tidy(e.path) /\ IsAbsolute(e.path)
  BY NamesAre DEF OverlapInv
<1>5. \A n \in Exclusive : /\ EntryOf(n) \in names /\ EntryOf(n).name = n
                           /\ Components(EntryOf(n).path) = Components(instances[n].path)
  <2> TAKE n \in Exclusive
  <2>1. instances[n].path \in Seq(Characters)
    BY EntryIs DEF Instance
  <2>2. EntryOf(n).path = NormalizeFilePath(instances[n].path) /\ EntryOf(n).name = n
    BY EntryIs
  <2> QED BY <2>1, <2>2, ComponentsNorm, NamesAre
<1>6. found = {e \in names : IsPrefix(e.path, path)}
  <2>1. \A e \in names : IsPrefix(e.path, path) <=> e.path = path \/ IsParent(e.path, path)
    BY <1>2, <1>4, ParentIs
  <2>2. \A e \in names : IsPrefix(e.path, path) => e \in NotAbove(path)
    BY <1>2, BelowFound
  <2>3. NotAbove(path) \subseteq names
    BY DEF NotAbove, Upto
  <2> QED BY <2>1, <2>2, <2>3
<1> HIDE DEF found
<1>7. \A e \in names : IsPrefix(e.path, path) <=> Covers(instances[e.name].path, p)
  <2> TAKE e \in names
  <2>1. IsPrefix(e.path, path) <=> IsPrefix(Components(e.path), Components(path))
    BY <1>2, <1>4, ParentIs
  <2>2. Components(e.path) = Components(instances[e.name].path)
    BY <1>4, <1>5
  <2> QED BY <1>2, <2>1, <2>2 DEF Covers
<1>8. {e.name : e \in found} = {n \in Exclusive : Covers(instances[n].path, p)}
  <2>1. ASSUME NEW e \in found PROVE e.name \in {n \in Exclusive : Covers(instances[n].path, p)}
    BY <1>4, <1>6, <1>7
  <2>2. ASSUME NEW n \in Exclusive, Covers(instances[n].path, p) PROVE n \in {e.name : e \in found}
    <3>1. EntryOf(n) \in names /\ EntryOf(n).name = n
      BY <1>5
    <3>2. EntryOf(n) \in found
      BY <1>6, <1>7, <2>2, <3>1
    <3> QED BY <3>1, <3>2
  <2> QED BY <2>1, <2>2
<1> QED BY <1>3, <1>8

\* If callers give no path with two separators in a row, ValidateNewMountPoint's
\* look at two neighbours keeps exclusive mounts apart, and GetVirtualPath's
\* look at one finds the mount that contains a path whenever there is one, and
\* never another.  With two in a row the order of the texts is not that of the
\* components, and a mount can be missed.
THEOREM MountsCorrect == (\A p \in Paths : Clean(p)) => (Spec => []FindsTheMount)
<1> SUFFICES ASSUME \A p \in Paths : Clean(p) PROVE Spec => []FindsTheMount
  OBVIOUS
<1>1. Init => OverlapInv
  BY DEF Init, OverlapInv
<1>2. MapsInv /\ OverlapInv /\ [Next]_vars => OverlapInv'
  BY OverlapStep
<1>3. MapsInv /\ OverlapInv => FindsTheMount
  BY MountFound
<1> QED BY <1>1, <1>2, <1>3, MapsAlways, PTL DEF Spec

=============================================================================
