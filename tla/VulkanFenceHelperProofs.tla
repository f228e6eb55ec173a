----------------------- MODULE VulkanFenceHelperProofs -----------------------
(***************************************************************************)
(* Proofs about VulkanFenceHelper, for any number of tasks and             *)
(* generations.                                                            *)
(***************************************************************************)
EXTENDS VulkanFenceHelper, SequenceTheorems, FiniteSetTheorems,
        WellFoundedInduction, TLAPS

-----------------------------------------------------------------------------
(* The least and the greatest of some integers.                            *)

\* Some numbers have a least one.
LEMMA MinIsLeast ==
    ASSUME NEW S, S \subseteq Nat, S # {}
    PROVE  Min(S) \in S /\ \A y \in S : Min(S) <= y
<1> DEFINE R == OpToRel(<, Nat)
<1>1. IsWellFoundedOn(R, Nat)
  BY NatLessThanWellFounded
<1>2. \A x, y \in Nat : x < y => <<x, y>> \in R
  BY DEF OpToRel
<1> HIDE DEF R
<1>3. PICK x \in S : \A y \in S : <<y, x>> \notin R
  BY <1>1, WFMin
<1>4. \A y \in S : x <= y
  <2> TAKE y \in S
  <2>1. x \in Nat /\ y \in Nat
    OBVIOUS
  <2>2. ~(y < x)
    BY <1>2, <1>3, <2>1
  <2> QED BY <2>1, <2>2
<1> QED BY <1>4 DEF Min

\* Some numbers that are bounded have a greatest one.
LEMMA MaxIsGreatest ==
    ASSUME NEW S, NEW n \in Nat, S \subseteq 0 .. n, S # {}
    PROVE  Max(S) \in S /\ \A y \in S : y <= Max(S)
<1> DEFINE R == {n - y : y \in S}
<1>1. R \subseteq Nat /\ R # {}
  <2>1. \A y \in S : n - y \in Nat
    OBVIOUS
  <2>2. PICK y \in S : TRUE
    OBVIOUS
  <2>3. n - y \in R
    OBVIOUS
  <2> QED BY <2>1, <2>3
<1> DEFINE r == Min(R)
<1>2. r \in R /\ \A z \in R : r <= z
  BY <1>1, MinIsLeast
<1> HIDE DEF r
<1>3. PICK x \in S : r = n - x
  BY <1>2
<1>4. \A y \in S : x >= y
  <2> TAKE y \in S
  <2>1. n - x <= n - y
    BY <1>2, <1>3
  <2>2. x \in Nat /\ y \in Nat
    OBVIOUS
  <2> QED BY <2>1, <2>2
<1>5. Max(S) \in S /\ \A y \in S : Max(S) >= y
  BY <1>4 DEF Max
<1> QED BY <1>5

-----------------------------------------------------------------------------
(* Lists of tasks that follow each other.                                  *)

\* The numbers after m up to n.
Span(m, n) == [k \in 1 .. n - m |-> m + k]

\* The lists hold the numbers from 1 to n; f says where each one ends.
EndsAt(lists, n, f) ==
    /\ f \in [0 .. Len(lists) -> Nat] /\ f[0] = 0 /\ f[Len(lists)] = n
    /\ \A i \in 1 .. Len(lists) :
          /\ f[i - 1] <= f[i]
          /\ lists[i] = Span(f[i - 1], f[i])

Consecutive(lists, n) == \E f : EndsAt(lists, n, f)

\* The numbers from 1 to n.
UpTo(n) == [k \in 1 .. n |-> k]

\* A list that goes on where the numbers before it end.
LEMMA UpToConcat ==
    ASSUME NEW m \in Nat, NEW n \in Nat, m <= n
    PROVE  UpTo(m) \o Span(m, n) = UpTo(n)
<1> DEFINE s == UpTo(m)
           t == Span(m, n)
           u == UpTo(n)
<1>1. s \in Seq(Nat) /\ Len(s) = m /\ \A k \in 1 .. m : s[k] = k
  BY DEF UpTo
<1>2. t \in Seq(Nat) /\ Len(t) = n - m /\ \A k \in 1 .. n - m : t[k] = m + k
  BY DEF Span
<1>3. u \in Seq(Nat) /\ Len(u) = n /\ \A k \in 1 .. n : u[k] = k
  BY DEF UpTo
<1> HIDE DEF s, t, u
<1>4. /\ s \o t \in Seq(Nat) /\ Len(s \o t) = n
      /\ \A k \in 1 .. n : (s \o t)[k] = IF k <= m THEN s[k] ELSE t[k - m]
  <2>1. /\ s \o t \in Seq(Nat) /\ Len(s \o t) = Len(s) + Len(t)
        /\ \A k \in 1 .. Len(s) + Len(t) : (s \o t)[k] = IF k <= Len(s) THEN s[k] ELSE t[k - Len(s)]
    BY <1>1, <1>2, ConcatProperties
  <2>2. Len(s) = m /\ Len(s) + Len(t) = n
    BY <1>1, <1>2
  <2>3. s \o t \in Seq(Nat) /\ Len(s \o t) = n
    BY <2>1, <2>2
  <2>4. \A k \in 1 .. n : (s \o t)[k] = IF k <= m THEN s[k] ELSE t[k - m]
    BY <2>1, <2>2
  <2> QED BY <2>3, <2>4
<1>5. \A k \in 1 .. n : (s \o t)[k] = u[k]
  <2> TAKE k \in 1 .. n
  <2>1. CASE k <= m
    <3>1. k \in 1 .. m
      BY <2>1
    <3> QED BY <1>1, <1>3, <1>4, <2>1, <3>1
  <2>2. CASE ~(k <= m)
    <3>1. k - m \in 1 .. n - m /\ m + (k - m) = k
      BY <2>2
    <3> QED BY <1>2, <1>3, <1>4, <2>2, <3>1
  <2> QED BY <2>1, <2>2
<1>6. s \o t = u
  BY <1>3, <1>4, <1>5, SeqEqual
<1> QED BY <1>6 DEF s, t, u

\* Flattened, such lists are the numbers from 1 to n: the function that
\* flattens up to each list is the only one its equation allows.
LEMMA ConsecutiveFlat ==
    ASSUME NEW lists, NEW n, Len(lists) \in Nat \ {0}, Consecutive(lists, n)
    PROVE  FlattenSeq(lists) = UpTo(n)
<1> DEFINE L == Len(lists)
           Flat(g) == g = [i \in 1 .. L |-> IF i = 1 THEN lists[i] ELSE g[i - 1] \o lists[i]]
<1>1. FlattenSeq(lists) = (CHOOSE g : Flat(g))[L]
  BY DEF FlattenSeq
<1>2. PICK f : EndsAt(lists, n, f)
  BY DEF Consecutive
<1>3. /\ L \in Nat /\ L >= 1 /\ f[0] = 0 /\ f[L] = n
      /\ \A i \in 0 .. L : f[i] \in Nat
      /\ \A i \in 1 .. L : f[i - 1] <= f[i] /\ lists[i] = Span(f[i - 1], f[i])
  BY <1>2 DEF EndsAt
<1>4. lists[1] = UpTo(f[1])
  <2>1. f[1] \in Nat /\ lists[1] = Span(0, f[1])
    BY <1>3
  <2> QED BY <2>1 DEF UpTo, Span
<1>5. \A i \in 2 .. L : UpTo(f[i - 1]) \o lists[i] = UpTo(f[i])
  <2> TAKE i \in 2 .. L
  <2>1. /\ f[i - 1] \in Nat /\ f[i] \in Nat /\ f[i - 1] <= f[i]
        /\ lists[i] = Span(f[i - 1], f[i])
    BY <1>3
  <2> QED BY <2>1, UpToConcat
<1> DEFINE h == [i \in 1 .. L |-> UpTo(f[i])]
<1>6. Flat(h)
  <2>1. \A i \in 1 .. L : UpTo(f[i]) = IF i = 1 THEN lists[i] ELSE h[i - 1] \o lists[i]
    <3> TAKE i \in 1 .. L
    <3>1. CASE i = 1
      BY <1>4, <3>1
    <3>2. CASE i # 1
      <4>1. i \in 2 .. L /\ i - 1 \in 1 .. L
        BY <1>3, <3>2
      <4>2. h[i - 1] = UpTo(f[i - 1])
        BY <4>1
      <4> HIDE DEF h
      <4> QED BY <1>5, <3>2, <4>1, <4>2
    <3> QED BY <3>1, <3>2
  <2> QED BY <2>1
<1> DEFINE g == CHOOSE g : Flat(g)
<1>7. Flat(g)
  BY <1>6
<1> HIDE DEF g
<1>8. \A i \in 1 .. L : g[i] = IF i = 1 THEN lists[i] ELSE g[i - 1] \o lists[i]
  BY <1>7
<1> HIDE DEF h, Flat
<1>9. g[L] = UpTo(f[L])
  <2> SUFFICES ASSUME g[L] # UpTo(f[L]) PROVE FALSE
    OBVIOUS
  <2> DEFINE wrong == {i \in 1 .. L : g[i] # UpTo(f[i])}
             m     == Min(wrong)
  <2>1. wrong \subseteq Nat /\ wrong # {}
    BY <1>3
  <2>2. m \in wrong /\ \A i \in wrong : m <= i
    BY <2>1, MinIsLeast
  <2> HIDE DEF m
  <2>3. m \in 1 .. L /\ g[m] # UpTo(f[m])
    BY <2>2
  <2>4. m # 1
    BY <1>4, <1>8, <2>3
  <2>5. m - 1 \in 1 .. L /\ m \in 2 .. L
    BY <1>3, <2>3, <2>4
  <2>6. m - 1 \notin wrong
    BY <2>2, <2>3
  <2>7. g[m - 1] = UpTo(f[m - 1])
    BY <2>5, <2>6
  <2> QED BY <1>5, <1>8, <2>3, <2>4, <2>5, <2>7
<1> QED BY <1>1, <1>3, <1>9 DEF g

\* An empty list may follow.
LEMMA ConsecutiveEmpty ==
    ASSUME NEW lists \in Seq(Seq(Nat)), NEW n, Consecutive(lists, n)
    PROVE  Consecutive(Append(lists, <<>>), n)
<1> DEFINE L == Len(lists)
           more == Append(lists, <<>>)
<1>1. PICK f : EndsAt(lists, n, f)
  BY DEF Consecutive
<1>2. /\ L \in Nat /\ f[0] = 0 /\ f[L] = n
      /\ \A i \in 0 .. L : f[i] \in Nat
      /\ \A i \in 1 .. L : f[i - 1] <= f[i] /\ lists[i] = Span(f[i - 1], f[i])
  <2>1. L \in Nat
    OBVIOUS
  <2>2. /\ f \in [0 .. L -> Nat] /\ f[0] = 0 /\ f[L] = n
        /\ \A i \in 1 .. L : f[i - 1] <= f[i] /\ lists[i] = Span(f[i - 1], f[i])
    BY <1>1 DEF EndsAt
  <2> HIDE DEF L
  <2> QED BY <2>1, <2>2
<1>3. Len(more) = L + 1 /\ (\A i \in 1 .. L : more[i] = lists[i]) /\ more[L + 1] = <<>>
  <2>1. <<>> \in Seq(Nat)
    OBVIOUS
  <2> QED BY <2>1, AppendProperties
<1> DEFINE g == [i \in 0 .. L + 1 |-> IF i = L + 1 THEN n ELSE f[i]]
<1> HIDE DEF more, L
<1>4. /\ g \in [0 .. L + 1 -> Nat] /\ g[0] = 0 /\ g[L] = n /\ g[L + 1] = n
      /\ \A i \in 0 .. L : g[i] = f[i]
  BY <1>2
<1> HIDE DEF g
<1>5. \A i \in 1 .. L : g[i - 1] <= g[i] /\ more[i] = Span(g[i - 1], g[i])
  <2> TAKE i \in 1 .. L
  <2>1. g[i] = f[i] /\ g[i - 1] = f[i - 1]
    BY <1>2, <1>4
  <2> QED BY <1>2, <1>3, <2>1
<1>6. g[L] <= g[L + 1] /\ more[L + 1] = Span(g[L], g[L + 1])
  <2>1. g[L] = n /\ n \in Nat
    BY <1>2, <1>4
  <2>2. Span(n, n) = <<>>
    BY <2>1 DEF Span
  <2> QED BY <1>3, <1>4, <2>1, <2>2
<1>7. \A i \in 1 .. L + 1 : i \in 1 .. L \/ i = L + 1
  BY <1>2
<1>8. EndsAt(more, n, g)
  <2>1. \A i \in 1 .. L + 1 :
           g[i - 1] <= g[i] /\ more[i] = Span(g[i - 1], g[i])
    <3> TAKE i \in 1 .. L + 1
    <3>1. CASE i \in 1 .. L
      BY <1>5, <3>1
    <3>2. CASE i = L + 1
      <4>1. i - 1 = L
        BY <1>2, <3>2
      <4> QED BY <1>6, <3>2, <4>1
    <3> QED BY <1>7, <3>1, <3>2
  <2>2. Len(more) = L + 1
    BY <1>3
  <2> QED BY <1>4, <2>1, <2>2 DEF EndsAt
<1> QED BY <1>8 DEF Consecutive, more

\* The next number may be added to the last list.
LEMMA ConsecutiveGrows ==
    ASSUME NEW lists \in Seq(Seq(Nat)), NEW p \in Seq(Nat), NEW n, Consecutive(Append(lists, p), n)
    PROVE  Consecutive(Append(lists, Append(p, n + 1)), n + 1)
<1> DEFINE L == Len(lists)
           now == Append(lists, p)
           q == Append(p, n + 1)
           more == Append(lists, q)
<1>1. PICK f : EndsAt(now, n, f)
  BY DEF Consecutive
<1>2. L \in Nat /\ Len(now) = L + 1 /\ (\A i \in 1 .. L : now[i] = lists[i]) /\ now[L + 1] = p
  BY AppendProperties
<1>3. /\ f[0] = 0 /\ f[L + 1] = n
      /\ \A i \in 0 .. L + 1 : f[i] \in Nat
      /\ \A i \in 1 .. L + 1 : f[i - 1] <= f[i] /\ now[i] = Span(f[i - 1], f[i])
  BY <1>1, <1>2 DEF EndsAt
<1> DEFINE m == f[L]
<1>4. m \in Nat /\ n \in Nat /\ m <= n /\ p = Span(m, n)
  <2>1. L + 1 \in 1 .. L + 1 /\ L + 1 - 1 = L /\ L \in 0 .. L + 1 /\ L + 1 \in 0 .. L + 1
    BY <1>2
  <2>2. f[L] \in Nat /\ f[L + 1] \in Nat
    BY <1>3, <2>1
  <2>3. f[L] <= f[L + 1] /\ now[L + 1] = Span(f[L], f[L + 1])
    <3>1. \A i \in 1 .. L + 1 : f[i - 1] <= f[i] /\ now[i] = Span(f[i - 1], f[i])
      BY <1>3
    <3> HIDE DEF L, now
    <3>2. f[L + 1 - 1] <= f[L + 1] /\ now[L + 1] = Span(f[L + 1 - 1], f[L + 1])
      BY <2>1, <3>1
    <3> QED BY <2>1, <3>2
  <2> QED BY <1>2, <1>3, <2>2, <2>3
<1> HIDE DEF m, q, more, now, L
<1>5. q = Span(m, n + 1)
  <2> DEFINE r == Span(m, n + 1)
  <2>1. r \in Seq(Nat) /\ Len(r) = n - m + 1 /\ \A k \in 1 .. n - m + 1 : r[k] = m + k
    BY <1>4 DEF Span
  <2>2. Len(p) = n - m /\ \A k \in 1 .. n - m : p[k] = m + k
    BY <1>4 DEF Span
  <2>3. /\ q \in Seq(Nat) /\ Len(q) = Len(p) + 1 /\ q[Len(p) + 1] = n + 1
        /\ \A k \in 1 .. Len(p) : q[k] = p[k]
    <3>1. n + 1 \in Nat
      BY <1>4
    <3> QED BY <3>1, AppendProperties DEF q
  <2> HIDE DEF r
  <2>4. \A k \in 1 .. n - m + 1 : q[k] = r[k]
    <3> TAKE k \in 1 .. n - m + 1
    <3>1. CASE k = n - m + 1
      <4>1. q[k] = n + 1 /\ r[k] = m + k
        BY <2>1, <2>2, <2>3, <3>1
      <4>2. m + (n - m + 1) = n + 1
        BY <1>4
      <4> QED BY <3>1, <4>1, <4>2
    <3>2. CASE k # n - m + 1
      <4>1. k \in 1 .. n - m
        BY <1>4, <3>2
      <4> QED BY <2>1, <2>2, <2>3, <4>1
    <3> QED BY <3>1, <3>2
  <2>5. Len(q) = n - m + 1
    BY <2>2, <2>3
  <2>6. q = r
    BY <2>1, <2>3, <2>4, <2>5, SeqEqual
  <2> QED BY <2>6 DEF r
<1>6. q \in Seq(Nat)
  <2>1. n + 1 \in Nat
    BY <1>4
  <2> QED BY <2>1, AppendProperties DEF q
<1>7. Len(more) = L + 1 /\ (\A i \in 1 .. L : more[i] = lists[i]) /\ more[L + 1] = q
  BY <1>6, AppendProperties DEF more, L
<1> DEFINE g == [i \in 0 .. L + 1 |-> IF i = L + 1 THEN n + 1 ELSE f[i]]
<1>8. /\ g \in [0 .. L + 1 -> Nat] /\ g[0] = 0 /\ g[L] = m /\ g[L + 1] = n + 1
      /\ \A i \in 0 .. L : g[i] = f[i]
  BY <1>2, <1>3, <1>4 DEF m
<1> HIDE DEF g
<1>9. \A i \in 1 .. L : g[i - 1] <= g[i] /\ more[i] = Span(g[i - 1], g[i])
  <2> TAKE i \in 1 .. L
  <2>1. g[i] = f[i] /\ g[i - 1] = f[i - 1] /\ i \in 1 .. L + 1
    BY <1>2, <1>8
  <2>2. more[i] = now[i]
    BY <1>2, <1>7
  <2> QED BY <1>3, <2>1, <2>2
<1>10. g[L] <= g[L + 1] /\ more[L + 1] = Span(g[L], g[L + 1])
  <2>1. L + 1 - 1 = L
    BY <1>2
  <2>2. m <= n + 1
    BY <1>4
  <2> QED BY <1>5, <1>7, <1>8, <2>1, <2>2
<1>11. \A i \in 1 .. L + 1 : i \in 1 .. L \/ i = L + 1
  BY <1>2
<1>12. EndsAt(more, n + 1, g)
  <2>1. \A i \in 1 .. L + 1 :
           g[i - 1] <= g[i] /\ more[i] = Span(g[i - 1], g[i])
    <3> TAKE i \in 1 .. L + 1
    <3>1. CASE i \in 1 .. L
      BY <1>9, <3>1
    <3>2. CASE i = L + 1
      <4>1. i - 1 = L
        BY <1>2, <3>2
      <4> QED BY <1>10, <3>2, <4>1
    <3> QED BY <1>11, <3>1, <3>2
  <2>2. Len(more) = L + 1
    BY <1>7
  <2> QED BY <1>8, <2>1, <2>2 DEF EndsAt
<1> QED BY <1>12 DEF Consecutive, more, q

-----------------------------------------------------------------------------
(* The tasks are those run, queued and pending, in order.                  *)

\* What is run or queued.
Lists == [gen : 0 .. MaxGenerations, fence : BOOLEAN, tasks : Seq(Tasks)]

TasksIn(s) == [i \in 1 .. Len(s) |-> s[i].tasks]

Types ==
    /\ entries \in Seq(Entry) /\ ran \in Seq(Lists)
    /\ pending \in Seq(Tasks) /\ enqueued \in 0 .. MaxTasks

TasksInv == Types /\ Consecutive(Append(TasksIn(ran \o entries), pending), enqueued)

\* Tasks are numbers, and a queued list is one that can be run.
LEMMA TasksTypes ==
    /\ Tasks \subseteq Nat /\ Seq(Tasks) \subseteq Seq(Nat)
    /\ Entry \subseteq Lists /\ Seq(Entry) \subseteq Seq(Lists)
<1>1. Tasks \subseteq Nat
  BY BoundsAssumption DEF Tasks
<1>2. Entry \subseteq Lists
  BY BoundsAssumption DEF Entry, Lists, Generations
<1> QED BY <1>1, <1>2, SeqMonotonic

\* The tasks of some lists.
LEMMA TasksInProperties ==
    ASSUME NEW s \in Seq(Lists)
    PROVE  TasksIn(s) \in Seq(Seq(Nat)) /\ Len(TasksIn(s)) = Len(s)
<1>1. Len(s) \in Nat /\ \A i \in 1 .. Len(s) : s[i].tasks \in Seq(Nat)
  <2>1. \A i \in 1 .. Len(s) : s[i] \in Lists
    OBVIOUS
  <2>2. \A x \in Lists : x.tasks \in Seq(Tasks)
    BY DEF Lists
  <2> QED BY <2>1, <2>2, TasksTypes
<1> QED BY <1>1 DEF TasksIn

\* A list that is appended.
LEMMA TasksInAppend ==
    ASSUME NEW s \in Seq(Lists), NEW x \in Lists
    PROVE  TasksIn(Append(s, x)) = Append(TasksIn(s), x.tasks)
<1> DEFINE a == TasksIn(Append(s, x))
           b == Append(TasksIn(s), x.tasks)
<1>1. /\ Append(s, x) \in Seq(Lists) /\ Len(Append(s, x)) = Len(s) + 1 /\ Len(s) \in Nat
      /\ \A i \in 1 .. Len(s) : Append(s, x)[i] = s[i]
      /\ Append(s, x)[Len(s) + 1] = x
  BY AppendProperties
<1>2. a \in Seq(Seq(Nat)) /\ Len(a) = Len(s) + 1
  BY <1>1, TasksInProperties
<1>3. TasksIn(s) \in Seq(Seq(Nat)) /\ Len(TasksIn(s)) = Len(s)
  BY TasksInProperties
<1>4. x.tasks \in Seq(Nat)
  BY TasksTypes DEF Lists
<1>5. /\ b \in Seq(Seq(Nat)) /\ Len(b) = Len(s) + 1
      /\ \A i \in 1 .. Len(s) : b[i] = TasksIn(s)[i]
      /\ b[Len(s) + 1] = x.tasks
  BY <1>3, <1>4, AppendProperties
<1>6. \A i \in 1 .. Len(s) + 1 : a[i] = b[i]
  <2> TAKE i \in 1 .. Len(s) + 1
  <2>1. a[i] = Append(s, x)[i].tasks
    BY <1>1 DEF TasksIn
  <2>2. CASE i = Len(s) + 1
    BY <1>1, <1>5, <2>1, <2>2
  <2>3. CASE i # Len(s) + 1
    <3>1. i \in 1 .. Len(s)
      BY <1>1, <2>3
    <3>2. TasksIn(s)[i] = s[i].tasks
      BY <3>1 DEF TasksIn
    <3> QED BY <1>1, <1>5, <2>1, <3>1, <3>2
  <2> QED BY <2>2, <2>3
<1> HIDE DEF a, b
<1>7. a = b
  BY <1>2, <1>5, <1>6, SeqEqual
<1> QED BY <1>7 DEF a, b

\* A list behind what is run and queued.
LEMMA AppendBehind ==
    ASSUME NEW s \in Seq(Lists), NEW t \in Seq(Lists), NEW x \in Lists
    PROVE  /\ Append(s \o t, x) \in Seq(Lists)
           /\ s \o Append(t, x) = Append(s \o t, x)
           /\ Append(s \o t, x) \o <<>> = Append(s \o t, x)
<1>1. s \o t \in Seq(Lists) /\ <<x>> \in Seq(Lists)
  BY ConcatProperties
<1>2. Append(s \o t, x) = (s \o t) \o <<x>> /\ Append(t, x) = t \o <<x>>
  BY <1>1, AppendIsConcat
<1>3. (s \o t) \o <<x>> = s \o (t \o <<x>>)
  BY <1>1, ConcatAssociative
<1>4. Append(s \o t, x) \in Seq(Lists)
  BY <1>1, AppendProperties
<1> QED BY <1>2, <1>3, <1>4, ConcatEmptySeq

\* A prefix of the queue that goes behind what was run.
LEMMA MoveBehind ==
    ASSUME NEW s \in Seq(Lists), NEW t \in Seq(Lists), NEW n \in 0 .. Len(t)
    PROVE  /\ SubSeq(t, 1, n) \in Seq(Lists) /\ SubSeq(t, n + 1, Len(t)) \in Seq(Lists)
           /\ (s \o SubSeq(t, 1, n)) \o SubSeq(t, n + 1, Len(t)) = s \o t
<1>1. Len(t) \in Nat /\ n \in Nat /\ n <= Len(t) /\ \A i \in 1 .. Len(t) : t[i] \in Lists
  OBVIOUS
<1>2. SubSeq(t, 1, n) \in Seq(Lists)
  <2>1. 1 \in Int /\ n \in Int /\ \A i \in 1 .. n : t[i] \in Lists
    BY <1>1
  <2> QED BY <2>1, SubSeqProperties
<1>3. SubSeq(t, n + 1, Len(t)) \in Seq(Lists)
  <2>1. n + 1 \in Int /\ Len(t) \in Int /\ \A i \in (n + 1) .. Len(t) : t[i] \in Lists
    BY <1>1
  <2> QED BY <2>1, SubSeqProperties
<1>4. SubSeq(t, 1, n) \o SubSeq(t, n + 1, Len(t)) = SubSeq(t, 1, Len(t))
  <2>1. 1 \in 1 .. Len(t) + 1 /\ n \in (1 - 1) .. Len(t) /\ Len(t) \in n .. Len(t)
    BY <1>1
  <2> QED BY <2>1, ConcatAdjacentSubSeq
<1>5. SubSeq(t, 1, Len(t)) = t
  BY SubSeqFull
<1> DEFINE a == SubSeq(t, 1, n)
           b == SubSeq(t, n + 1, Len(t))
<1>6. a \in Seq(Lists) /\ b \in Seq(Lists) /\ a \o b = t
  BY <1>2, <1>3, <1>4, <1>5
<1> HIDE DEF a, b
<1>7. (s \o a) \o b = s \o (a \o b)
  <2>1. \A u, v, w \in Seq(Lists) : (u \o v) \o w = u \o (v \o w)
    BY ConcatAssociative
  <2> QED BY ONLY <1>6, <2>1, s \in Seq(Lists)
<1> QED BY <1>6, <1>7 DEF a, b

\* The pending tasks become a list, run or queued.
LEMMA TasksListed ==
    ASSUME TasksInv, NEW x \in Lists, x.tasks = pending, Types',
           ran' \o entries' = Append(ran \o entries, x), pending' = <<>>, enqueued' = enqueued
    PROVE  TasksInv'
<1> DEFINE s == ran \o entries
<1>1. s \in Seq(Lists)
  BY TasksTypes, ConcatProperties DEF TasksInv, Types
<1>2. ran' \o entries' = Append(s, x) /\ Consecutive(Append(TasksIn(s), x.tasks), enqueued)
  BY DEF TasksInv
<1> HIDE DEF s
<1>3. TasksIn(Append(s, x)) = Append(TasksIn(s), x.tasks)
  BY <1>1, TasksInAppend
<1>4. TasksIn(Append(s, x)) \in Seq(Seq(Nat))
  BY <1>1, AppendProperties, TasksInProperties
<1>5. Consecutive(Append(TasksIn(Append(s, x)), <<>>), enqueued)
  BY <1>2, <1>3, <1>4, ConsecutiveEmpty
<1> QED BY <1>2, <1>5 DEF TasksInv

\* A task more is pending.
LEMMA TasksEnqueue ==
    ASSUME TasksInv, EnqueueCleanupTaskForSubmittedWork
    PROVE  TasksInv'
<1> DEFINE s == TasksIn(ran \o entries)
<1>1. /\ enqueued' = enqueued + 1 /\ pending' = Append(pending, enqueued + 1)
      /\ entries' = entries /\ ran' = ran /\ enqueued < MaxTasks
  BY DEF EnqueueCleanupTaskForSubmittedWork
<1>2. enqueued + 1 \in Tasks /\ enqueued + 1 \in 0 .. MaxTasks
  BY <1>1, BoundsAssumption DEF TasksInv, Types, Tasks
<1>3. Types'
  BY <1>1, <1>2, AppendProperties DEF TasksInv, Types
<1>4. s \in Seq(Seq(Nat)) /\ pending \in Seq(Nat)
  BY TasksTypes, ConcatProperties, TasksInProperties DEF TasksInv, Types
<1>5. Consecutive(Append(s, pending), enqueued)
  BY DEF TasksInv
<1>6. s' = s
  BY <1>1
<1> HIDE DEF s
<1>7. Consecutive(Append(s, Append(pending, enqueued + 1)), enqueued + 1)
  BY <1>4, <1>5, ConsecutiveGrows
<1>8. Consecutive(Append(s, pending'), enqueued')
  BY <1>1, <1>7
<1> QED BY <1>3, <1>6, <1>8 DEF TasksInv, s

\* A generation is opened.
LEMMA TasksOpen ==
    ASSUME TasksInv, NEW fence \in BOOLEAN, next \in Generations, Open(fence),
           UNCHANGED <<ran, enqueued>>
    PROVE  TasksInv'
<1> DEFINE x == TasksForFence(next, fence, pending)
<1>1. entries' = Append(entries, x) /\ pending' = <<>>
  BY DEF Open
<1>2. x \in Entry /\ x \in Lists /\ x.tasks = pending
  BY TasksTypes DEF Entry, TasksForFence, TasksInv, Types
<1>3. entries \in Seq(Lists) /\ ran \in Seq(Lists) /\ entries \in Seq(Entry)
  BY TasksTypes DEF TasksInv, Types
<1> HIDE DEF x
<1>4. ran' \o entries' = Append(ran \o entries, x)
  BY <1>1, <1>2, <1>3, AppendBehind
<1>5. entries' \in Seq(Entry)
  BY <1>1, <1>2, <1>3, AppendProperties
<1>6. Types'
  BY <1>1, <1>5 DEF TasksInv, Types
<1> QED BY <1>1, <1>2, <1>4, <1>6, TasksListed

\* Everything is run at once.
LEMMA TasksImmediate ==
    ASSUME TasksInv, PerformImmediateCleanup, enqueued' = enqueued
    PROVE  TasksInv'
<1>1. CASE UNCHANGED <<entries, pending, ran>>
  BY <1>1 DEF TasksInv, Types
<1>2. CASE ran' = Append(ran \o entries, Rest) /\ entries' = <<>> /\ pending' = <<>>
  <2>1. Rest \in Lists /\ Rest.tasks = pending
    BY BoundsAssumption DEF Rest, TasksForFence, Lists, TasksInv, Types
  <2>2. entries \in Seq(Lists) /\ ran \in Seq(Lists)
    BY TasksTypes DEF TasksInv, Types
  <2>3. ran' \in Seq(Lists) /\ ran' \o entries' = Append(ran \o entries, Rest)
    BY <1>2, <2>1, <2>2, AppendBehind
  <2>4. Types'
    BY <1>2, <2>3 DEF TasksInv, Types
  <2> QED BY <1>2, <2>1, <2>3, <2>4, TasksListed
<1> QED BY <1>1, <1>2 DEF PerformImmediateCleanup

\* The front of the queue is run.
LEMMA TasksRetire ==
    ASSUME TasksInv, NEW n \in 0 .. Len(entries), UNCHANGED <<pending, enqueued>>,
           ran' = ran \o SubSeq(entries, 1, n), entries' = SubSeq(entries, n + 1, Len(entries))
    PROVE  TasksInv'
<1>1. entries \in Seq(Lists) /\ ran \in Seq(Lists) /\ entries \in Seq(Entry)
  BY TasksTypes DEF TasksInv, Types
<1>2. SubSeq(entries, 1, n) \in Seq(Lists) /\ ran' \o entries' = ran \o entries
  BY <1>1, MoveBehind
<1>3. ran' \in Seq(Lists)
  BY <1>1, <1>2, ConcatProperties
<1>4. entries' \in Seq(Entry)
  <2>1. /\ n + 1 \in Int /\ Len(entries) \in Int
        /\ \A i \in (n + 1) .. Len(entries) : entries[i] \in Entry
    BY <1>1
  <2> QED BY <2>1, SubSeqProperties
<1>5. Types'
  BY <1>3, <1>4 DEF TasksInv, Types
<1> QED BY <1>2, <1>5 DEF TasksInv

-----------------------------------------------------------------------------
(* Generations.                                                            *)

\* Generations are queued in their order, above the current one, and only what
\* the GPU has finished is signaled, destroyed or current.
GensInv ==
    /\ next \in 1 .. MaxGenerations + 1 /\ current \in 0 .. next - 1 /\ done \in 0 .. next - 1
    /\ callbacks \subseteq 1 .. next - 1 /\ lost \in BOOLEAN
    /\ destroyed \subseteq 1 .. current /\ signaled \subseteq 1 .. done
    /\ \A i \in 1 .. Len(entries) : current < entries[i].gen /\ entries[i].gen < next
    /\ \A i, j \in 1 .. Len(entries) : i < j => entries[i].gen < entries[j].gen
    /\ \A i \in 1 .. Len(ran) : ran[i].gen <= current
    /\ destroyed \subseteq signaled \/ lost
    /\ lost \/ current <= done

\* What Wait() may be blocked on.
HandleInv ==
    /\ waiting \in 0 .. MaxGenerations /\ alive \in BOOLEAN
    /\ waiting # 0 => waiting \in FenceGens(entries)

\* A handle that has not passed still has its fence.
HandlesKept ==
    \A g \in {0} \cup destroyed \cup FenceGens(entries) : current' < g => g \in FenceGens(entries')

Inv == TasksInv /\ GensInv /\ HandleInv

\* The generations that have a fence.
LEMMA FenceGensIs == \A es, g : g \in FenceGens(es) <=> \E i \in 1 .. Len(es) : es[i].fence /\ es[i].gen = g
  BY DEF FenceGens

\* Generations are numbers, those with a queued fence above the current one.
LEMMA GensNumbers ==
    ASSUME Types, GensInv
    PROVE  /\ next \in Nat /\ current \in Nat /\ done \in Nat
           /\ Len(entries) \in Nat /\ Len(ran) \in Nat
           /\ \A i \in 1 .. Len(entries) : entries[i].gen \in Nat /\ entries[i].gen >= 1
           /\ \A i \in 1 .. Len(ran) : ran[i].gen \in Nat
           /\ \A g \in FenceGens(entries) : g \in Nat /\ current < g /\ g < next /\ g >= 1
<1>1. next \in Nat /\ current \in Nat /\ done \in Nat /\ Len(entries) \in Nat /\ Len(ran) \in Nat
  BY BoundsAssumption DEF Types, GensInv
<1>2. \A i \in 1 .. Len(entries) : entries[i].gen \in Nat /\ entries[i].gen >= 1
  <2>1. \A i \in 1 .. Len(entries) : entries[i] \in Entry
    BY DEF Types
  <2>2. \A x \in Entry : x.gen \in Nat /\ x.gen >= 1
    BY BoundsAssumption DEF Entry, Generations
  <2> QED BY <2>1, <2>2
<1>3. \A i \in 1 .. Len(ran) : ran[i].gen \in Nat
  <2>1. \A i \in 1 .. Len(ran) : ran[i] \in Lists
    BY DEF Types
  <2>2. \A x \in Lists : x.gen \in Nat
    BY BoundsAssumption DEF Lists
  <2> QED BY <2>1, <2>2
<1>4. \A g \in FenceGens(entries) : g \in Nat /\ current < g /\ g < next /\ g >= 1
  <2> TAKE g \in FenceGens(entries)
  <2>1. PICK i \in 1 .. Len(entries) : entries[i].gen = g
    BY FenceGensIs
  <2>2. current < entries[i].gen /\ entries[i].gen < next
    BY DEF GensInv
  <2> QED BY <1>2, <2>1, <2>2
<1> QED BY <1>1, <1>2, <1>3, <1>4

\* The loop over the fences ends with a generation not below the current one,
\* whose fences are all signaled and which the GPU has finished.
LEMMA RetiredIs ==
    ASSUME Types, GensInv, NEW asked \in Nat, current <= asked, asked < next, lost \/ asked <= done
    PROVE  /\ Retired(asked) \in Nat /\ current <= Retired(asked) /\ Retired(asked) < next
           /\ \A g \in FenceGens(entries) : g <= Retired(asked) => g \in signaled
           /\ lost \/ Retired(asked) <= done
<1> DEFINE fences  == FenceGens(entries)
           unready == fences \ signaled
           seen    == {g \in fences : \A u \in unready : g < u}
           M       == Max({asked} \cup seen)
           all     == {M} \cup {u - 1 : u \in unready}
           r       == Min(all)
<1>1. /\ next \in Nat /\ current \in Nat /\ done \in Nat
      /\ \A g \in fences : g \in Nat /\ current < g /\ g < next /\ g >= 1
  BY GensNumbers
<1>2. Retired(asked) = r
  BY DEF Retired
<1> HIDE DEF fences
<1>3. M \in {asked} \cup seen /\ asked <= M
  <2> DEFINE S == {asked} \cup seen
  <2>1. S \subseteq 0 .. next /\ S # {} /\ asked \in S
    BY <1>1
  <2> HIDE DEF S
  <2>2. Max(S) \in S /\ \A y \in S : y <= Max(S)
    BY <1>1, <2>1, MaxIsGreatest
  <2>3. Max(S) \in S /\ asked <= Max(S)
    BY <2>1, <2>2
  <2> QED BY <2>3 DEF S
<1> HIDE DEF M
<1>4. M \in Nat /\ M < next /\ current <= M
  BY <1>1, <1>3
<1>5. r \in all /\ \A y \in all : r <= y
  <2>1. all \subseteq Nat /\ all # {}
    <3>1. \A u \in unready : u - 1 \in Nat
      BY <1>1
    <3> QED BY <1>4, <3>1
  <2> QED BY <2>1, MinIsLeast
<1> HIDE DEF r
<1>6. r <= M /\ \A u \in unready : r <= u - 1
  BY <1>5
<1>7. r \in Nat /\ current <= r /\ r < next
  <2>1. CASE r = M
    BY <1>4, <2>1
  <2>2. CASE \E u \in unready : r = u - 1
    BY <1>1, <2>2
  <2> QED BY <1>5, <2>1, <2>2
<1>8. \A g \in fences : g <= r => g \in signaled
  <2> SUFFICES ASSUME NEW g \in fences, g <= r, g \notin signaled PROVE FALSE
    OBVIOUS
  <2>1. r <= g - 1
    BY <1>6
  <2> QED BY <1>1, <1>7, <2>1
<1>9. lost \/ r <= done
  <2> SUFFICES ASSUME ~lost PROVE r <= done
    OBVIOUS
  <2>1. CASE M = asked
    <3>1. asked <= done
      OBVIOUS
    <3> QED BY <1>1, <1>4, <1>6, <1>7, <2>1, <3>1
  <2>2. CASE M \in seen
    <3>1. M \in signaled
      BY <1>4, <2>2
    <3>2. M <= done
      BY <3>1 DEF GensInv
    <3> QED BY <1>1, <1>4, <1>6, <1>7, <3>2
  <2> QED BY <1>3, <2>1, <2>2
<1> QED BY <1>2, <1>7, <1>8, <1>9 DEF fences

\* What leaves the queue is what is not above the retired generation.
LEMMA LeavingIs ==
    ASSUME Types, GensInv, NEW r \in Nat
    PROVE  /\ Leaving(r) \in 0 .. Len(entries)
           /\ \A i \in 1 .. Leaving(r) : entries[i].gen <= r
           /\ \A i \in Leaving(r) + 1 .. Len(entries) : entries[i].gen > r
<1> DEFINE S == {n \in 0 .. Len(entries) : \A i \in 1 .. n : entries[i].gen <= r}
           n == Max(S)
<1>1. Len(entries) \in Nat
  BY GensNumbers
<1>2. 0 \in S
  BY <1>1
<1>3. S \subseteq 0 .. Len(entries)
  OBVIOUS
<1>4. n \in S /\ \A m \in S : m <= n
  <2> HIDE DEF S
  <2> QED BY <1>1, <1>2, <1>3, MaxIsGreatest
<1>5. Leaving(r) = n
  BY DEF Leaving
<1> HIDE DEF n
<1>6. n \in 0 .. Len(entries) /\ \A i \in 1 .. n : entries[i].gen <= r
  BY <1>4
<1>7. \A i \in n + 1 .. Len(entries) : entries[i].gen > r
  <2>1. CASE n = Len(entries)
    BY <1>1, <2>1
  <2>2. CASE n < Len(entries)
    <3>1. n + 1 \in 0 .. Len(entries) /\ n + 1 \in 1 .. Len(entries) /\ ~(n + 1 <= n)
      BY <1>1, <1>6, <2>2
    <3>2. n + 1 \notin S
      BY <1>4, <3>1
    <3>3. PICK k \in 1 .. n + 1 : ~(entries[k].gen <= r)
      BY <3>1, <3>2
    <3>4. k = n + 1
      BY <1>6, <3>3
    <3>5. entries[n + 1].gen \in Nat /\ entries[n + 1].gen > r
      BY <3>1, <3>3, <3>4, GensNumbers
    <3>6. \A i \in n + 1 .. Len(entries) : i = n + 1 \/ entries[n + 1].gen < entries[i].gen
      BY <1>1, <1>6, <3>1 DEF GensInv
    <3>7. \A i \in n + 1 .. Len(entries) : i \in 1 .. Len(entries) /\ entries[i].gen \in Nat
      BY <1>1, <1>6, GensNumbers
    <3> QED BY <3>5, <3>6, <3>7
  <2> QED BY <1>1, <1>6, <2>1, <2>2
<1> QED BY <1>5, <1>6, <1>7

\* The front of the queue is retired.
LEMMA GensRetire ==
    ASSUME Types, GensInv, NEW r \in Nat, current <= r, r < next, lost \/ r <= done,
           \A g \in FenceGens(entries) : g <= r => g \in signaled,
           Retire(r), next' = next, callbacks' \subseteq callbacks
    PROVE  GensInv' /\ HandlesKept
<1> DEFINE n    == Leaving(r)
           L    == Len(entries)
           gone == SubSeq(entries, 1, n)
           left == SubSeq(entries, n + 1, L)
<1>1. /\ current' = r /\ entries' = left /\ ran' = ran \o gone
      /\ destroyed' = destroyed \cup FenceGens(gone)
      /\ done' = done /\ signaled' = signaled /\ lost' = lost
  BY DEF Retire, gpu
<1>2. /\ n \in 0 .. L
      /\ \A i \in 1 .. n : entries[i].gen <= r
      /\ \A i \in n + 1 .. L : entries[i].gen > r
  BY LeavingIs
<1>3. /\ next \in Nat /\ current \in Nat /\ done \in Nat /\ L \in Nat /\ Len(ran) \in Nat
      /\ \A i \in 1 .. L : entries[i].gen \in Nat
      /\ \A i \in 1 .. Len(ran) : ran[i].gen \in Nat
      /\ \A g \in FenceGens(entries) : g \in Nat /\ current < g /\ g < next /\ g >= 1
  BY GensNumbers
<1> HIDE DEF n
<1>4. entries \in Seq(Lists) /\ ran \in Seq(Lists)
  BY TasksTypes DEF Types
<1>5. gone \in Seq(Lists) /\ Len(gone) = n /\ \A i \in 1 .. n : gone[i] = entries[i]
  <2>1. 1 \in Int /\ n \in Int /\ \A i \in 1 .. n : entries[i] \in Lists
    BY <1>2, <1>3, <1>4
  <2>2. /\ gone \in Seq(Lists) /\ Len(gone) = IF 1 <= n THEN n - 1 + 1 ELSE 0
        /\ \A i \in 1 .. n - 1 + 1 : gone[i] = entries[1 + i - 1]
    BY <1>4, <2>1, SubSeqProperties
  <2>3. n - 1 + 1 = n /\ \A i \in 1 .. n : 1 + i - 1 = i
    BY <1>2, <1>3
  <2>4. Len(gone) = n
    BY <1>2, <1>3, <2>2
  <2> HIDE DEF gone
  <2> QED BY <2>2, <2>3, <2>4
<1>6. left \in Seq(Lists) /\ Len(left) = L - n /\ \A i \in 1 .. L - n : left[i] = entries[n + i]
  <2>1. n + 1 \in Int /\ L \in Int /\ \A i \in n + 1 .. L : entries[i] \in Lists
    BY <1>2, <1>3, <1>4
  <2>2. /\ left \in Seq(Lists) /\ Len(left) = IF n + 1 <= L THEN L - (n + 1) + 1 ELSE 0
        /\ \A i \in 1 .. L - (n + 1) + 1 : left[i] = entries[n + 1 + i - 1]
    BY <1>4, <2>1, SubSeqProperties
  <2>3. L - (n + 1) + 1 = L - n /\ \A i \in 1 .. L - n : n + 1 + i - 1 = n + i
    BY <1>2, <1>3
  <2>4. Len(left) = L - n
    BY <1>2, <1>3, <2>2
  <2> HIDE DEF left
  <2> QED BY <2>2, <2>3, <2>4
<1> HIDE DEF gone, left
<1>7. FenceGens(gone) \subseteq signaled /\ FenceGens(gone) \subseteq 1 .. r
  <2> SUFFICES ASSUME NEW g \in FenceGens(gone) PROVE g \in signaled /\ g \in 1 .. r
    OBVIOUS
  <2>1. PICK i \in 1 .. n : gone[i].fence /\ gone[i].gen = g
    BY <1>5, FenceGensIs
  <2>2. i \in 1 .. L /\ entries[i].fence /\ entries[i].gen = g /\ g <= r
    BY <1>2, <1>3, <1>5, <2>1
  <2>3. g \in FenceGens(entries)
    BY <2>2, FenceGensIs
  <2>4. g \in signaled
    BY <2>2, <2>3
  <2>5. g \in Nat /\ g >= 1
    BY <1>3, <2>3
  <2> QED BY <2>2, <2>4, <2>5
<1>8. destroyed' \subseteq 1 .. current'
  <2>1. destroyed \subseteq 1 .. current
    BY DEF GensInv
  <2>2. destroyed \subseteq 1 .. r
    BY <1>3, <2>1
  <2> QED BY <1>1, <1>7, <2>2
<1>9. \A i \in 1 .. Len(entries') : current' < entries'[i].gen /\ entries'[i].gen < next'
  <2> TAKE i \in 1 .. Len(entries')
  <2>1. i \in 1 .. L - n /\ entries'[i] = entries[n + i]
    BY <1>1, <1>6
  <2>2. n + i \in n + 1 .. L /\ n + i \in 1 .. L
    BY <1>2, <1>3, <2>1
  <2>3. entries[n + i].gen > r /\ entries[n + i].gen < next
    BY <1>2, <2>2 DEF GensInv
  <2>4. entries[n + i].gen \in Nat
    BY <1>3, <2>2
  <2> QED BY <1>1, <2>1, <2>3, <2>4
<1>10. \A i, j \in 1 .. Len(entries') : i < j => entries'[i].gen < entries'[j].gen
  <2> TAKE i, j \in 1 .. Len(entries')
  <2>1. i \in 1 .. L - n /\ entries'[i] = entries[n + i] /\ j \in 1 .. L - n /\ entries'[j] = entries[n + j]
    BY <1>1, <1>6
  <2>2. n + i \in 1 .. L /\ n + j \in 1 .. L /\ (i < j => n + i < n + j)
    BY <1>2, <1>3, <2>1
  <2> QED BY <2>1, <2>2 DEF GensInv
<1>11. \A i \in 1 .. Len(ran') : ran'[i].gen <= current'
  <2>1. /\ Len(ran') = Len(ran) + n
        /\ \A i \in 1 .. Len(ran) + n :
              ran'[i] = IF i <= Len(ran) THEN ran[i] ELSE gone[i - Len(ran)]
    BY <1>1, <1>4, <1>5, ConcatProperties
  <2> SUFFICES ASSUME NEW i \in 1 .. Len(ran) + n PROVE ran'[i].gen <= r
    BY <1>1, <2>1
  <2>2. CASE i <= Len(ran)
    <3>1. i \in 1 .. Len(ran) /\ ran'[i] = ran[i]
      BY <1>3, <2>1, <2>2
    <3>2. ran[i].gen <= current /\ ran[i].gen \in Nat
      BY <1>3, <3>1 DEF GensInv
    <3> QED BY <1>3, <3>1, <3>2
  <2>3. CASE ~(i <= Len(ran))
    <3>1. i - Len(ran) \in 1 .. n
      BY <1>2, <1>3, <2>3
    <3>2. ran'[i] = gone[i - Len(ran)]
      BY <2>1, <2>3
    <3>3. ran'[i] = entries[i - Len(ran)]
      BY <1>5, <3>1, <3>2
    <3> QED BY <1>2, <3>1, <3>3
  <2> QED BY <2>2, <2>3
<1>12. destroyed' \subseteq signaled' \/ lost'
  BY <1>1, <1>7 DEF GensInv
<1>13. GensInv'
  <2>1. r \in 0 .. next - 1
    BY <1>3
  <2>2. callbacks' \subseteq 1 .. next - 1
    BY DEF GensInv
  <2>3. next' \in 1 .. MaxGenerations + 1 /\ done' \in 0 .. next' - 1 /\ lost' \in BOOLEAN /\ signaled' \subseteq 1 .. done'
    BY <1>1 DEF GensInv
  <2>4. current' \in 0 .. next' - 1 /\ callbacks' \subseteq 1 .. next' - 1
    BY <1>1, <2>1, <2>2
  <2>5. lost' \/ current' <= done'
    BY <1>1
  <2> QED BY <1>8, <1>9, <1>10, <1>11, <1>12, <2>3, <2>4, <2>5 DEF GensInv
<1>14. HandlesKept
  <2> SUFFICES ASSUME NEW g \in {0} \cup destroyed \cup FenceGens(entries), r < g
               PROVE  g \in FenceGens(entries')
    BY <1>1 DEF HandlesKept
  <2>1. g # 0
    OBVIOUS
  <2>2. g \notin destroyed
    BY <1>1, <1>3, <1>8
  <2>3. g \in FenceGens(entries)
    BY <2>1, <2>2
  <2>4. PICK i \in 1 .. L : entries[i].fence /\ entries[i].gen = g
    BY <2>3, FenceGensIs
  <2>5. i \notin 1 .. n
    BY <1>2, <1>3, <2>4
  <2>6. i - n \in 1 .. L - n /\ n + (i - n) = i
    BY <1>2, <1>3, <2>5
  <2>7. i - n \in 1 .. Len(entries') /\ entries'[i - n] = entries[i]
    BY <1>1, <1>6, <2>6
  <2> QED BY <2>4, <2>7, FenceGensIs
<1> QED BY <1>13, <1>14

\* Everything is run at once, after the queue was waited for.
LEMMA GensImmediate ==
    ASSUME Types, GensInv, PerformImmediateCleanup, next' = next, callbacks' \subseteq callbacks
    PROVE  GensInv' /\ HandlesKept
<1>1. /\ next \in Nat /\ current \in Nat /\ done \in Nat /\ Len(entries) \in Nat /\ Len(ran) \in Nat
      /\ \A i \in 1 .. Len(entries) : entries[i].gen \in Nat
      /\ \A i \in 1 .. Len(ran) : ran[i].gen \in Nat
      /\ \A g \in FenceGens(entries) : g \in Nat /\ current < g /\ g < next /\ g >= 1
  BY GensNumbers
<1>2. callbacks' \subseteq 1 .. next - 1 /\ destroyed \subseteq 1 .. current
  BY DEF GensInv
<1>3. CASE UNCHANGED <<current, entries, pending, ran, destroyed, gpu>>
  <2>1. GensInv'
    BY <1>2, <1>3 DEF GensInv, gpu
  <2>2. HandlesKept
    BY <1>1, <1>2, <1>3 DEF HandlesKept
  <2> QED BY <2>1, <2>2
<1>4. CASE /\ current' = next - 1
           /\ ran' = Append(ran \o entries, Rest)
           /\ destroyed' = destroyed \cup FenceGens(entries)
           /\ entries' = <<>> /\ pending' = <<>>
           /\ IF lost THEN UNCHANGED <<done, signaled>>
              ELSE done' = next - 1 /\ signaled' = signaled \cup FenceGens(entries)
           /\ UNCHANGED lost
  <2>1. current' \in Nat /\ current <= current' /\ current' \in 0 .. next - 1
    BY <1>1, <1>4 DEF GensInv
  <2>2. FenceGens(entries) \subseteq 1 .. next - 1
    BY <1>1
  <2>3. destroyed' \subseteq 1 .. current'
    <3>1. 1 .. current \subseteq 1 .. next - 1
      BY <1>1, <1>4, <2>1
    <3>2. destroyed \subseteq 1 .. next - 1
      BY <1>2, <3>1
    <3>3. destroyed' = destroyed \cup FenceGens(entries) /\ current' = next - 1
      BY <1>4
    <3> QED BY <2>2, <3>2, <3>3
  <2>4. FenceGens(entries') = {} /\ Len(entries') = 0
    BY <1>4 DEF FenceGens
  <2>5. /\ done' \in 0 .. next - 1 /\ signaled' \subseteq 1 .. done'
        /\ destroyed' \subseteq signaled' \/ lost'
        /\ lost' \/ current' <= done'
        /\ lost' \in BOOLEAN
    <3>1. CASE lost
      BY <1>4, <3>1 DEF GensInv
    <3>2. CASE ~lost
      <4>1. done' = next - 1 /\ signaled' = signaled \cup FenceGens(entries) /\ lost' = lost
        BY <1>4, <3>2
      <4>2. signaled \subseteq 1 .. next - 1 /\ destroyed \subseteq signaled /\ lost \in BOOLEAN
        BY <1>1, <3>2 DEF GensInv
      <4>3. done' \in 0 .. next - 1 /\ signaled' \subseteq 1 .. done'
        <5>1. done' = current'
          BY <1>4, <4>1
        <5>2. signaled' \subseteq 1 .. next - 1
          BY <2>2, <4>1, <4>2
        <5> QED BY <2>1, <4>1, <5>1, <5>2
      <4>4. destroyed' \subseteq signaled'
        BY <1>4, <4>1, <4>2
      <4>5. current' <= done'
        BY <1>4, <2>1, <4>1
      <4> QED BY <4>1, <4>2, <4>3, <4>4, <4>5
    <3> QED BY <3>1, <3>2
  <2>6. \A i \in 1 .. Len(ran') : ran'[i].gen <= current'
    <3> DEFINE s == ran \o entries
    <3>1. entries \in Seq(Lists) /\ ran \in Seq(Lists)
      BY TasksTypes DEF Types
    <3>2. /\ s \in Seq(Lists) /\ Len(s) = Len(ran) + Len(entries)
          /\ \A i \in 1 .. Len(ran) + Len(entries) :
                s[i] = IF i <= Len(ran) THEN ran[i] ELSE entries[i - Len(ran)]
      BY <3>1, ConcatProperties
    <3> HIDE DEF s
    <3>3. Rest \in Lists /\ Rest.gen = 0
      BY BoundsAssumption DEF Rest, TasksForFence, Lists, Types
    <3>4. /\ Len(ran') = Len(s) + 1 /\ ran'[Len(s) + 1] = Rest
          /\ \A i \in 1 .. Len(s) : ran'[i] = s[i]
      BY <1>4, <3>2, <3>3, AppendProperties DEF s
    <3>5. \A i \in 1 .. Len(s) : s[i].gen <= current'
      <4> TAKE i \in 1 .. Len(s)
      <4>1. CASE i <= Len(ran)
        <5>1. i \in 1 .. Len(ran) /\ s[i] = ran[i]
          BY <1>1, <3>2, <4>1
        <5>2. ran[i].gen <= current /\ ran[i].gen \in Nat
          BY <1>1, <5>1 DEF GensInv
        <5> QED BY <1>1, <2>1, <5>1, <5>2
      <4>2. CASE ~(i <= Len(ran))
        <5>1. i - Len(ran) \in 1 .. Len(entries) /\ s[i] = entries[i - Len(ran)]
          BY <1>1, <3>2, <4>2
        <5>2. entries[i - Len(ran)].gen < next /\ entries[i - Len(ran)].gen \in Nat
          BY <1>1, <5>1 DEF GensInv
        <5> QED BY <1>1, <1>4, <5>1, <5>2
      <4> QED BY <4>1, <4>2
    <3> SUFFICES ASSUME NEW i \in 1 .. Len(s) + 1 PROVE ran'[i].gen <= current'
      BY <3>4
    <3>6. CASE i = Len(s) + 1
      BY <2>1, <3>3, <3>4, <3>6
    <3>7. CASE i # Len(s) + 1
      <4>1. i \in 1 .. Len(s)
        BY <3>2, <3>7
      <4> QED BY <3>4, <3>5, <4>1
    <3> QED BY <3>6, <3>7
  <2>7. GensInv'
    <3>1. next' \in 1 .. MaxGenerations + 1 /\ callbacks' \subseteq 1 .. next' - 1
      BY <1>2 DEF GensInv
    <3>2. current' \in 0 .. next' - 1 /\ done' \in 0 .. next' - 1
      BY <2>1, <2>5
    <3>3. 1 .. Len(entries') = {}
      BY <2>4
    <3> QED BY <2>3, <2>5, <2>6, <3>1, <3>2, <3>3 DEF GensInv
  <2>8. HandlesKept
    <3> SUFFICES ASSUME NEW g \in {0} \cup destroyed \cup FenceGens(entries), current' < g PROVE FALSE
      BY DEF HandlesKept
    <3>1. g # 0
      BY <2>1
    <3>2. g \notin destroyed
      BY <1>4, <2>1, <2>3
    <3>3. g \in FenceGens(entries)
      BY <3>1, <3>2
    <3> QED BY <1>1, <1>4, <3>3
  <2> QED BY <2>7, <2>8
<1> QED BY <1>3, <1>4 DEF PerformImmediateCleanup

\* Cleaning up to a generation the GPU has finished, or the current one.
LEMMA Cleanup ==
    ASSUME TasksInv, GensInv, NEW asked \in Nat, asked = 0 \/ current <= asked, asked < next,
           lost \/ asked <= done, ProcessCleanupTasks(asked),
           UNCHANGED <<next, enqueued>>, callbacks' \subseteq callbacks
    PROVE  TasksInv' /\ GensInv' /\ HandlesKept
<1>1. Types /\ next' = next /\ enqueued' = enqueued
  BY DEF TasksInv
<1> DEFINE a == IF asked = 0 THEN current ELSE asked
<1>2. a \in Nat /\ current <= a /\ a < next /\ (lost \/ a <= done)
  <2>1. current \in Nat /\ current < next
    BY <1>1, GensNumbers DEF GensInv
  <2>2. lost \/ current <= done
    BY DEF GensInv
  <2>3. CASE asked = 0
    BY <2>1, <2>2, <2>3
  <2>4. CASE asked # 0
    BY <2>4
  <2> QED BY <2>3, <2>4
<1>3. CASE Retire(Retired(a))
  <2> HIDE DEF a
  <2> DEFINE r == Retired(a)
  <2>1. /\ r \in Nat /\ current <= r /\ r < next
        /\ \A g \in FenceGens(entries) : g <= r => g \in signaled
        /\ lost \/ r <= done
    BY <1>1, <1>2, RetiredIs
  <2>2. Retire(r)
    BY <1>3
  <2> HIDE DEF r
  <2>3. GensInv' /\ HandlesKept
    BY <1>1, <2>1, <2>2, GensRetire
  <2>4. Leaving(r) \in 0 .. Len(entries)
    BY <1>1, <2>1, LeavingIs
  <2>5. /\ ran' = ran \o SubSeq(entries, 1, Leaving(r)) /\ UNCHANGED <<pending, enqueued>>
        /\ entries' = SubSeq(entries, Leaving(r) + 1, Len(entries))
    BY <1>1, <2>2 DEF Retire
  <2>6. TasksInv'
    BY <2>4, <2>5, TasksRetire
  <2> QED BY <2>3, <2>6
<1>4. CASE PerformImmediateCleanup
  BY <1>1, <1>4, TasksImmediate, GensImmediate
<1> QED BY <1>3, <1>4 DEF ProcessCleanupTasks

\* A generation is opened behind the others.
LEMMA GensOpen ==
    ASSUME Types, GensInv, NEW fence \in BOOLEAN, next <= MaxGenerations, Open(fence),
           callbacks' \subseteq callbacks \cup {next},
           UNCHANGED <<current, ran, destroyed, done, signaled, lost>>
    PROVE  GensInv' /\ FenceGens(entries) \subseteq FenceGens(entries')
<1> DEFINE x == TasksForFence(next, fence, pending)
           L == Len(entries)
<1>1. /\ next \in Nat /\ current \in Nat /\ done \in Nat /\ L \in Nat
      /\ \A i \in 1 .. L : entries[i].gen \in Nat
  BY GensNumbers
<1>2. next \in Generations
  BY <1>1 DEF GensInv, Generations
<1>3. x \in Entry /\ x.gen = next
  BY <1>2 DEF Entry, TasksForFence, Types
<1>4. next' = next + 1 /\ entries' = Append(entries, x)
  BY DEF Open
<1> HIDE DEF x
<1>5. /\ Len(entries') = L + 1 /\ entries'[L + 1] = x
      /\ \A i \in 1 .. L : entries'[i] = entries[i]
  <2>1. entries \in Seq(Entry)
    BY DEF Types
  <2> QED BY <1>3, <1>4, <2>1, AppendProperties
<1> HIDE DEF L
<1>6. \A i \in 1 .. L + 1 : i \in 1 .. L \/ i = L + 1
  BY <1>1
<1>7. \A i \in 1 .. L : current < entries[i].gen /\ entries[i].gen < next
  BY DEF GensInv, L
<1>8. \A i \in 1 .. L + 1 : current < entries'[i].gen /\ entries'[i].gen < next + 1
  <2> TAKE i \in 1 .. L + 1
  <2>1. CASE i \in 1 .. L
    BY <1>1, <1>5, <1>7, <2>1
  <2>2. CASE i = L + 1
    <3>1. current < next
      BY <1>1 DEF GensInv
    <3> QED BY <1>1, <1>3, <1>5, <2>2, <3>1
  <2> QED BY <1>6, <2>1, <2>2
<1>9. \A i, j \in 1 .. L + 1 : i < j => entries'[i].gen < entries'[j].gen
  <2> SUFFICES ASSUME NEW i \in 1 .. L + 1, NEW j \in 1 .. L + 1, i < j
               PROVE  entries'[i].gen < entries'[j].gen
    OBVIOUS
  <2>1. i \in 1 .. L
    BY <1>1
  <2>2. CASE j \in 1 .. L
    BY <1>5, <2>1, <2>2 DEF GensInv, L
  <2>3. CASE j = L + 1
    BY <1>3, <1>5, <1>7, <2>1, <2>3
  <2> QED BY <1>6, <2>2, <2>3
<1>10. GensInv'
  <2>1. next' \in 1 .. MaxGenerations + 1
    BY <1>1, <1>4, BoundsAssumption
  <2>2. current' \in 0 .. next' - 1 /\ done' \in 0 .. next' - 1
    BY <1>1, <1>4 DEF GensInv
  <2>3. callbacks' \subseteq 1 .. next' - 1
    <3>1. callbacks \subseteq 1 .. next - 1 /\ next >= 1
      BY DEF GensInv
    <3>2. callbacks' \subseteq 1 .. next
      BY <1>1, <3>1
    <3>3. next' - 1 = next
      BY <1>1, <1>4
    <3> QED BY <3>2, <3>3
  <2>4. /\ \A i \in 1 .. Len(entries') : current' < entries'[i].gen /\ entries'[i].gen < next'
        /\ \A i, j \in 1 .. Len(entries') : i < j => entries'[i].gen < entries'[j].gen
    BY <1>4, <1>5, <1>8, <1>9
  <2> QED BY <2>1, <2>2, <2>3, <2>4 DEF GensInv
<1>11. FenceGens(entries) \subseteq FenceGens(entries')
  <2> SUFFICES ASSUME NEW g \in FenceGens(entries) PROVE g \in FenceGens(entries')
    OBVIOUS
  <2>1. PICK i \in 1 .. L : entries[i].fence /\ entries[i].gen = g
    BY FenceGensIs DEF L
  <2>2. i \in 1 .. Len(entries') /\ entries'[i] = entries[i]
    BY <1>1, <1>5
  <2> QED BY <2>1, <2>2, FenceGensIs
<1> QED BY <1>10, <1>11

-----------------------------------------------------------------------------
(* The steps.                                                              *)

\* The helper starts in such a state.
LEMMA InvInit == Init => Inv
<1> SUFFICES ASSUME Init PROVE Inv
  OBVIOUS
<1>1. Types
  BY BoundsAssumption DEF Init, Types
<1>2. Consecutive(Append(TasksIn(ran \o entries), pending), enqueued)
  <2>1. ran \o entries = <<>> /\ pending = <<>> /\ enqueued = 0
    BY DEF Init
  <2>2. TasksIn(<<>>) = <<>>
    BY DEF TasksIn
  <2>3. <<>> \in Seq(Seq(Nat)) /\ Consecutive(<<>>, 0)
    <3>1. EndsAt(<<>>, 0, [i \in 0 .. 0 |-> 0])
      BY DEF EndsAt
    <3> QED BY <3>1 DEF Consecutive
  <2>4. Consecutive(Append(<<>>, <<>>), 0)
    BY <2>3, ConsecutiveEmpty
  <2> QED BY <2>1, <2>2, <2>4
<1>3. GensInv
  <2>1. 1 \in 1 .. MaxGenerations + 1 /\ 0 \in 0 .. 1 - 1
    BY BoundsAssumption
  <2>2. 1 .. Len(entries) = {} /\ 1 .. Len(ran) = {}
    BY DEF Init
  <2>3. callbacks = {} /\ destroyed = {} /\ signaled = {}
    BY DEF Init
  <2>4. next = 1 /\ current = 0 /\ done = 0 /\ lost = FALSE
    BY DEF Init
  <2>5. /\ next \in 1 .. MaxGenerations + 1 /\ current \in 0 .. next - 1 /\ done \in 0 .. next - 1
        /\ destroyed \subseteq 1 .. current /\ signaled \subseteq 1 .. done /\ callbacks \subseteq 1 .. next - 1
        /\ current <= done /\ destroyed \subseteq signaled
    BY <2>1, <2>3, <2>4
  <2>6. lost \in BOOLEAN
    BY <2>4
  <2>7. /\ \A i \in 1 .. Len(entries) : current < entries[i].gen /\ entries[i].gen < next
        /\ \A i, j \in 1 .. Len(entries) : i < j => entries[i].gen < entries[j].gen
        /\ \A i \in 1 .. Len(ran) : ran[i].gen <= current
    BY <2>2
  <2> QED BY <2>5, <2>6, <2>7 DEF GensInv
<1>4. HandleInv
  BY BoundsAssumption DEF Init, HandleInv
<1> QED BY <1>1, <1>2, <1>3, <1>4 DEF Inv, TasksInv

\* The tasks stay the same where no task moves.
LEMMA TasksSame ==
    ASSUME TasksInv, UNCHANGED <<entries, ran, pending, enqueued>>
    PROVE  TasksInv'
BY DEF TasksInv, Types

\* A step of the GPU: nothing is signaled that is not finished.
LEMMA GensGpu ==
    ASSUME Types, GensInv, UNCHANGED <<next, current, entries, ran, destroyed, callbacks>>,
           done' \in done .. next - 1, signaled' \subseteq 1 .. done', signaled \subseteq signaled',
           lost' \in BOOLEAN, lost => lost'
    PROVE  GensInv'
<1>1. current \in Nat /\ done \in Nat /\ next \in Nat
  BY GensNumbers
<1>2. done' \in 0 .. next - 1 /\ (current <= done => current <= done')
  BY <1>1
<1>3. destroyed' \subseteq signaled' \/ lost'
  BY DEF GensInv
<1>4. lost' \/ current' <= done'
  BY <1>2 DEF GensInv
<1> QED BY <1>2, <1>3, <1>4 DEF GensInv

\* Every step of the helper keeps the invariant.
LEMMA InvHelper ==
    ASSUME Inv,
           \/ EnqueueCleanupTaskForSubmittedWork \/ EnqueueFence \/ GenerateCleanupFence
           \/ CreateExternalCallback \/ ExternalCallback
           \/ HasPassed \/ Wait \/ WaitReturns \/ Destroy
    PROVE  Inv'
<1>0. TasksInv /\ Types /\ GensInv /\ HandleInv
  BY DEF Inv, TasksInv
<1>1. /\ next \in Nat /\ current \in Nat /\ done \in Nat
      /\ \A g \in FenceGens(entries) : g \in Nat
  BY <1>0, GensNumbers
<1>2. 0 < next /\ (lost \/ 0 <= done)
  BY <1>0, <1>1 DEF GensInv
<1>3. ASSUME ProcessCleanupTasks(0), UNCHANGED <<next, enqueued, callbacks>>
      PROVE  TasksInv' /\ GensInv' /\ HandlesKept
  BY <1>0, <1>2, <1>3, Cleanup
<1>4. ASSUME next <= MaxGenerations, NEW fence \in BOOLEAN, Open(fence),
             callbacks' \subseteq callbacks \cup {next},
             UNCHANGED <<current, enqueued, ran, destroyed, gpu>>
      PROVE  TasksInv' /\ GensInv'
  <2>1. next \in Generations
    BY <1>0, <1>1, <1>4 DEF GensInv, Generations
  <2>2. TasksInv'
    BY <1>0, <1>4, <2>1, TasksOpen
  <2>3. UNCHANGED <<current, ran, destroyed, done, signaled, lost>>
    BY <1>4 DEF gpu
  <2>4. GensInv'
    BY <1>0, <1>4, <2>3, GensOpen
  <2> QED BY <2>2, <2>4
<1>5. CASE EnqueueCleanupTaskForSubmittedWork
  <2>1. TasksInv'
    BY <1>0, <1>5, TasksEnqueue
  <2>2. UNCHANGED <<next, current, entries, ran, destroyed, waiting, alive, callbacks, done, signaled, lost>>
    BY <1>5 DEF EnqueueCleanupTaskForSubmittedWork, gpu
  <2>3. GensInv' /\ HandleInv'
    BY <1>0, <2>2 DEF GensInv, HandleInv
  <2> QED BY <2>1, <2>3 DEF Inv
<1>6. CASE EnqueueFence
  <2>1. TasksInv' /\ GensInv'
    BY <1>4, <1>6 DEF EnqueueFence
  <2>2. HandleInv'
    BY <1>0, <1>6 DEF EnqueueFence, Ready, HandleInv
  <2> QED BY <2>1, <2>2 DEF Inv
<1>7. CASE GenerateCleanupFence
  <2>1. /\ UNCHANGED <<enqueued, waiting, alive, callbacks>> /\ waiting = 0
        /\ \/ next <= MaxGenerations /\ Open(TRUE) /\ UNCHANGED <<current, ran, destroyed, gpu>>
           \/ PerformImmediateCleanup /\ UNCHANGED next
    BY <1>7 DEF GenerateCleanupFence, Ready
  <2>2. TasksInv' /\ GensInv'
    <3>1. CASE next <= MaxGenerations /\ Open(TRUE) /\ UNCHANGED <<current, ran, destroyed, gpu>>
      BY <1>4, <2>1, <3>1
    <3>2. CASE PerformImmediateCleanup /\ UNCHANGED next
      BY <1>0, <2>1, <3>2, TasksImmediate, GensImmediate
    <3> QED BY <2>1, <3>1, <3>2
  <2>3. HandleInv'
    BY <1>0, <2>1 DEF HandleInv
  <2> QED BY <2>2, <2>3 DEF Inv
<1>8. CASE CreateExternalCallback
  <2>1. TasksInv' /\ GensInv'
    BY <1>4, <1>8 DEF CreateExternalCallback
  <2>2. HandleInv'
    BY <1>0, <1>8 DEF CreateExternalCallback, Ready, HandleInv
  <2> QED BY <2>1, <2>2 DEF Inv
<1>9. CASE ExternalCallback
  <2>1. PICK g \in callbacks :
           /\ g <= done \/ lost
           /\ callbacks' = callbacks \ {g}
           /\ IF alive /\ g > current THEN ProcessCleanupTasks(g)
              ELSE UNCHANGED <<current, entries, pending, ran, destroyed, gpu>>
    BY <1>9 DEF ExternalCallback
  <2>2. UNCHANGED <<next, enqueued, waiting, alive>> /\ waiting = 0
    BY <1>9 DEF ExternalCallback
  <2>3. g \in Nat /\ g < next /\ callbacks' \subseteq callbacks
    BY <1>0, <1>1, <2>1 DEF GensInv
  <2>4. CASE ProcessCleanupTasks(g) /\ g > current
    <3>1. current <= g
      BY <1>1, <2>3, <2>4
    <3>2. TasksInv' /\ GensInv'
      BY <1>0, <2>1, <2>2, <2>3, <2>4, <3>1, Cleanup
    <3> QED BY <1>0, <2>2, <3>2 DEF Inv, HandleInv
  <2>5. CASE UNCHANGED <<current, entries, pending, ran, destroyed, gpu>>
    <3>1. TasksInv'
      BY <1>0, <2>2, <2>5, TasksSame
    <3>2. UNCHANGED <<next, current, entries, ran, destroyed, done, signaled, lost>>
      BY <2>2, <2>5 DEF gpu
    <3>3. GensInv'
      BY <1>0, <2>3, <3>2 DEF GensInv
    <3> QED BY <1>0, <2>2, <3>1, <3>3 DEF Inv, HandleInv
  <2> QED BY <2>1, <2>4, <2>5
<1>10. CASE HasPassed
  <2>1. TasksInv' /\ GensInv'
    BY <1>3, <1>10 DEF HasPassed
  <2>2. HandleInv'
    BY <1>0, <1>10 DEF HasPassed, Ready, HandleInv
  <2> QED BY <2>1, <2>2 DEF Inv
<1>11. CASE Wait
  <2>1. TasksInv' /\ GensInv' /\ HandlesKept
    BY <1>3, <1>11 DEF Wait
  <2>2. PICK g \in {0} \cup destroyed \cup FenceGens(entries) :
           waiting' = IF Passed(g) THEN 0 ELSE g
    BY <1>11 DEF Wait
  <2>3. alive' \in BOOLEAN
    BY <1>0, <1>11 DEF Wait, HandleInv
  <2>4. CASE Passed(g)
    <3>1. waiting' = 0
      BY <2>2, <2>4
    <3> QED BY <2>1, <2>3, <3>1, BoundsAssumption DEF Inv, HandleInv
  <2>5. CASE ~Passed(g)
    <3>1. g \in Nat /\ g < next
      <4>1. \A h \in destroyed : h \in Nat /\ h < next
        <5>1. destroyed \subseteq 1 .. current /\ current \in 0 .. next - 1
          BY <1>0 DEF GensInv
        <5> TAKE h \in destroyed
        <5>2. h \in 1 .. current
          BY <5>1
        <5>3. h \in Nat /\ h <= current /\ current < next
          BY <1>1, <5>1, <5>2
        <5> QED BY <1>1, <5>3
      <4>2. \A h \in FenceGens(entries) : h \in Nat /\ h < next
        BY <1>0, GensNumbers
      <4> QED BY <1>2, <4>1, <4>2
    <3>2. current' \in Nat
      <4>1. current' \in 0 .. next' - 1 /\ next' = next
        BY <1>11, <2>1 DEF Wait, GensInv
      <4> QED BY <1>1, <4>1
    <3>3. current' < g
      BY <2>5, <3>1, <3>2 DEF Passed
    <3>4. g \in FenceGens(entries')
      BY <2>1, <3>3 DEF HandlesKept
    <3>5. waiting' = g /\ g \in 0 .. MaxGenerations
      <4>1. next <= MaxGenerations + 1
        BY <1>0 DEF GensInv
      <4>2. g \in 0 .. MaxGenerations
        BY <1>1, <3>1, <4>1, BoundsAssumption
      <4> QED BY <2>2, <2>5, <4>2
    <3> QED BY <2>1, <2>3, <3>4, <3>5 DEF Inv, HandleInv
  <2> QED BY <2>4, <2>5
<1>12. CASE WaitReturns
  <2>1. TasksInv' /\ GensInv'
    BY <1>3, <1>12 DEF WaitReturns
  <2>2. HandleInv'
    BY <1>0, <1>12, BoundsAssumption DEF WaitReturns, HandleInv
  <2> QED BY <2>1, <2>2 DEF Inv
<1>13. CASE Destroy
  <2>1. TasksInv' /\ GensInv'
    BY <1>0, <1>13, TasksImmediate, GensImmediate DEF Destroy
  <2>2. HandleInv'
    BY <1>0, <1>13 DEF Destroy, Ready, HandleInv
  <2> QED BY <2>1, <2>2 DEF Inv
<1> QED BY <1>5, <1>6, <1>7, <1>8, <1>9, <1>10, <1>11, <1>12, <1>13

\* Every step of the GPU keeps the invariant.
LEMMA InvGpu ==
    ASSUME Inv, Finish \/ (\E g \in Generations : Signal(g)) \/ LoseDevice
    PROVE  Inv'
<1>0. TasksInv /\ Types /\ GensInv /\ HandleInv
  BY DEF Inv, TasksInv
<1>1. /\ next \in Nat /\ done \in Nat /\ \A g \in FenceGens(entries) : g \in Nat /\ g >= 1
      /\ done \in 0 .. next - 1 /\ signaled \subseteq 1 .. done /\ lost \in BOOLEAN
  BY <1>0, GensNumbers DEF GensInv
<1>2. UNCHANGED helper
  BY DEF Finish, Signal, LoseDevice
<1>3. UNCHANGED <<next, current, entries, ran, pending, enqueued, destroyed, waiting, alive, callbacks>>
  BY <1>2 DEF helper
<1>4. TasksInv' /\ HandleInv'
  <2>1. TasksInv'
    BY <1>0, <1>3, TasksSame
  <2>2. HandleInv'
    BY <1>0, <1>3 DEF HandleInv
  <2> QED BY <2>1, <2>2
<1>5. /\ done' \in done .. next - 1 /\ signaled' \subseteq 1 .. done' /\ signaled \subseteq signaled'
      /\ lost' \in BOOLEAN /\ (lost => lost')
  <2>1. CASE Finish
    <3>1. done' = done + 1 /\ done < next - 1 /\ signaled' = signaled /\ lost' = lost
      BY <2>1 DEF Finish
    <3>2. done' \in done .. next - 1 /\ 1 .. done \subseteq 1 .. done'
      BY <1>1, <3>1
    <3> QED BY <1>1, <3>1, <3>2
  <2>2. CASE \E g \in Generations : Signal(g)
    <3>1. PICK g \in FenceGens(entries) :
             g <= done /\ signaled' = signaled \cup {g} /\ done' = done /\ lost' = lost
      BY <2>2 DEF Signal
    <3>2. g \in 1 .. done /\ done \in done .. next - 1
      BY <1>1, <3>1
    <3> QED BY <1>1, <3>1, <3>2
  <2>3. CASE LoseDevice
    <3>1. done' = done /\ signaled' = signaled /\ lost' = TRUE
      BY <2>3 DEF LoseDevice
    <3>2. done \in done .. next - 1
      BY <1>1
    <3> QED BY <1>1, <3>1, <3>2
  <2> QED BY <2>1, <2>2, <2>3
<1>6. GensInv'
  BY <1>0, <1>3, <1>5, GensGpu
<1> QED BY <1>4, <1>6 DEF Inv

\* The invariant is inductive.
LEMMA InvNext == Inv /\ [Next]_vars => Inv'
<1> SUFFICES ASSUME Inv, [Next]_vars PROVE Inv'
  OBVIOUS
<1>1. CASE Next
  BY <1>1, InvHelper, InvGpu DEF Next
<1>2. CASE UNCHANGED vars
  <2>1. /\ UNCHANGED <<next, current, entries, ran, pending, enqueued, destroyed, waiting, alive, callbacks>>
        /\ UNCHANGED <<done, signaled, lost>>
    BY <1>2 DEF vars, helper, gpu
  <2>2. TasksInv'
    BY <2>1, TasksSame DEF Inv
  <2>3. GensInv' /\ HandleInv'
    BY <2>1 DEF Inv, GensInv, HandleInv
  <2> QED BY <2>2, <2>3 DEF Inv
<1> QED BY <1>1, <1>2

\* It holds throughout.
LEMMA InvAlways == Spec => []Inv
BY InvInit, InvNext, PTL DEF Spec

-----------------------------------------------------------------------------
(* What the invariant gives.                                               *)

\* The tasks run, queued and pending are all the tasks, in order.
LEMMA AllInOrder == Inv => TasksInOrder
<1> SUFFICES ASSUME Inv PROVE TasksInOrder
  OBVIOUS
<1> DEFINE s == ran \o entries
           lists == Append(s, Rest)
<1>1. ran \in Seq(Lists) /\ entries \in Seq(Lists)
  BY TasksTypes DEF Inv, TasksInv, Types
<1>2. s \in Seq(Lists)
  BY <1>1, ConcatProperties
<1>3. Rest \in Lists /\ Rest.tasks = pending
  BY BoundsAssumption DEF Rest, TasksForFence, Lists, Inv, TasksInv, Types
<1>4. Consecutive(Append(TasksIn(s), pending), enqueued)
  BY DEF Inv, TasksInv
<1> HIDE DEF s
<1>5. lists \in Seq(Lists) /\ Len(lists) = Len(s) + 1 /\ TasksIn(lists) = Append(TasksIn(s), pending)
  BY <1>2, <1>3, AppendProperties, TasksInAppend
<1> HIDE DEF lists
<1>6. Len(TasksIn(lists)) = Len(s) + 1 /\ Len(s) \in Nat
  BY <1>2, <1>5, TasksInProperties
<1>7. FlattenSeq(TasksIn(lists)) = UpTo(enqueued)
  <2>1. Len(TasksIn(lists)) \in Nat \ {0}
    BY <1>6
  <2> QED BY <1>4, <1>5, <2>1, ConsecutiveFlat
<1>8. TasksIn(lists) = [i \in DOMAIN lists |-> lists[i].tasks]
  <2>1. DOMAIN lists = 1 .. Len(lists)
    BY <1>5
  <2> QED BY <2>1 DEF TasksIn
<1>9. FlattenSeq([i \in DOMAIN lists |-> lists[i].tasks]) = [i \in 1 .. enqueued |-> i]
  BY <1>7, <1>8 DEF UpTo
<1> QED BY <1>9 DEF TasksInOrder, lists, s

\* The variables keep their types.
LEMMA TypesHold == Inv => TypeOK
<1> SUFFICES ASSUME Inv PROVE TypeOK
  OBVIOUS
<1>0. Types /\ GensInv /\ HandleInv
  BY DEF Inv, TasksInv
<1>1. next \in Nat /\ current \in Nat /\ done \in Nat /\ next <= MaxGenerations + 1
  BY <1>0, GensNumbers DEF GensInv
<1>2. 1 .. next - 1 \subseteq Generations
  BY <1>1, BoundsAssumption DEF Generations
<1>3. 1 .. current \subseteq 1 .. next - 1 /\ 1 .. done \subseteq 1 .. next - 1
  BY <1>0, <1>1 DEF GensInv
<1>4. destroyed \subseteq Generations /\ callbacks \subseteq Generations /\ signaled \subseteq Generations
  BY <1>0, <1>2, <1>3 DEF GensInv
<1> QED BY <1>0, <1>4 DEF TypeOK, Types, Lists, GensInv, HandleInv

\* No fence is destroyed while it is in use, and Wait() blocks only on a fence
\* that is still there: a handle that has not passed keeps its entry.
THEOREM FencesCorrect == Spec => []FencesInUse
<1>1. Inv => FencesInUse
  BY DEF Inv, GensInv, HandleInv, FencesInUse
<1> QED BY <1>1, InvAlways, PTL

\* Unless the device is lost, a generation is retired, and its tasks are run,
\* only when the GPU has finished its work.
THEOREM CleanupCorrect == Spec => []NoEarlyCleanup
<1>1. Inv => NoEarlyCleanup
  <2> SUFFICES ASSUME Inv, ~lost PROVE current <= done /\ \A i \in 1 .. Len(ran) : ran[i].gen <= done
    BY DEF NoEarlyCleanup
  <2>1. Types /\ GensInv
    BY DEF Inv, TasksInv
  <2>2. current <= done
    BY <2>1 DEF GensInv
  <2>3. /\ current \in Nat /\ done \in Nat
        /\ \A i \in 1 .. Len(ran) : ran[i].gen \in Nat /\ ran[i].gen <= current
    BY <2>1, GensNumbers DEF GensInv
  <2> QED BY <2>2, <2>3
<1> QED BY <1>1, InvAlways, PTL

\* Every task is run exactly once and in the order of enqueueing.
THEOREM TasksCorrect == Spec => []EachTaskOnce
<1>1. Inv => EachTaskOnce
  BY AllInOrder, TypesHold DEF EachTaskOnce
<1> QED BY <1>1, InvAlways, PTL

=============================================================================
