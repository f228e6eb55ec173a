-------------------------- MODULE ProxyTunnelProofs --------------------------
(***************************************************************************)
(* Proofs about ProxyTunnel, for any clients and any number of chunks.     *)
(***************************************************************************)
EXTENDS ProxyTunnel, FiniteSetTheorems, SequenceTheorems, TLAPS

\* The frames that hold a reference.
Holding == Guarded \cup {"onClose"}
Count(s) == Cardinality({i \in DOMAIN s : s[i] \in Holding})

\* Calls begin at the bottom, and nothing is called from on_close.
WellNested(s) ==
    /\ s \in Seq(Frames)
    /\ \A i \in DOMAIN s : s[i] \in {"start", "receive", "onWritable"} => i = 1
    /\ \A i \in DOMAIN s : s[i] = "onClose" => i = Len(s)

CoreTypes ==
    /\ refs \in Nat /\ derefs \in Nat /\ life \in {"none", "live", "freed"}
    /\ owner \in Clients \cup {NoClient}
    /\ pooled \in BOOLEAN /\ socket \in BOOLEAN /\ closed \in BOOLEAN
    /\ handshake \in Verdicts \cup {"none"}
    /\ tunnelErr \in BOOLEAN /\ established \in BOOLEAN
    /\ clientErr \in [Clients -> BOOLEAN]
    /\ stage \in [Clients -> {"new", "connecting", "handshake", "headers",
                              "body", "done", "fail"}]
    /\ sent \subseteq Clients

\* Every reference is somebody's.
RefsOf(own, inPool, s, left) ==
    (IF own = NoClient THEN 0 ELSE 1) + (IF inPool THEN 1 ELSE 0) + Count(s) + left

\* A call in progress that holds no reference itself runs on that of a client,
\* or on one on_close has left behind.
RefInv ==
    /\ CoreTypes
    /\ WellNested(stack)
    /\ refs = RefsOf(owner, pooled, stack, derefs)
    /\ refs > 0 <=> life = "live"
    /\ pooled => owner = NoClient
    /\ stack # <<>> => stack[1] \in {"receive", "onWritable"} \/ owner # NoClient \/ derefs > 0

-----------------------------------------------------------------------------
(* The stack.                                                              *)

\* Where a stack holds references.
At(s) == {i \in DOMAIN s : s[i] \in Holding}

\* The frames that hold a reference can be counted.
LEMMA AtFinite ==
    ASSUME NEW s \in Seq(Frames)
    PROVE  IsFiniteSet(At(s)) /\ Count(s) \in Nat /\ Count(s) = Cardinality(At(s))
<1>1. Len(s) \in Nat /\ DOMAIN s = 1..Len(s)
  OBVIOUS
<1>2. IsFiniteSet(1..Len(s))
  BY <1>1, FS_Interval
<1>3. At(s) \subseteq 1..Len(s)
  BY <1>1 DEF At
<1>4. IsFiniteSet(At(s))
  BY <1>2, <1>3, FS_Subset
<1>5. Cardinality(At(s)) \in Nat
  BY <1>4, FS_CardinalityType
<1>6. Count(s) = Cardinality(At(s))
  BY Zenon DEF Count, At
<1> QED BY <1>4, <1>5, <1>6

\* A frame is put on the stack.
LEMMA AppendFacts ==
    ASSUME NEW s \in Seq(Frames), NEW f \in Frames, NEW t, t = Append(s, f)
    PROVE  /\ t \in Seq(Frames) /\ Len(t) = Len(s) + 1 /\ Len(s) \in Nat
           /\ DOMAIN s = 1..Len(s) /\ DOMAIN t = 1..(Len(s) + 1)
           /\ \A i \in 1..Len(s) : t[i] = s[i]
           /\ t[Len(s) + 1] = f
           /\ s = <<>> <=> Len(s) = 0
           /\ t # <<>>
  BY AppendProperties

\* It counts if it holds a reference.
LEMMA CountAppend ==
    ASSUME NEW s \in Seq(Frames), NEW f \in Frames, NEW t, t = Append(s, f)
    PROVE  Count(t) = Count(s) + (IF f \in Holding THEN 1 ELSE 0)
<1>1. /\ t \in Seq(Frames) /\ Len(s) \in Nat
      /\ DOMAIN s = 1..Len(s) /\ DOMAIN t = 1..(Len(s) + 1)
      /\ \A i \in 1..Len(s) : t[i] = s[i]
      /\ t[Len(s) + 1] = f
  BY AppendFacts
<1>2. /\ IsFiniteSet(At(s)) /\ Count(s) \in Nat /\ Count(s) = Cardinality(At(s))
      /\ Count(t) = Cardinality(At(t))
  BY <1>1, AtFinite
<1>3. CASE f \in Holding
  <2>1. At(t) = At(s) \cup {Len(s) + 1} /\ Len(s) + 1 \notin At(s)
    BY <1>1, <1>3 DEF At
  <2>2. Cardinality(At(t)) = Cardinality(At(s)) + 1
    BY <1>2, <2>1, FS_AddElement
  <2> QED BY <1>2, <1>3, <2>2
<1>4. CASE f \notin Holding
  <2>1. At(t) = At(s)
    BY <1>1, <1>4 DEF At
  <2> QED BY <1>2, <1>4, <2>1
<1> QED BY <1>3, <1>4

\* No frame of an empty stack holds a reference.
LEMMA CountEmpty == Count(<<>>) = 0
<1>1. At(<<>>) = {}
  BY DEF At
<1>2. <<>> \in Seq(Frames)
  OBVIOUS
<1> QED BY <1>1, <1>2, AtFinite, FS_EmptySet

\* A stack of one frame.
LEMMA CountOne ==
    ASSUME NEW f \in Frames
    PROVE  /\ <<f>> \in Seq(Frames) /\ <<f>> # <<>> /\ Len(<<f>>) = 1
           /\ <<f>>[1] = f /\ DOMAIN <<f>> = {1}
           /\ Count(<<f>>) = IF f \in Holding THEN 1 ELSE 0
<1>1. <<f>> = Append(<<>>, f) /\ <<>> \in Seq(Frames)
  OBVIOUS
<1>2. Count(<<f>>) = Count(<<>>) + (IF f \in Holding THEN 1 ELSE 0)
  BY <1>1, CountAppend
<1> QED BY <1>2, CountEmpty

\* A call that returns.
LEMMA CountFront ==
    ASSUME NEW s \in Seq(Frames), s # <<>>, NEW t, t = SubSeq(s, 1, Len(s) - 1)
    PROVE  /\ t \in Seq(Frames) /\ Len(t) = Len(s) - 1 /\ Len(s) \in Nat /\ Len(s) >= 1
           /\ DOMAIN s = 1..Len(s) /\ DOMAIN t = 1..(Len(s) - 1)
           /\ \A i \in 1..(Len(s) - 1) : t[i] = s[i]
           /\ s[Len(s)] \in Frames
           /\ t # <<>> => Len(s) > 1
           /\ Count(s) = Count(t) + (IF s[Len(s)] \in Holding THEN 1 ELSE 0)
<1>1. /\ Len(s) \in Nat /\ Len(s) >= 1 /\ Len(s) - 1 \in Nat
      /\ s[Len(s)] \in Frames /\ DOMAIN s = 1..Len(s)
      /\ \A i \in 1..Len(s) : s[i] \in Frames
  OBVIOUS
<1> DEFINE n == Len(s) - 1
<1>2. /\ 1 \in Int /\ n \in Int /\ \A i \in 1..n : s[i] \in Frames
      /\ (IF 1 <= n THEN n - 1 + 1 ELSE 0) = n
      /\ \A j \in 1..n : 1 + j - 1 = j
      /\ n - 1 + 1 = n
  BY <1>1
<1>3. /\ SubSeq(s, 1, n) \in Seq(Frames)
      /\ Len(SubSeq(s, 1, n)) = IF 1 <= n THEN n - 1 + 1 ELSE 0
      /\ \A j \in 1..(n - 1 + 1) : SubSeq(s, 1, n)[j] = s[1 + j - 1]
  <2> HIDE DEF n
  <2> QED BY <1>2, SubSeqProperties
<1>4. /\ t \in Seq(Frames) /\ Len(t) = n /\ \A j \in 1..n : t[j] = s[j]
  BY <1>2, <1>3
<1>5. s = Append(t, s[Len(s)])
  <2> DEFINE f == s[Len(s)]
             u == Append(t, f)
  <2>1. /\ u \in Seq(Frames)
        /\ Len(u) = n + 1
        /\ \A i \in 1..n : u[i] = t[i]
        /\ u[n + 1] = f
    <3>1. f \in Frames /\ t \in Seq(Frames) /\ Len(t) = n
      BY <1>1, <1>4
    <3> HIDE DEF f, n
    <3>2. /\ u \in Seq(Frames) /\ Len(u) = Len(t) + 1
          /\ \A i \in 1..Len(t) : u[i] = t[i]
          /\ u[Len(t) + 1] = f
      BY <3>1, AppendFacts
    <3> QED BY <3>1, <3>2
  <2>2. Len(u) = Len(s) /\ \A i \in 1..Len(s) : u[i] = s[i]
    <3> HIDE DEF u
    <3> QED BY <1>1, <1>4, <2>1
  <2> HIDE DEF u
  <2>3. s = u
    BY <2>1, <2>2, SeqEqual
  <2> QED BY <2>3 DEF u
<1>6. Count(s) = Count(t) + (IF s[Len(s)] \in Holding THEN 1 ELSE 0)
  BY <1>1, <1>4, <1>5, CountAppend
<1>7. DOMAIN t = 1..n /\ (t # <<>> => Len(s) > 1)
  BY <1>1, <1>4
<1> QED BY <1>1, <1>4, <1>6, <1>7

\* on_close gives its reference away.
LEMMA CountClosed ==
    ASSUME NEW s \in Seq(Frames), s # <<>>, s[Len(s)] = "onClose",
           NEW t, t = [s EXCEPT ![Len(s)] = "onClosed"]
    PROVE  /\ t \in Seq(Frames) /\ Len(t) = Len(s) /\ Len(s) \in Nat /\ Len(s) >= 1
           /\ t # <<>> /\ t[Len(s)] = "onClosed"
           /\ DOMAIN s = 1..Len(s) /\ DOMAIN t = 1..Len(s)
           /\ \A i \in DOMAIN s : i # Len(s) => t[i] = s[i]
           /\ Count(s) = Count(t) + 1
<1>1. /\ Len(s) \in Nat /\ Len(s) >= 1 /\ DOMAIN s = 1..Len(s) /\ Len(s) \in DOMAIN s
      /\ "onClosed" \in Frames
  BY DEF Frames
<1>2. /\ t \in Seq(Frames) /\ Len(t) = Len(s)
      /\ \A i \in 1..Len(s) : t[i] = IF i = Len(s) THEN "onClosed" ELSE s[i]
  BY <1>1, ExceptSeq
<1>3. DOMAIN t = 1..Len(s) /\ t # <<>>
  BY <1>1, <1>2
<1>4. At(t) = At(s) \ {Len(s)} /\ Len(s) \in At(s)
  BY <1>1, <1>2, <1>3 DEF Holding, Guarded, At
<1>5. /\ IsFiniteSet(At(s)) /\ Count(s) \in Nat /\ Count(s) = Cardinality(At(s))
      /\ Count(t) \in Nat /\ Count(t) = Cardinality(At(t))
  BY <1>2, AtFinite
<1>6. Cardinality(At(t)) = Cardinality(At(s)) - 1
  BY <1>4, <1>5, FS_RemoveElement
<1> QED BY <1>1, <1>2, <1>3, <1>5, <1>6

TopOf(s) == IF s = <<>> THEN "idle" ELSE s[Len(s)]

\* A callback on top of a call that is not on_close.
LEMMA PushFacts ==
    ASSUME NEW s, WellNested(s), s # <<>>, TopOf(s) # "onClose",
           NEW f \in Frames \ {"start", "receive", "onWritable"}, NEW t, t = Append(s, f)
    PROVE  /\ WellNested(t) /\ t # <<>> /\ t[1] = s[1] /\ TopOf(t) = f
           /\ Count(t) = Count(s) + (IF f \in Holding THEN 1 ELSE 0)
           /\ Count(s) \in Nat
<1>1. s \in Seq(Frames) /\ s[Len(s)] # "onClose"
  BY DEF WellNested, TopOf
<1>2. /\ t \in Seq(Frames) /\ Len(t) = Len(s) + 1 /\ Len(s) \in Nat
      /\ DOMAIN s = 1..Len(s) /\ DOMAIN t = 1..(Len(s) + 1)
      /\ \A i \in 1..Len(s) : t[i] = s[i]
      /\ t[Len(s) + 1] = f
      /\ s = <<>> <=> Len(s) = 0
      /\ t # <<>>
  BY <1>1, AppendFacts
<1>3. /\ \A i \in DOMAIN t : t[i] \in {"start", "receive", "onWritable"} => i = 1
      /\ \A i \in DOMAIN t : t[i] = "onClose" => i = Len(t)
  BY <1>1, <1>2 DEF WellNested
<1>4. t[1] = s[1] /\ TopOf(t) = f
  BY <1>2 DEF TopOf
<1>5. Count(t) = Count(s) + (IF f \in Holding THEN 1 ELSE 0) /\ Count(s) \in Nat
  BY <1>1, CountAppend, AtFinite
<1> QED BY <1>2, <1>3, <1>4, <1>5 DEF WellNested

\* A stack of one frame that is well nested.
LEMMA SingleFacts ==
    ASSUME NEW f \in Frames \ {"onClose"}
    PROVE  /\ WellNested(<<f>>) /\ <<f>> # <<>> /\ <<f>>[1] = f /\ TopOf(<<f>>) = f
           /\ Count(<<f>>) = IF f \in Holding THEN 1 ELSE 0
<1>1. /\ <<f>> \in Seq(Frames) /\ <<f>> # <<>> /\ Len(<<f>>) = 1
      /\ <<f>>[1] = f /\ DOMAIN <<f>> = {1}
      /\ Count(<<f>>) = IF f \in Holding THEN 1 ELSE 0
  BY CountOne
<1> QED BY <1>1 DEF WellNested, TopOf

\* The frame on top returns.
LEMMA PopFacts ==
    ASSUME NEW s, WellNested(s), s # <<>>, NEW t, t = SubSeq(s, 1, Len(s) - 1)
    PROVE  /\ WellNested(t) /\ TopOf(t) # "onClose"
           /\ t # <<>> => t[1] = s[1]
           /\ TopOf(s) \in Frames
           /\ Count(s) = Count(t) + (IF TopOf(s) \in Holding THEN 1 ELSE 0)
           /\ Count(t) \in Nat
<1>1. s \in Seq(Frames)
  BY DEF WellNested
<1>2. /\ t \in Seq(Frames) /\ Len(t) = Len(s) - 1 /\ Len(s) \in Nat /\ Len(s) >= 1
      /\ DOMAIN s = 1..Len(s) /\ DOMAIN t = 1..(Len(s) - 1)
      /\ \A i \in 1..(Len(s) - 1) : t[i] = s[i]
      /\ s[Len(s)] \in Frames
      /\ t # <<>> => Len(s) > 1
      /\ Count(s) = Count(t) + (IF s[Len(s)] \in Holding THEN 1 ELSE 0)
  BY <1>1, CountFront
<1>3. \A i \in DOMAIN t : i \in DOMAIN s /\ t[i] = s[i] /\ i # Len(s)
  BY <1>2
<1>4. WellNested(t)
  BY <1>2, <1>3 DEF WellNested
<1>5. t # <<>> => Len(t) \in DOMAIN t /\ 1 \in DOMAIN t
  BY <1>2
<1>6. \A i \in DOMAIN t : t[i] # "onClose"
  BY <1>3 DEF WellNested
<1>7. TopOf(t) # "onClose" /\ (t # <<>> => t[1] = s[1])
  BY <1>3, <1>5, <1>6 DEF TopOf
<1>8. TopOf(s) = s[Len(s)]
  BY DEF TopOf
<1>9. Count(t) \in Nat
  BY <1>2, AtFinite
<1> QED BY <1>2, <1>4, <1>7, <1>8, <1>9

\* onClose has told its owner and goes on.
LEMMA ClosedFacts ==
    ASSUME NEW s, WellNested(s), TopOf(s) = "onClose",
           NEW t, t = [s EXCEPT ![Len(s)] = "onClosed"]
    PROVE  /\ WellNested(t) /\ t # <<>> /\ TopOf(t) = "onClosed"
           /\ Count(s) = Count(t) + 1 /\ Count(t) \in Nat
<1>1. s \in Seq(Frames) /\ s # <<>> /\ s[Len(s)] = "onClose"
  BY DEF WellNested, TopOf
<1>2. /\ t \in Seq(Frames) /\ Len(t) = Len(s) /\ Len(s) \in Nat /\ Len(s) >= 1
      /\ t # <<>> /\ t[Len(s)] = "onClosed"
      /\ DOMAIN s = 1..Len(s) /\ DOMAIN t = 1..Len(s)
      /\ \A i \in DOMAIN s : i # Len(s) => t[i] = s[i]
      /\ Count(s) = Count(t) + 1
  BY <1>1, CountClosed
<1>3. WellNested(t)
  BY <1>1, <1>2 DEF WellNested
<1>4. Count(t) \in Nat
  BY <1>2, AtFinite
<1> QED BY <1>2, <1>3, <1>4 DEF TopOf

-----------------------------------------------------------------------------
(* References.                                                             *)

\* A frame at the bottom that holds a reference is counted.
LEMMA CountPositive ==
    ASSUME NEW s \in Seq(Frames), s # <<>>, s[1] \in Holding
    PROVE  Count(s) > 0
<1>1. 1 \in At(s)
  BY DEF At
<1>2. IsFiniteSet(At(s)) /\ Count(s) \in Nat /\ Count(s) = Cardinality(At(s))
  BY AtFinite
<1>3. Cardinality(At(s)) # 0
  BY <1>1, <1>2, FS_EmptySet
<1> QED BY <1>2, <1>3

\* While a call is in progress there is a reference.
LEMMA CallsAreLive ==
    ASSUME RefInv, stack # <<>>
    PROVE  life = "live" /\ refs > 0
<1>1. stack \in Seq(Frames)
  BY DEF RefInv, WellNested
<1>2. Count(stack) \in Nat /\ derefs \in Nat
  BY <1>1, AtFinite DEF RefInv, CoreTypes
<1>3. {"receive", "onWritable"} \subseteq Holding
  BY DEF Holding, Guarded
<1>4. stack[1] \in Holding => Count(stack) > 0
  BY <1>1, CountPositive
<1>5. refs = (IF owner = NoClient THEN 0 ELSE 1) + (IF pooled THEN 1 ELSE 0) + Count(stack) + derefs
  BY DEF RefInv, RefsOf
<1>6. stack[1] \in Holding \/ owner # NoClient \/ derefs > 0
  BY <1>3 DEF RefInv
<1>7. refs > 0
  BY <1>2, <1>4, <1>5, <1>6
<1> QED BY <1>7 DEF RefInv

\* The frame that runs.
LEMMA TopIsTopOf == Top = TopOf(stack)
  BY DEF Top, TopOf

\* Nothing runs where the stack is empty.
LEMMA IdleIsEmpty == RefInv => (Top = "idle" <=> stack = <<>>)
<1> SUFFICES ASSUME RefInv, stack # <<>> PROVE Top # "idle"
  BY DEF Top
<1>1. TopOf(stack) \in Frames
  BY PopFacts DEF RefInv
<1> QED BY <1>1, TopIsTopOf DEF Frames, Guarded

\* Each of the next lemmas is RefInv over the steps of some actions.
LEMMA RefInit == Init => RefInv
<1> SUFFICES ASSUME Init PROVE RefInv
  OBVIOUS
<1>1. WellNested(<<>>) /\ Count(<<>>) = 0
  BY CountEmpty DEF WellNested
<1>2. CoreTypes
  BY DEF Init, CoreTypes
<1> QED BY <1>1, <1>2 DEF Init, RefInv, RefsOf

\* What RefInv says, in the form the steps use it.
LEMMA RefFacts ==
    ASSUME RefInv
    PROVE  /\ CoreTypes /\ WellNested(stack) /\ stack \in Seq(Frames)
           /\ Count(stack) \in Nat
           /\ refs = RefsOf(owner, pooled, stack, derefs)
           /\ refs > 0 <=> life = "live"
           /\ pooled => owner = NoClient
           /\ stack = <<>> => Count(stack) = 0
<1>1. stack \in Seq(Frames)
  BY DEF RefInv, WellNested
<1> QED BY <1>1, AtFinite, CountEmpty DEF RefInv

\* start: the tunnel begins with its owner's reference.
LEMMA RefStart ==
    ASSUME RefInv, NEW c \in Clients, Start(c)
    PROVE  RefInv'
<1>1. stack = <<>> /\ refs = 0 /\ owner = NoClient /\ ~pooled /\ derefs = 0 /\ Count(stack) = 0
  <2>1. stack = <<>> /\ Count(stack) = 0
    BY IdleIsEmpty, RefFacts DEF Start
  <2>2. refs \in Nat /\ derefs \in Nat /\ pooled \in BOOLEAN
    BY DEF RefInv, CoreTypes
  <2>3. ~(refs > 0) /\ refs = RefsOf(owner, pooled, stack, derefs)
    BY DEF RefInv, Start
  <2> QED BY <2>1, <2>2, <2>3 DEF RefsOf
<1>2. CoreTypes'
  <2>1. CoreTypes
    BY RefFacts
  <2>2. /\ refs' \in Nat /\ life' \in {"none", "live", "freed"}
        /\ owner' \in Clients \cup {NoClient} /\ socket' \in BOOLEAN
        /\ stage' \in [Clients -> {"new", "connecting", "handshake", "headers",
                                  "body", "done", "fail"}]
    <3>1. \/ stage' = [stage EXCEPT ![c] = "fail"] /\ UNCHANGED <<refs, owner, socket>>
             /\ life' = "freed"
          \/ stage' = [stage EXCEPT ![c] = "connecting"] /\ owner' = c /\ refs' = 1
             /\ socket' = TRUE /\ life' = "live"
      BY DEF Start
    <3>2. /\ stage' \in [Clients -> {"new", "connecting", "handshake", "headers",
                                    "body", "done", "fail"}]
      BY <2>1, <3>1 DEF CoreTypes
    <3>3. refs' \in Nat /\ life' \in {"none", "live", "freed"}
      BY <2>1, <3>1 DEF CoreTypes
    <3>4. owner' \in Clients \cup {NoClient} /\ socket' \in BOOLEAN
      BY <2>1, <3>1 DEF CoreTypes
    <3> QED BY <3>2, <3>3, <3>4
  <2>3. UNCHANGED <<derefs, pooled, closed, verifyVars>>
    BY DEF Start
  <2> QED BY <2>1, <2>2, <2>3 DEF CoreTypes, verifyVars
<1>3. CASE stack' = stack /\ refs' = refs /\ owner' = owner /\ life' = "freed"
  BY <1>1, <1>2, <1>3 DEF Start, RefInv, RefsOf
<1>4. CASE stack' = <<"start">> /\ refs' = 1 /\ owner' = c /\ life' = "live"
  <2>1. /\ WellNested(<<"start">>) /\ Count(<<"start">>) = 0
    BY SingleFacts DEF Frames, Holding, Guarded
  <2>2. c # NoClient
    BY ClientsAssumption
  <2> QED BY <1>1, <1>2, <1>4, <2>1, <2>2 DEF Start, RefInv, RefsOf
<1> QED BY <1>3, <1>4 DEF Start

\* A call of the client.
LEMMA RefEnters ==
    ASSUME RefInv, Receive \/ OnWritable \/ Close
    PROVE  RefInv'
<1>1. stack = <<>> /\ Count(stack) = 0 /\ owner # NoClient
  BY IdleIsEmpty, RefFacts DEF Receive, OnWritable, Close
<1>2. CoreTypes'
  BY RefFacts DEF Receive, OnWritable, Close, CoreTypes, verifyVars, refVars
<1>3. CASE Receive \/ OnWritable
  <2>1. PICK f \in {"receive", "onWritable"} : stack' = <<f>>
    BY <1>3 DEF Receive, OnWritable
  <2>2. WellNested(<<f>>) /\ Count(<<f>>) = 1 /\ <<f>>[1] = f
    BY SingleFacts DEF Frames, Holding, Guarded
  <2>3. /\ refs' = refs + 1 /\ owner' = owner /\ pooled' = pooled /\ derefs' = derefs
        /\ life' = life
    BY <1>3 DEF Receive, OnWritable
  <2>4. refs' = RefsOf(owner, pooled, stack, derefs)' /\ refs > 0
    BY <1>1, <2>1, <2>2, <2>3, RefFacts DEF RefsOf, CoreTypes
  <2> QED BY <1>1, <1>2, <2>1, <2>2, <2>3, <2>4, RefFacts DEF RefInv, CoreTypes
<1>4. CASE Close
  <2>1. WellNested(<<"close">>) /\ Count(<<"close">>) = 0
    BY SingleFacts DEF Frames, Holding, Guarded
  <2> QED BY <1>1, <1>2, <1>4, <2>1, RefFacts DEF Close, RefInv, refVars, RefsOf
<1> QED BY <1>3, <1>4

\* Between calls the client, the pool or drain_events lets go of references.
LEMMA RefReleases ==
    ASSUME RefInv, Abandon \/ Write \/ PoolDrops \/ DrainProxyDerefs \/ \E c \in Clients : Adopt(c)
    PROVE  RefInv'
<1>1. stack = <<>> /\ Count(stack) = 0 /\ stack' = stack
  BY IdleIsEmpty, RefFacts DEF Abandon, Write, PoolDrops, DrainProxyDerefs, Adopt
<1>2. refs \in Nat /\ derefs \in Nat /\ pooled \in BOOLEAN /\ owner \in Clients \cup {NoClient}
      /\ life \in {"none", "live", "freed"}
      /\ refs = (IF owner = NoClient THEN 0 ELSE 1) + (IF pooled THEN 1 ELSE 0) + derefs
  BY <1>1, RefFacts DEF CoreTypes, RefsOf
<1>3. /\ owner' \in Clients \cup {NoClient}
      /\ pooled' \in BOOLEAN /\ socket' \in BOOLEAN /\ closed' \in BOOLEAN
      /\ handshake' \in Verdicts \cup {"none"}
      /\ tunnelErr' \in BOOLEAN /\ established' \in BOOLEAN
      /\ clientErr' \in [Clients -> BOOLEAN]
      /\ stage' \in [Clients -> {"new", "connecting", "handshake", "headers",
                                "body", "done", "fail"}]
      /\ sent' \subseteq Clients
  BY <1>2, RefFacts DEF Abandon, Write, PoolDrops, DrainProxyDerefs, Adopt, LetGo, CoreTypes, verifyVars
<1>4. /\ refs' \in Nat /\ derefs' \in Nat /\ life' \in {"none", "live", "freed"}
      /\ refs' = (IF owner' = NoClient THEN 0 ELSE 1) + (IF pooled' THEN 1 ELSE 0) + derefs'
      /\ refs' > 0 <=> life' = "live"
      /\ pooled' => owner' = NoClient
  <2>1. (refs > 0 <=> life = "live") /\ (pooled => owner = NoClient)
    BY RefFacts
  <2>2. CASE Abandon
    BY <1>2, <2>1, <2>2 DEF Abandon, LetGo, Deref
  <2>3. CASE Write
    BY <1>2, <2>1, <2>3 DEF Write, LetGo, Deref
  <2>4. CASE PoolDrops
    BY <1>2, <2>1, <2>4 DEF PoolDrops, Deref
  <2>5. CASE DrainProxyDerefs
    BY <1>2, <2>1, <2>5 DEF DrainProxyDerefs, Deref
  <2>6. CASE \E c \in Clients : Adopt(c)
    BY <1>2, <2>1, <2>6, ClientsAssumption DEF Adopt
  <2> QED BY <2>2, <2>3, <2>4, <2>5, <2>6
<1>5. CoreTypes'
  BY <1>3, <1>4 DEF CoreTypes
<1>6. refs' = RefsOf(owner, pooled, stack, derefs)'
  BY <1>1, <1>4 DEF RefsOf
<1> QED BY <1>1, <1>4, <1>5, <1>6, RefFacts DEF RefInv

\* A callback of the wrapper, which takes a reference for itself.
Callbacks == {"onOpen", "onData", "onHandshake", "onClose"}

\* A callback of the wrapper puts a frame on the stack.
LEMMA CallbackStack ==
    ASSUME RefInv, Top \notin {"idle", "onClose"}, NEW f \in Callbacks, NEW closes \in BOOLEAN,
           closes => f # "onClose", Enter(f, closes)
    PROVE  /\ stack # <<>> /\ stack' # <<>> /\ stack'[1] = stack[1]
           /\ WellNested(stack')
           /\ TopOf(stack') = (IF closes THEN "close" ELSE f)
           /\ Count(stack') = Count(stack) + 1 /\ Count(stack) \in Nat
           /\ life = "live" /\ refs > 0
<1>1. stack # <<>> /\ TopOf(stack) # "onClose"
  BY TopIsTopOf DEF Top
<1>2. WellNested(stack) /\ life = "live" /\ refs > 0
  BY <1>1, RefFacts, CallsAreLive
<1>3. f \in Frames \ {"start", "receive", "onWritable"} /\ f \in Holding
  BY DEF Callbacks, Frames, Guarded, Holding
<1>4. stack' = Append(stack, f) \o (IF closes THEN <<"close">> ELSE <<>>)
  BY DEF Enter
<1> DEFINE u == Append(stack, f)
<1>5. /\ WellNested(u) /\ u # <<>> /\ u[1] = stack[1] /\ TopOf(u) = f
      /\ Count(u) = Count(stack) + 1 /\ Count(stack) \in Nat
  BY <1>1, <1>2, <1>3, PushFacts
<1>6. u \in Seq(Frames)
  BY <1>5 DEF WellNested
<1>7. CASE closes
  <2>1. "close" \in Frames \ {"start", "receive", "onWritable"} /\ "close" \notin Holding
    BY DEF Frames, Holding, Guarded
  <2>2. stack' = u \o <<"close">>
    BY <1>4, <1>7
  <2> HIDE DEF u
  <2>3. stack' = Append(u, "close")
    BY <1>6, <2>1, <2>2, AppendIsConcat
  <2>4. TopOf(u) # "onClose"
    BY <1>5, <1>7
  <2>5. /\ WellNested(stack') /\ stack' # <<>> /\ stack'[1] = u[1] /\ TopOf(stack') = "close"
        /\ Count(stack') = Count(u) + (IF "close" \in Holding THEN 1 ELSE 0)
    BY <1>5, <2>1, <2>3, <2>4, PushFacts
  <2> QED BY <1>1, <1>2, <1>5, <1>7, <2>1, <2>5
<1>8. CASE ~closes
  <2>1. stack' = u \o <<>>
    BY <1>4, <1>8
  <2> HIDE DEF u
  <2>2. stack' = u
    BY <1>6, <2>1, ConcatEmptySeq
  <2> QED BY <1>1, <1>2, <1>5, <1>8, <2>2
<1> QED BY <1>7, <1>8

\* When only the stack and the reference of the callback change.
LEMMA RefCallback ==
    ASSUME RefInv, Top \notin {"idle", "onClose"}, NEW f \in Callbacks, NEW closes \in BOOLEAN,
           closes => f # "onClose", Enter(f, closes),
           CoreTypes', refs' = refs + 1, UNCHANGED <<derefs, life, owner, pooled>>
    PROVE  RefInv'
<1>1. /\ stack # <<>> /\ stack' # <<>> /\ stack'[1] = stack[1]
      /\ WellNested(stack')
      /\ Count(stack') = Count(stack) + 1 /\ Count(stack) \in Nat
      /\ life = "live" /\ refs > 0
  BY CallbackStack
<1>2. refs' = RefsOf(owner, pooled, stack, derefs)'
  BY <1>1, RefFacts DEF RefsOf, CoreTypes
<1>3. refs \in Nat
  BY RefFacts DEF CoreTypes
<1>4. stack # <<>> => stack[1] \in {"receive", "onWritable"} \/ owner # NoClient \/ derefs > 0
  BY DEF RefInv
<1> QED BY <1>1, <1>2, <1>3, <1>4, RefFacts DEF RefInv

\* When the client lets go of the tunnel during the callback.
LEMMA RefLetGo ==
    ASSUME RefInv, Top = "receive", owner # NoClient,
           NEW f \in {"onHandshake", "onData"}, Enter(f, FALSE), CoreTypes',
           owner' = NoClient, UNCHANGED <<derefs, life>>,
           \/ refs' = refs /\ pooled' = pooled
           \/ refs' = refs + 1 /\ pooled' = TRUE
    PROVE  RefInv'
<1>1. /\ stack # <<>> /\ stack' # <<>> /\ stack'[1] = stack[1]
      /\ WellNested(stack')
      /\ Count(stack') = Count(stack) + 1 /\ Count(stack) \in Nat
      /\ life = "live" /\ refs > 0
  BY CallbackStack DEF Callbacks
<1>2. stack[1] = "receive"
  <2>1. stack \in Seq(Frames) /\ stack[Len(stack)] = "receive" /\ Len(stack) \in DOMAIN stack
    BY <1>1, RefFacts DEF Top
  <2> QED BY <2>1, RefFacts DEF WellNested
<1>3. refs \in Nat /\ derefs \in Nat /\ pooled = FALSE
  BY RefFacts DEF CoreTypes
<1>4. refs' = RefsOf(owner, pooled, stack, derefs)'
  BY <1>1, <1>3, RefFacts DEF RefsOf
<1> QED BY <1>1, <1>2, <1>3, <1>4, RefFacts DEF RefInv

\* on_open and on_data.
LEMMA RefOpenData ==
    ASSUME RefInv, OnOpen \/ OnData \/ OnDataBad
    PROVE  RefInv'
<1>1. CoreTypes
  BY RefFacts
<1>2. stage' \in [Clients -> {"new", "connecting", "handshake", "headers", "body", "done", "fail"}]
  BY <1>1 DEF CoreTypes, OnOpen, OnData, OnDataBad
<1>3. /\ refs' = refs + 1
      /\ UNCHANGED <<derefs, life, owner, pooled, socket, closed, verifyVars>>
  BY DEF OnOpen, OnData, OnDataBad
<1>4. CoreTypes'
  BY <1>1, <1>2, <1>3 DEF CoreTypes, verifyVars
<1>5. /\ Top \notin {"idle", "onClose"}
      /\ \E f \in Callbacks : \E closes \in BOOLEAN : f # "onClose" /\ Enter(f, closes)
  BY DEF OnOpen, OnData, OnDataBad, Callbacks
<1>6. PICK f \in Callbacks, closes \in BOOLEAN : f # "onClose" /\ Enter(f, closes)
  BY <1>5
<1> QED BY <1>3, <1>4, <1>5, <1>6, RefCallback

\* on_handshake, with each way it ends.
LEMMA RefHandshake ==
    ASSUME RefInv, OnHandshake
    PROVE  RefInv'
<1>1. CoreTypes /\ Top \in {"start", "receive"} /\ owner # NoClient /\ owner \in Clients
  BY RefFacts DEF OnHandshake, Attached, CoreTypes
<1>2. PICK verdict \in Verdicts :
          /\ Top = "start" => verdict = "failed"
          /\ handshake' = verdict
          /\ clientErr' = IF verdict = "failed" THEN clientErr
                          ELSE [clientErr EXCEPT ![owner] = (verdict = "certError")]
          /\ Enter("onHandshake", Rejects(owner, verdict))
          /\ IF ~Rejects(owner, verdict) /\ WrongIdentity(owner, verdict)
             THEN /\ stage' = [stage EXCEPT ![owner] = "fail"]
                  /\ owner' = NoClient /\ socket' = FALSE /\ closed' = TRUE
                  /\ UNCHANGED <<refs, sent>>
             ELSE /\ stage' = [stage EXCEPT ![owner] = "headers"]
                  /\ refs' = refs + 1
                  /\ sent' = IF Rejects(owner, verdict) \/ ~socket THEN sent
                             ELSE sent \cup {owner}
                  /\ UNCHANGED <<owner, socket, closed>>
  BY DEF OnHandshake
<1>3. UNCHANGED <<derefs, life, pooled, tunnelErr, established>>
  BY DEF OnHandshake
<1>4. CoreTypes'
  <2>1. clientErr' \in [Clients -> BOOLEAN]
    <3>1. (verdict = "certError") \in BOOLEAN
      OBVIOUS
    <3> QED BY <1>1, <1>2, <3>1 DEF CoreTypes
  <2>2. stage' \in [Clients -> {"new", "connecting", "handshake", "headers", "body", "done", "fail"}]
    BY <1>1, <1>2 DEF CoreTypes
  <2>3. /\ refs' \in Nat /\ owner' \in Clients \cup {NoClient}
        /\ socket' \in BOOLEAN /\ closed' \in BOOLEAN /\ sent' \subseteq Clients
    <3>1. CASE ~Rejects(owner, verdict) /\ WrongIdentity(owner, verdict)
      <4>1. owner' = NoClient /\ socket' = FALSE /\ closed' = TRUE /\ refs' = refs /\ sent' = sent
        BY <1>2, <3>1
      <4> QED BY <1>1, <4>1 DEF CoreTypes
    <3>2. CASE ~(~Rejects(owner, verdict) /\ WrongIdentity(owner, verdict))
      <4>1. owner' = owner /\ socket' = socket /\ closed' = closed /\ refs' = refs + 1
        BY <1>2, <3>2
      <4>2. sent' = sent \/ sent' = sent \cup {owner}
        BY <1>2, <3>2
      <4> QED BY <1>1, <4>1, <4>2 DEF CoreTypes
    <3> QED BY <3>1, <3>2
  <2>4. handshake' \in Verdicts \cup {"none"}
    BY <1>2
  <2> QED BY <1>1, <1>3, <2>1, <2>2, <2>3, <2>4 DEF CoreTypes
<1>5. Rejects(owner, verdict) \in BOOLEAN
  BY DEF Rejects
<1>6. CASE ~Rejects(owner, verdict) /\ WrongIdentity(owner, verdict)
  <2>1. Top = "receive"
    BY <1>1, <1>2, <1>6 DEF Rejects
  <2>2. Rejects(owner, verdict) = FALSE
    BY <1>5, <1>6
  <2> QED BY <1>1, <1>2, <1>3, <1>4, <1>6, <2>1, <2>2, RefLetGo
<1>7. CASE ~(~Rejects(owner, verdict) /\ WrongIdentity(owner, verdict))
  <2>1. "onHandshake" \in Callbacks /\ "onHandshake" # "onClose"
    BY DEF Callbacks
  <2> QED BY <1>1, <1>2, <1>3, <1>4, <1>5, <1>7, <2>1, RefCallback
<1> QED BY <1>6, <1>7

\* The end of on_data, with what the client does to its tunnel.
LEMMA RefComplete ==
    ASSUME RefInv, OnDataComplete
    PROVE  RefInv'
<1>1. CoreTypes /\ Top = "receive" /\ owner # NoClient /\ owner \in Clients
  BY RefFacts DEF OnDataComplete, Attached, CoreTypes
<1>2. /\ owner' = NoClient /\ socket' = FALSE /\ Enter("onData", FALSE)
      /\ UNCHANGED <<derefs, life, handshake, clientErr, sent>>
  BY DEF OnDataComplete
<1>3. stage' \in [Clients -> {"new", "connecting", "handshake", "headers", "body", "done", "fail"}]
  BY <1>1 DEF CoreTypes, OnDataComplete, Attached
<1>4. CASE pooled' = TRUE /\ refs' = refs + 1 /\ DetachOwner /\ UNCHANGED closed
  <2>1. clientErr[owner] \in BOOLEAN /\ (established \/ owner \in Strict) \in BOOLEAN
    BY <1>1 DEF CoreTypes
  <2>2. tunnelErr' \in BOOLEAN /\ established' \in BOOLEAN
    BY <1>4, <2>1 DEF DetachOwner
  <2>3. CoreTypes'
    <3>1. derefs' = derefs /\ life' = life /\ owner' = NoClient
      BY <1>2
    <3>2. handshake' = handshake /\ clientErr' = clientErr /\ sent' = sent /\ closed' = closed
      BY <1>2, <1>4
    <3>3. refs' \in Nat /\ derefs' \in Nat /\ life' \in {"none", "live", "freed"}
      BY <1>1, <1>4, <3>1 DEF CoreTypes
    <3>4. owner' \in Clients \cup {NoClient}
      BY <3>1
    <3>5. pooled' \in BOOLEAN /\ socket' \in BOOLEAN
      BY <1>2, <1>4
    <3>6. /\ handshake' \in Verdicts \cup {"none"} /\ clientErr' \in [Clients -> BOOLEAN]
          /\ sent' \subseteq Clients /\ closed' \in BOOLEAN
      BY <1>1, <3>2 DEF CoreTypes
    <3> QED BY <1>3, <2>2, <3>3, <3>4, <3>5, <3>6 DEF CoreTypes
  <2> QED BY <1>1, <1>2, <1>4, <2>3, RefLetGo
<1>5. CASE closed' = TRUE /\ UNCHANGED <<refs, pooled, tunnelErr, established>>
  <2>1. CoreTypes'
    BY <1>1, <1>2, <1>3, <1>5 DEF CoreTypes
  <2> QED BY <1>1, <1>2, <1>5, <2>1, RefLetGo
<1> QED BY <1>4, <1>5 DEF OnDataComplete

\* on_close.
LEMMA RefClose ==
    ASSUME RefInv, OnClose
    PROVE  RefInv'
<1>1. CoreTypes /\ Top \notin {"idle", "onClose"}
  BY RefFacts DEF OnClose
<1>2. closed' = TRUE /\ UNCHANGED <<derefs, life, owner, pooled, socket, verifyVars, stage>>
  BY DEF OnClose
<1>3. CASE UNCHANGED <<stack, refs>>
  <2>1. CoreTypes'
    BY <1>1, <1>2, <1>3 DEF CoreTypes, verifyVars
  <2> QED BY <1>2, <1>3, <2>1 DEF RefInv, RefsOf
<1>4. CASE Enter("onClose", FALSE) /\ refs' = refs + 1
  <2>1. CoreTypes'
    BY <1>1, <1>2, <1>4 DEF CoreTypes, verifyVars
  <2>2. "onClose" \in Callbacks
    BY DEF Callbacks
  <2> QED BY <1>1, <1>2, <1>4, <2>1, <2>2, RefCallback
<1> QED BY <1>3, <1>4 DEF OnClose

\* on_close, once it has told the client.
LEMMA RefTells ==
    ASSUME RefInv, OnCloseTells
    PROVE  RefInv'
<1>1. /\ CoreTypes /\ TopOf(stack) = "onClose" /\ stack # <<>>
  BY RefFacts, TopIsTopOf DEF OnCloseTells, TopOf
<1>2. /\ WellNested(stack') /\ stack' # <<>>
      /\ Count(stack) = Count(stack') + 1 /\ Count(stack') \in Nat
  BY <1>1, RefFacts, ClosedFacts DEF OnCloseTells
<1>3. derefs' = derefs + 1 /\ socket' \in BOOLEAN /\ UNCHANGED <<pooled, closed, verifyVars>>
  BY <1>1 DEF OnCloseTells, LetGo, CoreTypes
<1>4. /\ refs \in Nat /\ derefs \in Nat /\ pooled \in BOOLEAN /\ life = "live"
      /\ refs = (IF owner = NoClient THEN 0 ELSE 1) + (IF pooled THEN 1 ELSE 0)
                  + Count(stack) + derefs
  BY <1>1, RefFacts, CallsAreLive DEF CoreTypes, RefsOf
<1>7. /\ pooled' \in BOOLEAN /\ closed' \in BOOLEAN
      /\ handshake' \in Verdicts \cup {"none"}
      /\ tunnelErr' \in BOOLEAN /\ established' \in BOOLEAN
      /\ clientErr' \in [Clients -> BOOLEAN]
      /\ sent' \subseteq Clients
  BY <1>1, <1>3 DEF CoreTypes, verifyVars
<1>8. socket' \in BOOLEAN
  BY <1>3
<1>5. CASE socket /\ owner # NoClient
  <2>1. owner' = NoClient /\ Deref(1) /\ owner \in Clients
    BY <1>1, <1>5 DEF OnCloseTells, LetGo, CoreTypes
  <2>2. \/ stage' = [stage EXCEPT ![owner] = "done"]
        \/ stage' = [stage EXCEPT ![owner] = "fail"]
    BY <1>5 DEF OnCloseTells
  <2>3. refs' = refs - 1 /\ life' = (IF refs = 1 THEN "freed" ELSE life)
    BY <2>1 DEF Deref
  <2>4. /\ refs' \in Nat /\ refs' > 0 /\ life' = "live"
        /\ refs' = (IF pooled THEN 1 ELSE 0) + Count(stack') + derefs'
    BY <1>2, <1>3, <1>4, <1>5, <2>3
  <2>5. stage' \in [Clients -> {"new", "connecting", "handshake", "headers", "body", "done", "fail"}]
    BY <1>1, <2>1, <2>2 DEF CoreTypes
  <2>6. CoreTypes'
    <3>1. derefs' \in Nat /\ life' \in {"none", "live", "freed"}
      BY <1>3, <1>4, <2>4
    <3>2. owner' \in Clients \cup {NoClient}
      BY <2>1
    <3> QED BY <1>7, <1>8, <2>4, <2>5, <3>1, <3>2 DEF CoreTypes
  <2>7. refs' = RefsOf(owner, pooled, stack, derefs)'
    BY <1>2, <1>3, <1>4, <2>1, <2>4 DEF RefsOf
  <2> QED BY <1>2, <1>3, <1>4, <2>1, <2>4, <2>6, <2>7 DEF RefInv
<1>6. CASE ~(socket /\ owner # NoClient)
  <2>1. UNCHANGED <<stage, owner, refs, life>>
    BY <1>6 DEF OnCloseTells
  <2>2. CoreTypes'
    <3>1. derefs' \in Nat
      BY <1>3, <1>4
    <3>2. /\ refs' \in Nat /\ owner' \in Clients \cup {NoClient}
          /\ life' \in {"none", "live", "freed"}
      BY <1>1, <2>1 DEF CoreTypes
    <3>3. stage' \in [Clients -> {"new", "connecting", "handshake", "headers", "body",
                                  "done", "fail"}]
      BY <1>1, <2>1 DEF CoreTypes
    <3> QED BY <1>7, <1>8, <3>1, <3>2, <3>3 DEF CoreTypes
  <2>3. refs' = RefsOf(owner, pooled, stack, derefs)'
    BY <1>2, <1>3, <1>4, <2>1 DEF RefsOf
  <2> QED BY <1>2, <1>3, <1>4, <2>1, <2>2, <2>3, RefFacts DEF RefInv
<1> QED BY <1>5, <1>6

\* A frame returns and gives its reference back.
LEMMA RefReturn ==
    ASSUME RefInv, Return
    PROVE  RefInv'
<1>1. CoreTypes /\ stack # <<>> /\ Top = TopOf(stack) /\ Top # "onClose"
  BY RefFacts, TopIsTopOf DEF Return
<1>2. /\ WellNested(stack') /\ TopOf(stack') # "onClose"
      /\ stack' # <<>> => stack'[1] = stack[1]
      /\ TopOf(stack) \in Frames
      /\ Count(stack) = Count(stack') + (IF TopOf(stack) \in Holding THEN 1 ELSE 0)
      /\ Count(stack') \in Nat
  BY <1>1, RefFacts, PopFacts DEF Return
<1>3. UNCHANGED <<derefs, owner, pooled, socket, closed, verifyVars, stage>>
  BY DEF Return
<1>4. /\ refs \in Nat /\ derefs \in Nat /\ pooled \in BOOLEAN /\ life = "live"
      /\ refs = (IF owner = NoClient THEN 0 ELSE 1) + (IF pooled THEN 1 ELSE 0)
                  + Count(stack) + derefs
  BY <1>1, RefFacts, CallsAreLive DEF CoreTypes, RefsOf
<1>5. Held(Top) = (IF TopOf(stack) \in Holding THEN 1 ELSE 0)
  BY <1>1 DEF Held, Holding
<1>6. refs' = refs - Held(Top) /\ life' = (IF refs = Held(Top) THEN "freed" ELSE life)
  BY DEF Return, Deref
<1>7. refs' = (IF owner = NoClient THEN 0 ELSE 1) + (IF pooled THEN 1 ELSE 0)
                + Count(stack') + derefs
  BY <1>2, <1>4, <1>5, <1>6
<1>8. refs' \in Nat /\ (refs' > 0 <=> life' = "live") /\ life' \in {"live", "freed"}
  BY <1>2, <1>4, <1>5, <1>6, <1>7
<1>9. CoreTypes'
  BY <1>1, <1>3, <1>8 DEF CoreTypes, verifyVars
<1>10. refs' = RefsOf(owner, pooled, stack, derefs)'
  BY <1>3, <1>7 DEF RefsOf
<1>11. stack' # <<>> => (stack'[1] \in {"receive", "onWritable"} \/ owner # NoClient \/ derefs > 0)
  BY <1>1, <1>2 DEF RefInv
<1> QED BY <1>2, <1>3, <1>8, <1>9, <1>10, <1>11, RefFacts DEF RefInv

\* Every step keeps the count of references.
LEMMA RefStep ==
    ASSUME RefInv, [Next]_vars
    PROVE  RefInv'
<1>1. ASSUME UNCHANGED <<stack, refVars, socket, closed, verifyVars, stage>> PROVE RefInv'
  BY <1>1 DEF RefInv, CoreTypes, RefsOf, refVars, verifyVars
<1>2. WriteEncrypted => UNCHANGED <<stack, refVars, socket, closed, verifyVars, stage>>
  BY DEF WriteEncrypted
<1>3. UNCHANGED vars => UNCHANGED <<stack, refVars, socket, closed, verifyVars, stage>>
  BY DEF vars
<1>4. CASE \E c \in Clients : Start(c)
  BY <1>4, RefStart
<1>5. CASE Receive \/ OnWritable \/ Close
  BY <1>5, RefEnters
<1>6. CASE Abandon \/ Write \/ PoolDrops \/ DrainProxyDerefs \/ \E c \in Clients : Adopt(c)
  BY <1>6, RefReleases
<1>7. CASE OnOpen \/ OnData \/ OnDataBad
  BY <1>7, RefOpenData
<1> QED BY <1>1, <1>2, <1>3, <1>4, <1>5, <1>6, <1>7, RefHandshake, RefComplete, RefClose,
           RefTells, RefReturn DEF Next

-----------------------------------------------------------------------------
(* What is known of the handshake, and who is told of the end.             *)

\* Handshakes that ended with a certificate to judge.
Conclusive == {"good", "wrongHost", "certError"}

\* A handshake is made once, by the client that started the tunnel, before any
\* request is sent.
HandshakeOnce ==
    /\ life = "none" => handshake = "none" /\ ~established /\ sent = {} /\ ~closed
    /\ \A c \in Clients : stage[c] \in {"connecting", "handshake"} =>
          c = owner /\ handshake = "none" /\ ~established /\ sent = {}
    /\ \A c \in Clients : stage[c] = "new" => c \notin sent /\ c # owner

\* The verdict is passed from client to tunnel to client.
VerdictPassed ==
    /\ established => handshake = "good"
    /\ pooled /\ handshake \in Conclusive => tunnelErr = (handshake = "certError")
    /\ ErrorFlagFollows

\* A strict client gets an answer only through a good tunnel; one that may yet
\* write has a good tunnel or one that is being closed.
StrictClient ==
    /\ StrictVerified
    /\ owner \in Strict /\ stage[owner] = "body" => handshake = "good"
    /\ owner \in Strict /\ stage[owner] = "headers" =>
          handshake = "good" \/ closed \/ TopOf(stack) = "close"

\* on_close finds the client and its socket.
CloseTold ==
    /\ owner # NoClient /\ (~closed \/ TopOf(stack) = "onClose") => socket
    /\ TopOf(stack) = "onClose" => closed
    /\ closed /\ owner # NoClient =>
          TopOf(stack) = "onClose" \/ (stage[owner] = "headers" /\ owner \notin sent)

VerifyInv == HandshakeOnce /\ VerdictPassed /\ StrictClient /\ CloseTold

\* The wrapper's callbacks are given the client that has the tunnel.
CtxInv ==
    /\ ctx \in Clients \cup {NoClient}
    /\ owner # NoClient => ctx = owner

\* start and adopt say whom the callbacks are for; nobody else takes the tunnel.
LEMMA CtxStep ==
    ASSUME CtxInv, [Next]_vars
    PROVE  CtxInv'
<1>1. CASE UNCHANGED <<ctx, owner>>
  BY <1>1 DEF CtxInv
<1>2. ASSUME NEW c \in Clients, Start(c) \/ Adopt(c) PROVE CtxInv'
  BY <1>2 DEF Start, Adopt, CtxInv
<1>3. CASE owner' = NoClient /\ UNCHANGED ctx
  BY <1>3 DEF CtxInv
<1>4. UNCHANGED vars => UNCHANGED <<ctx, owner>>
  BY DEF vars, refVars
<1>5. Receive \/ OnWritable \/ Close \/ PoolDrops \/ DrainProxyDerefs => UNCHANGED <<ctx, owner>>
  BY DEF Receive, OnWritable, Close, PoolDrops, DrainProxyDerefs, refVars
<1>6. OnOpen \/ OnData \/ OnDataBad \/ OnClose \/ WriteEncrypted \/ Return => UNCHANGED <<ctx, owner>>
  BY DEF OnOpen, OnData, OnDataBad, OnClose, WriteEncrypted, Return, refVars
<1>7. Abandon \/ OnDataComplete => owner' = NoClient /\ UNCHANGED ctx
  BY DEF Abandon, OnDataComplete, LetGo
<1>8. Write \/ OnHandshake \/ OnCloseTells =>
          UNCHANGED <<ctx, owner>> \/ (owner' = NoClient /\ UNCHANGED ctx)
  BY DEF Write, OnHandshake, OnCloseTells, LetGo
<1> QED BY <1>1, <1>2, <1>3, <1>4, <1>5, <1>6, <1>7, <1>8 DEF Next

\* At first nothing is to be verified.
LEMMA VerifyInit == Init => VerifyInv
  BY ClientsAssumption DEF Init, VerifyInv, HandshakeOnce, VerdictPassed, ErrorFlagFollows, Conclusive,
         StrictClient, StrictVerified, CloseTold, TopOf

\* Calls and returns that leave the client and its tunnel as they are.
LEMMA VerifySame ==
    ASSUME VerifyInv, UNCHANGED <<owner, socket, closed, verifyVars, stage>>,
           life' = "none" => life = "none", pooled' => pooled,
           TopOf(stack) # "onClose", TopOf(stack') # "onClose",
           TopOf(stack) = "close" => TopOf(stack') = "close" \/ closed
    PROVE  VerifyInv'
<1>1. HandshakeOnce'
  BY DEF VerifyInv, HandshakeOnce, verifyVars
<1>2. VerdictPassed'
  BY DEF VerifyInv, VerdictPassed, ErrorFlagFollows, Conclusive, verifyVars
<1>3. StrictClient'
  BY DEF VerifyInv, StrictClient, StrictVerified, verifyVars
<1>4. CloseTold'
  BY DEF VerifyInv, CloseTold, verifyVars
<1> QED BY <1>1, <1>2, <1>3, <1>4 DEF VerifyInv

\* Steps that give the tunnel to no client and finish no request.
LEMMA VerifyCalls ==
    ASSUME RefInv, VerifyInv,
           \/ Receive \/ OnWritable \/ Close \/ OnDataBad \/ WriteEncrypted \/ PoolDrops
           \/ DrainProxyDerefs \/ Return
    PROVE  VerifyInv'
<1>1. Top = TopOf(stack) /\ life \in {"none", "live", "freed"}
  BY TopIsTopOf, RefFacts DEF CoreTypes
<1>2. CASE Receive \/ OnWritable \/ Close
  <2>1. PICK f \in {"receive", "onWritable", "close"} : stack' = <<f>>
    BY <1>2 DEF Receive, OnWritable, Close
  <2>2. TopOf(<<f>>) = f
    BY SingleFacts DEF Frames, Guarded
  <2>3. TopOf(stack') # "onClose"
    BY <2>1, <2>2
  <2>4. TopOf(stack) = "idle"
    BY <1>1, <1>2 DEF Receive, OnWritable, Close
  <2>5. UNCHANGED <<owner, socket, closed, verifyVars, stage, life, pooled>>
    BY <1>2 DEF Receive, OnWritable, Close, refVars
  <2> QED BY <2>3, <2>4, <2>5, VerifySame
<1>3. CASE OnDataBad
  <2>1. Enter("onData", TRUE) /\ Top = "receive"
    BY <1>3 DEF OnDataBad
  <2>2. TopOf(stack') = "close"
    BY <2>1, CallbackStack DEF Callbacks
  <2>3. UNCHANGED <<owner, socket, closed, verifyVars, stage, life, pooled>>
    BY <1>3 DEF OnDataBad
  <2> QED BY <1>1, <2>1, <2>2, <2>3, VerifySame
<1>4. CASE WriteEncrypted
  <2>1. UNCHANGED <<stack, owner, socket, closed, verifyVars, stage, life, pooled>> /\ Top # "onClose"
    BY <1>4 DEF WriteEncrypted, refVars
  <2> QED BY <1>1, <2>1, VerifySame
<1>5. CASE PoolDrops \/ DrainProxyDerefs
  <2>1. UNCHANGED <<stack, owner, socket, closed, verifyVars, stage>> /\ Top = "idle"
    BY <1>5 DEF PoolDrops, DrainProxyDerefs
  <2>2. (life' = "none" => life = "none") /\ (pooled' => pooled)
    BY <1>5 DEF PoolDrops, DrainProxyDerefs, Deref
  <2> QED BY <1>1, <2>1, <2>2, VerifySame
<1>6. CASE Return
  <2>1. UNCHANGED <<owner, socket, closed, verifyVars, stage, pooled>> /\ Top # "onClose"
        /\ stack # <<>> /\ (Top = "close" => closed)
    BY <1>6 DEF Return
  <2>2. TopOf(stack') # "onClose"
    BY <1>6, <2>1, PopFacts, RefFacts DEF Return
  <2>3. life' = "none" => life = "none"
    BY <1>6 DEF Return, Deref
  <2> QED BY <1>1, <2>1, <2>2, <2>3, VerifySame
<1> QED BY <1>2, <1>3, <1>4, <1>5, <1>6

\* on_open, and data that is neither the last nor malformed.
LEMMA VerifyOpenData ==
    ASSUME RefInv, VerifyInv, OnOpen \/ OnData
    PROVE  VerifyInv'
<1>1. /\ Top = TopOf(stack) /\ Top \in {"start", "receive"}
      /\ owner # NoClient /\ owner \in Clients
      /\ stage \in [Clients -> {"new", "connecting", "handshake", "headers", "body", "done", "fail"}]
  <2>1. stage \in [Clients -> {"new", "connecting", "handshake", "headers", "body", "done", "fail"}]
        /\ owner \in Clients \cup {NoClient}
    BY RefFacts DEF CoreTypes
  <2> QED BY <2>1, TopIsTopOf DEF OnOpen, OnData, Attached
<1>2. UNCHANGED <<life, owner, pooled, socket, closed, verifyVars>>
  BY DEF OnOpen, OnData
<1>3. TopOf(stack') \in {"onOpen", "onData"}
  BY <1>1, CallbackStack DEF OnOpen, OnData, Callbacks
<1>4. ~closed
  <2>1. CASE OnOpen
    <3>1. stage[owner] = "connecting"
      BY <2>1 DEF OnOpen
    <3> QED BY <1>1, <3>1 DEF VerifyInv, CloseTold
  <2>2. CASE OnData
    BY <2>2 DEF OnData
  <2> QED BY <2>1, <2>2
<1>5. \/ /\ stage[owner] = "connecting" /\ stage' = [stage EXCEPT ![owner] = "handshake"]
      \/ /\ stage[owner] \in {"headers", "body"} /\ stage' = [stage EXCEPT ![owner] = "body"]
         /\ TopOf(stack) = "receive"
  BY <1>1 DEF OnOpen, OnData
<1>6. /\ stage'[owner] \in {"handshake", "body"}
      /\ \A c \in Clients : c # owner => stage'[c] = stage[c]
      /\ stage'[owner] = "handshake" => stage[owner] = "connecting"
      /\ stage'[owner] = "body" => stage[owner] \in {"headers", "body"} /\ TopOf(stack) = "receive"
  BY <1>1, <1>5
<1>7. HandshakeOnce'
  BY <1>1, <1>2, <1>6 DEF VerifyInv, HandshakeOnce, verifyVars
<1>8. VerdictPassed'
  BY <1>1, <1>2 DEF VerifyInv, VerdictPassed, ErrorFlagFollows, Conclusive, verifyVars
<1>9. StrictClient'
  BY <1>1, <1>2, <1>4, <1>6 DEF VerifyInv, StrictClient, StrictVerified, verifyVars
<1>10. CloseTold'
  BY <1>1, <1>2, <1>3, <1>4, <1>6 DEF VerifyInv, CloseTold, verifyVars
<1> QED BY <1>7, <1>8, <1>9, <1>10 DEF VerifyInv

\* on_close, first for itself and then for the client.
LEMMA VerifyClose ==
    ASSUME RefInv, VerifyInv, CtxInv, OnClose
    PROVE  VerifyInv'
<1>1. /\ Top = TopOf(stack) /\ Top \in {"start", "receive", "close"} /\ closed' = TRUE
      /\ UNCHANGED <<life, owner, pooled, socket, verifyVars, stage>> /\ ~closed
      /\ life \in {"none", "live", "freed"}
  BY TopIsTopOf, RefFacts DEF OnClose, CoreTypes
<1>2. life = "live"
  BY <1>1, CallsAreLive DEF Top
<1>3. owner # NoClient => TopOf(stack') = "onClose" /\ socket
  <2>1. ASSUME owner # NoClient PROVE TopOf(stack') = "onClose"
    <3>1. Enter("onClose", FALSE)
      BY <2>1 DEF OnClose, CtxInv, Attached
    <3> QED BY <1>1, <3>1, CallbackStack DEF Callbacks
  <2> QED BY <1>1, <2>1 DEF VerifyInv, CloseTold
<1>4. HandshakeOnce'
  BY <1>1, <1>2 DEF VerifyInv, HandshakeOnce, verifyVars
<1>5. VerdictPassed'
  BY <1>1 DEF VerifyInv, VerdictPassed, ErrorFlagFollows, Conclusive, verifyVars
<1>6. StrictClient'
  BY <1>1 DEF VerifyInv, StrictClient, StrictVerified, verifyVars
<1>7. CloseTold'
  BY <1>1, <1>3 DEF VerifyInv, CloseTold, verifyVars
<1> QED BY <1>4, <1>5, <1>6, <1>7 DEF VerifyInv

\* Steps after which nobody has the tunnel: what is left to say is about the
\* handshake and the other clients.
LEMMA VerifyLetGo ==
    ASSUME RefInv, VerifyInv, owner' = NoClient, owner # NoClient,
           NEW end \in {"done", "fail"}, stage' = [stage EXCEPT ![owner] = end],
           UNCHANGED sent, life' # "none",
           \A c \in sent \cap Strict : handshake' = "good",
           established' => handshake' = "good",
           pooled' => (handshake' \in Conclusive => tunnelErr' = (handshake' = "certError")),
           TopOf(stack') = "onClose" => closed'
    PROVE  VerifyInv'
<1>1. owner \in Clients /\ NoClient \notin Clients /\ Strict \subseteq Clients
  BY RefFacts, ClientsAssumption DEF CoreTypes
<1>2. /\ \A c \in Clients : stage'[c] = "new" => stage[c] = "new"
      /\ \A c \in Clients : stage'[c] \in {"connecting", "handshake"} =>
            c # owner /\ stage[c] \in {"connecting", "handshake"}
  <2>1. stage \in [Clients -> {"new", "connecting", "handshake", "headers", "body", "done", "fail"}]
    BY RefFacts DEF CoreTypes
  <2>2. \A c \in Clients : stage'[c] = IF c = owner THEN end ELSE stage[c]
    BY <2>1
  <2> QED BY <2>2
<1>3. HandshakeOnce'
  BY <1>1, <1>2 DEF VerifyInv, HandshakeOnce
<1>4. VerdictPassed'
  BY DEF VerdictPassed, ErrorFlagFollows
<1>5. StrictClient'
  BY <1>1 DEF StrictClient, StrictVerified
<1>6. CloseTold'
  BY DEF CloseTold
<1> QED BY <1>3, <1>4, <1>5, <1>6 DEF VerifyInv

\* The client is told of the end, gives up, or writes on a closed tunnel.
LEMMA VerifyEnds ==
    ASSUME RefInv, VerifyInv, OnCloseTells \/ Abandon \/ (Write /\ closed)
    PROVE  VerifyInv'
<1>1. /\ Top = TopOf(stack) /\ owner \in Clients \cup {NoClient}
      /\ life \in {"none", "live", "freed"} /\ refs \in Nat
      /\ refs > 0 <=> life = "live"
      /\ UNCHANGED <<verifyVars, pooled>> \/ Write
  BY TopIsTopOf, RefFacts DEF CoreTypes, OnCloseTells, Abandon
<1>2. /\ \A c \in sent \cap Strict : handshake = "good"
      /\ established => handshake = "good"
      /\ pooled => (handshake \in Conclusive => tunnelErr = (handshake = "certError"))
  BY DEF VerifyInv, StrictClient, StrictVerified, VerdictPassed
<1>3. CASE OnCloseTells
  <2>1. TopOf(stack) = "onClose" /\ closed /\ UNCHANGED <<verifyVars, pooled, closed>>
        /\ (owner # NoClient => socket)
    BY <1>1, <1>3 DEF OnCloseTells, VerifyInv, CloseTold
  <2>2. stack # <<>> /\ life = "live"
    BY <2>1, CallsAreLive DEF TopOf
  <2>3. TopOf(stack') = "onClosed"
    BY <1>3, <2>1, RefFacts, ClosedFacts DEF OnCloseTells
  <2>4. CASE owner = NoClient
    <3>1. UNCHANGED <<stage, owner, life>>
      BY <1>3, <2>4 DEF OnCloseTells
    <3>2. HandshakeOnce'
      BY <2>1, <2>2, <3>1 DEF VerifyInv, HandshakeOnce, verifyVars
    <3>3. VerdictPassed'
      BY <2>1, <3>1 DEF VerifyInv, VerdictPassed, ErrorFlagFollows, Conclusive, verifyVars
    <3>4. StrictClient'
      BY <2>1, <2>4, <3>1, ClientsAssumption DEF VerifyInv, StrictClient, StrictVerified, verifyVars
    <3>5. CloseTold'
      BY <2>3, <2>4, <3>1 DEF CloseTold
    <3> QED BY <3>2, <3>3, <3>4, <3>5 DEF VerifyInv
  <2>5. CASE owner # NoClient
    <3>1. /\ owner' = NoClient
          /\ \E end \in {"done", "fail"} : stage' = [stage EXCEPT ![owner] = end]
          /\ life' \in {"live", "freed"}
      BY <1>3, <2>1, <2>2, <2>5 DEF OnCloseTells, LetGo, Deref
    <3>2. PICK end \in {"done", "fail"} : stage' = [stage EXCEPT ![owner] = end]
      BY <3>1
    <3>3. UNCHANGED <<handshake, tunnelErr, established, sent, pooled>>
      BY <2>1 DEF verifyVars
    <3> QED BY <1>2, <2>3, <2>5, <3>1, <3>2, <3>3, VerifyLetGo
  <2> QED BY <2>4, <2>5
<1>4. CASE Abandon \/ (Write /\ closed)
  <2>1. /\ owner # NoClient /\ owner' = NoClient /\ UNCHANGED stack /\ TopOf(stack) = "idle"
        /\ UNCHANGED <<handshake, tunnelErr, established, sent, pooled>>
        /\ stage' = [stage EXCEPT ![owner] = "fail"]
        /\ Deref(1)
    BY <1>1, <1>4 DEF Abandon, Write, LetGo, verifyVars
  <2>2. life = "live"
    <3>1. refs > 0
      BY <2>1, RefFacts DEF RefsOf, CoreTypes
    <3> QED BY <1>1, <3>1
  <2>3. life' # "none"
    BY <2>1, <2>2 DEF Deref
  <2> QED BY <1>2, <2>1, <2>3, VerifyLetGo
<1> QED BY <1>3, <1>4

\* The end of on_data.
LEMMA VerifyComplete ==
    ASSUME RefInv, VerifyInv, OnDataComplete
    PROVE  VerifyInv'
<1>1. /\ Top = TopOf(stack) /\ owner \in Clients /\ owner # NoClient
      /\ stage[owner] = "body" /\ ~closed /\ TopOf(stack) = "receive"
  BY TopIsTopOf, RefFacts DEF CoreTypes, OnDataComplete, Attached
<1>2. /\ \A c \in sent \cap Strict : handshake = "good"
      /\ established => handshake = "good"
      /\ owner \in Strict => handshake = "good"
      /\ handshake \in Conclusive => clientErr[owner] = (handshake = "certError")
      /\ ~pooled
  BY <1>1, RefFacts DEF VerifyInv, StrictClient, StrictVerified, VerdictPassed, ErrorFlagFollows, Conclusive
<1>3. /\ owner' = NoClient /\ stage' = [stage EXCEPT ![owner] = "done"]
      /\ UNCHANGED <<life, handshake, sent>> /\ Enter("onData", FALSE)
  BY DEF OnDataComplete
<1>4. TopOf(stack') = "onData" /\ life = "live"
  BY <1>1, <1>3, CallbackStack DEF Callbacks
<1>5. CASE pooled' = TRUE /\ DetachOwner
  <2>1. established' => handshake = "good"
    BY <1>2, <1>5 DEF DetachOwner
  <2>2. handshake \in Conclusive => tunnelErr' = (handshake = "certError")
    BY <1>2, <1>5 DEF DetachOwner
  <2> QED BY <1>1, <1>2, <1>3, <1>4, <2>1, <2>2, VerifyLetGo
<1>6. CASE UNCHANGED <<pooled, tunnelErr, established>>
  BY <1>1, <1>2, <1>3, <1>4, <1>6, VerifyLetGo
<1> QED BY <1>5, <1>6 DEF OnDataComplete

\* start: a tunnel for one host name.
LEMMA VerifyStart ==
    ASSUME RefInv, VerifyInv, NEW c \in Clients, Start(c)
    PROVE  VerifyInv'
<1>1. /\ TopOf(stack) = "idle" /\ life = "none" /\ stage[c] = "new"
      /\ UNCHANGED <<pooled, closed, handshake, tunnelErr, established, clientErr, sent>>
      /\ life' \in {"live", "freed"}
  BY TopIsTopOf DEF Start, verifyVars
<1>2. /\ owner = NoClient /\ ~pooled
  <2>1. refs \in Nat /\ derefs \in Nat /\ Count(stack) \in Nat /\ ~(refs > 0)
        /\ refs = RefsOf(owner, pooled, stack, derefs)
    BY <1>1, RefFacts DEF CoreTypes
  <2>2. pooled \in BOOLEAN
    BY RefFacts DEF CoreTypes
  <2> QED BY <2>1, <2>2 DEF RefsOf
<1>3. handshake = "none" /\ ~established /\ sent = {} /\ ~closed
  BY <1>1 DEF VerifyInv, HandshakeOnce
<1>4. stage \in [Clients -> {"new", "connecting", "handshake", "headers", "body", "done", "fail"}]
      /\ c # NoClient
  BY RefFacts, ClientsAssumption DEF CoreTypes
<1>5. \/ /\ owner' = owner /\ stage' = [stage EXCEPT ![c] = "fail"] /\ stack' = stack
      \/ /\ owner' = c /\ stage' = [stage EXCEPT ![c] = "connecting"] /\ stack' = <<"start">>
         /\ socket' = TRUE
  BY DEF Start
<1>6. TopOf(stack') # "onClose"
  <2>1. TopOf(<<"start">>) = "start"
    BY SingleFacts DEF Frames
  <2> QED BY <1>1, <1>5, <2>1
<1>7. HandshakeOnce'
  <2>1. /\ stage'[c] \in {"fail", "connecting"}
        /\ stage'[c] = "connecting" => owner' = c
        /\ \A d \in Clients : d # c => stage'[d] = stage[d] /\ d # owner'
    BY <1>2, <1>4, <1>5, ClientsAssumption
  <2>2. \A d \in Clients : stage[d] \notin {"connecting", "handshake"}
    BY <1>2, ClientsAssumption DEF VerifyInv, HandshakeOnce
  <2> QED BY <1>1, <1>3, <2>1, <2>2 DEF HandshakeOnce
<1>8. VerdictPassed'
  BY <1>1, <1>2, <1>3 DEF VerdictPassed, ErrorFlagFollows, Conclusive
<1>9. StrictClient'
  <2>1. owner' = NoClient \/ (owner' = c /\ stage'[c] = "connecting")
    BY <1>2, <1>4, <1>5
  <2> QED BY <1>1, <1>3, <2>1, ClientsAssumption DEF StrictClient, StrictVerified
<1>10. CloseTold'
  BY <1>1, <1>2, <1>3, <1>5, <1>6 DEF CloseTold
<1> QED BY <1>7, <1>8, <1>9, <1>10 DEF VerifyInv

\* A pooled tunnel is given to a client of the same host name.
LEMMA VerifyAdopt ==
    ASSUME RefInv, VerifyInv, NEW c \in Clients, Adopt(c)
    PROVE  VerifyInv'
<1>1. /\ TopOf(stack) = "idle" /\ pooled /\ stage[c] = "new"
      /\ c \in Strict => established /\ ~tunnelErr
      /\ pooled' = FALSE /\ owner' = c /\ socket' = TRUE
      /\ clientErr' = [clientErr EXCEPT ![c] = tunnelErr]
      /\ stage' = [stage EXCEPT ![c] = "headers"]
      /\ UNCHANGED <<stack, life, closed, handshake, established, sent>>
  BY TopIsTopOf DEF Adopt
<1>2. /\ stage \in [Clients -> {"new", "connecting", "handshake", "headers", "body", "done", "fail"}]
      /\ clientErr \in [Clients -> BOOLEAN] /\ tunnelErr \in BOOLEAN
      /\ owner = NoClient /\ NoClient \notin Clients
  BY <1>1, RefFacts, ClientsAssumption DEF CoreTypes
<1>3. /\ stage'[c] = "headers" /\ clientErr'[c] = tunnelErr
      /\ \A d \in Clients : d # c => stage'[d] = stage[d]
  BY <1>1, <1>2
<1>4. c \notin sent
  BY <1>1 DEF VerifyInv, HandshakeOnce
<1>5. HandshakeOnce'
  BY <1>1, <1>2, <1>3 DEF VerifyInv, HandshakeOnce
<1>6. VerdictPassed'
  BY <1>1, <1>3 DEF VerifyInv, VerdictPassed, ErrorFlagFollows, Conclusive
<1>7. StrictClient'
  BY <1>1, <1>3 DEF VerifyInv, VerdictPassed, StrictClient, StrictVerified
<1>8. CloseTold'
  BY <1>1, <1>3, <1>4 DEF CloseTold
<1> QED BY <1>5, <1>6, <1>7, <1>8 DEF VerifyInv

\* A write on an open tunnel.
LEMMA VerifyWrite ==
    ASSUME RefInv, VerifyInv, Write, ~closed
    PROVE  VerifyInv'
<1>1. /\ TopOf(stack) = "idle" /\ stage[owner] = "headers"
      /\ sent' = sent \cup {owner} /\ owner # NoClient
      /\ UNCHANGED <<stack, stage, owner, socket, life, pooled, closed, handshake, tunnelErr,
                     established, clientErr>>
  BY TopIsTopOf DEF Write
<1>2. owner \in Clients
  BY <1>1, RefFacts DEF CoreTypes
<1>3. life = "live"
  <2>1. refs > 0
    BY <1>1, RefFacts DEF RefsOf, CoreTypes
  <2> QED BY <2>1, RefFacts
<1>4. HandshakeOnce'
  BY <1>1, <1>2, <1>3 DEF VerifyInv, HandshakeOnce
<1>5. VerdictPassed'
  BY <1>1 DEF VerifyInv, VerdictPassed, ErrorFlagFollows, Conclusive
<1>6. StrictClient'
  BY <1>1 DEF VerifyInv, StrictClient, StrictVerified
<1>7. CloseTold'
  BY <1>1 DEF VerifyInv, CloseTold
<1> QED BY <1>4, <1>5, <1>6, <1>7 DEF VerifyInv

\* The verdict of the handshake: the one step that changes it.
LEMMA VerifyHandshake ==
    ASSUME RefInv, VerifyInv, OnHandshake
    PROVE  VerifyInv'
<1>1. /\ Top = TopOf(stack) /\ Top \in {"start", "receive"} /\ owner # NoClient /\ owner \in Clients
      /\ ~closed /\ stage[owner] = "handshake"
  BY TopIsTopOf, RefFacts DEF OnHandshake, Attached, CoreTypes
<1>2. PICK verdict \in Verdicts :
          /\ handshake' = verdict
          /\ clientErr' = IF verdict = "failed" THEN clientErr
                          ELSE [clientErr EXCEPT ![owner] = (verdict = "certError")]
          /\ Enter("onHandshake", Rejects(owner, verdict))
          /\ IF ~Rejects(owner, verdict) /\ WrongIdentity(owner, verdict)
             THEN /\ stage' = [stage EXCEPT ![owner] = "fail"]
                  /\ owner' = NoClient /\ socket' = FALSE /\ closed' = TRUE
                  /\ UNCHANGED <<refs, sent>>
             ELSE /\ stage' = [stage EXCEPT ![owner] = "headers"]
                  /\ refs' = refs + 1
                  /\ sent' = IF Rejects(owner, verdict) \/ ~socket THEN sent
                             ELSE sent \cup {owner}
                  /\ UNCHANGED <<owner, socket, closed>>
  BY DEF OnHandshake
<1>3. UNCHANGED <<life, pooled, tunnelErr, established>> /\ pooled = FALSE
  BY <1>1, RefFacts DEF OnHandshake, Attached, CoreTypes
<1>4. sent = {} /\ ~established /\ socket
  BY <1>1 DEF VerifyInv, HandshakeOnce, CloseTold
<1>5. /\ TopOf(stack') = (IF Rejects(owner, verdict) THEN "close" ELSE "onHandshake")
      /\ life = "live"
  <2>1. Rejects(owner, verdict) \in BOOLEAN
    BY DEF Rejects
  <2> QED BY <1>1, <1>2, <2>1, CallbackStack DEF Callbacks
<1>6. CASE ~Rejects(owner, verdict) /\ WrongIdentity(owner, verdict)
  BY <1>1, <1>2, <1>3, <1>4, <1>5, <1>6, VerifyLetGo
<1>7. CASE ~(~Rejects(owner, verdict) /\ WrongIdentity(owner, verdict))
  <2>1. /\ stage' = [stage EXCEPT ![owner] = "headers"] /\ UNCHANGED <<owner, socket, closed>>
        /\ sent' = IF Rejects(owner, verdict) THEN sent ELSE sent \cup {owner}
    BY <1>2, <1>4, <1>7
  <2>2. /\ stage'[owner] = "headers"
        /\ \A c \in Clients : c # owner => stage'[c] = stage[c]
    <3>1. stage \in [Clients -> {"new", "connecting", "handshake", "headers", "body", "done", "fail"}]
      BY RefFacts DEF CoreTypes
    <3> QED BY <1>1, <2>1, <3>1
  <2>3. owner \in Strict /\ ~Rejects(owner, verdict) => verdict = "good"
    BY <1>4, <1>7 DEF Rejects, WrongIdentity, Verdicts
  <2>4. HandshakeOnce'
    <3>1. \A c \in Clients : c # owner => stage[c] \notin {"connecting", "handshake"}
      BY DEF VerifyInv, HandshakeOnce
    <3>2. \A c \in Clients : stage[c] = "new" => c # owner
      BY <1>1
    <3> QED BY <1>3, <1>4, <1>5, <2>1, <2>2, <3>1, <3>2 DEF HandshakeOnce
  <2>5. VerdictPassed'
    <3>1. verdict \in Conclusive => clientErr'[owner] = (verdict = "certError")
      <4>1. clientErr \in [Clients -> BOOLEAN]
        BY RefFacts DEF CoreTypes
      <4>2. ASSUME verdict # "failed" PROVE clientErr'[owner] = (verdict = "certError")
        <5>1. clientErr' = [clientErr EXCEPT ![owner] = (verdict = "certError")]
          BY <1>2, <4>2
        <5> QED BY <1>1, <4>1, <5>1
      <4> QED BY <4>2 DEF Conclusive
    <3>2. ~established' /\ ~pooled' /\ handshake' = verdict /\ owner' = owner
      BY <1>2, <1>3, <1>4, <2>1
    <3> QED BY <3>1, <3>2 DEF VerdictPassed, ErrorFlagFollows, Conclusive
  <2>6. StrictClient'
    <3>1. \A c \in sent' \cap Strict : verdict = "good"
      BY <1>4, <2>1, <2>3
    <3>2. owner \in Strict => verdict = "good" \/ TopOf(stack') = "close"
      BY <1>5, <2>3
    <3>3. handshake' = verdict /\ owner' = owner /\ stage'[owner'] = "headers"
      BY <1>2, <2>1, <2>2
    <3> QED BY <3>1, <3>2, <3>3 DEF StrictClient, StrictVerified
  <2>7. CloseTold'
    BY <1>1, <1>4, <1>5, <2>1 DEF CloseTold
  <2> QED BY <2>4, <2>5, <2>6, <2>7 DEF VerifyInv
<1> QED BY <1>6, <1>7

\* Every step keeps what the verification needs.
LEMMA VerifyStep ==
    ASSUME RefInv, VerifyInv, CtxInv, [Next]_vars
    PROVE  VerifyInv'
<1>1. CASE UNCHANGED vars
  <2>1. UNCHANGED <<stack, life, owner, pooled, socket, closed, handshake, tunnelErr, established,
                    clientErr, stage, sent>>
    BY <1>1 DEF vars, refVars, verifyVars
  <2>2. HandshakeOnce'
    BY <2>1 DEF VerifyInv, HandshakeOnce
  <2>3. VerdictPassed'
    BY <2>1 DEF VerifyInv, VerdictPassed, ErrorFlagFollows, Conclusive
  <2>4. StrictClient'
    BY <2>1 DEF VerifyInv, StrictClient, StrictVerified
  <2>5. CloseTold'
    BY <2>1 DEF VerifyInv, CloseTold
  <2> QED BY <2>2, <2>3, <2>4, <2>5 DEF VerifyInv
<1>2. CASE \E c \in Clients : Start(c) \/ Adopt(c)
  BY <1>2, VerifyStart, VerifyAdopt
<1>3. CASE Receive \/ OnWritable \/ Close \/ OnDataBad \/ WriteEncrypted \/ PoolDrops
           \/ DrainProxyDerefs \/ Return
  BY <1>3, VerifyCalls
<1>4. CASE OnOpen \/ OnData
  BY <1>4, VerifyOpenData
<1>5. CASE OnCloseTells \/ Abandon \/ Write
  BY <1>5, VerifyEnds, VerifyWrite
<1> QED BY <1>1, <1>2, <1>3, <1>4, <1>5, VerifyHandshake, VerifyComplete, VerifyClose DEF Next


-----------------------------------------------------------------------------
(* The write buffer.                                                       *)

Numbers(m, n) == [i \in 1..n |-> m + i]

\* The chunks of a stream, and that they are in the order they were made in.
Elems(s) == {s[i] : i \in DOMAIN s}
InOrder(s) == \A i, j \in DOMAIN s : i < j => s[i] < s[j]

DataInv ==
    /\ buffer \in Seq(Nat) /\ wire \in Seq(Nat)
    /\ produced \in 0..MaxBytes /\ lost \subseteq 1..produced
    /\ InOrder(wire \o buffer)
    /\ Elems(wire \o buffer) = (1..produced) \ lost

\* Some numbers that follow each other.
LEMMA NumbersFacts ==
    ASSUME NEW m \in Nat, NEW n \in Nat
    PROVE  Numbers(m, n) \in Seq(Nat) /\ Len(Numbers(m, n)) = n
           /\ \A i \in 1..n : Numbers(m, n)[i] = m + i
  BY DEF Numbers

\* Two sequences one after the other.
LEMMA ConcatFacts ==
    ASSUME NEW a \in Seq(Nat), NEW b \in Seq(Nat), NEW c, c = a \o b
    PROVE  /\ Len(a) \in Nat /\ Len(b) \in Nat /\ c \in Seq(Nat)
           /\ DOMAIN a = 1..Len(a) /\ DOMAIN b = 1..Len(b)
           /\ DOMAIN c = 1..(Len(a) + Len(b))
           /\ \A i \in 1..Len(a) : c[i] = a[i]
           /\ \A i \in 1..Len(b) : c[Len(a) + i] = b[i]
<1>1. /\ Len(a) \in Nat /\ Len(b) \in Nat /\ DOMAIN a = 1..Len(a) /\ DOMAIN b = 1..Len(b)
  OBVIOUS
<1>2. /\ c \in Seq(Nat) /\ Len(c) = Len(a) + Len(b)
      /\ \A i \in 1..(Len(a) + Len(b)) : c[i] = IF i <= Len(a) THEN a[i] ELSE b[i - Len(a)]
  BY ConcatProperties
<1>3. DOMAIN c = 1..Len(c)
  BY <1>2
<1>4. \A i \in 1..Len(b) : c[Len(a) + i] = b[i]
  <2> SUFFICES ASSUME NEW i \in 1..Len(b) PROVE c[Len(a) + i] = b[i]
    OBVIOUS
  <2>1. /\ Len(a) + i \in 1..(Len(a) + Len(b)) /\ ~(Len(a) + i <= Len(a))
        /\ (Len(a) + i) - Len(a) = i
    BY <1>1
  <2> QED BY <1>2, <2>1
<1> QED BY <1>1, <1>2, <1>3, <1>4

\* Its chunks are those of the two.
LEMMA ElemsConcat ==
    ASSUME NEW a \in Seq(Nat), NEW b \in Seq(Nat)
    PROVE  Elems(a \o b) = Elems(a) \cup Elems(b)
<1> DEFINE c == a \o b
<1>1. /\ Len(a) \in Nat /\ Len(b) \in Nat
      /\ DOMAIN a = 1..Len(a) /\ DOMAIN b = 1..Len(b) /\ DOMAIN c = 1..(Len(a) + Len(b))
      /\ \A i \in 1..Len(a) : c[i] = a[i]
      /\ \A i \in 1..Len(b) : c[Len(a) + i] = b[i]
  BY ConcatFacts
<1> HIDE DEF c
<1>2. ASSUME NEW i \in DOMAIN c PROVE c[i] \in Elems(a) \cup Elems(b)
  <2>1. CASE i <= Len(a)
    <3>1. i \in DOMAIN a /\ c[i] = a[i]
      BY <1>1, <2>1
    <3> QED BY <3>1 DEF Elems
  <2>2. CASE ~(i <= Len(a))
    <3>1. i - Len(a) \in 1..Len(b) /\ Len(a) + (i - Len(a)) = i
      BY <1>1, <2>2
    <3>2. i - Len(a) \in DOMAIN b /\ c[i] = b[i - Len(a)]
      BY <1>1, <3>1
    <3> QED BY <3>2 DEF Elems
  <2> QED BY <2>1, <2>2
<1>3. ASSUME NEW i \in DOMAIN a PROVE a[i] \in Elems(c)
  <2>1. i \in DOMAIN c /\ c[i] = a[i]
    BY <1>1
  <2> QED BY <2>1 DEF Elems
<1>4. ASSUME NEW i \in DOMAIN b PROVE b[i] \in Elems(c)
  <2>1. Len(a) + i \in DOMAIN c /\ c[Len(a) + i] = b[i]
    BY <1>1
  <2> QED BY <2>1 DEF Elems
<1> QED BY <1>2, <1>3, <1>4 DEF Elems, c

\* It is in order when both are and all of the first comes before the second.
LEMMA OrderConcat ==
    ASSUME NEW a \in Seq(Nat), NEW b \in Seq(Nat), InOrder(a), InOrder(b),
           \A x \in Elems(a), y \in Elems(b) : x < y
    PROVE  InOrder(a \o b)
<1> DEFINE c == a \o b
<1>1. /\ Len(a) \in Nat /\ Len(b) \in Nat
      /\ DOMAIN a = 1..Len(a) /\ DOMAIN b = 1..Len(b) /\ DOMAIN c = 1..(Len(a) + Len(b))
      /\ \A i \in 1..Len(a) : c[i] = a[i]
      /\ \A i \in 1..Len(b) : c[Len(a) + i] = b[i]
  BY ConcatFacts
<1> HIDE DEF c
<1> SUFFICES ASSUME NEW i \in DOMAIN c, NEW j \in DOMAIN c, i < j PROVE c[i] < c[j]
  BY DEF InOrder, c
<1>2. \A k \in DOMAIN c : k > Len(a) => k - Len(a) \in DOMAIN b /\ c[k] = b[k - Len(a)]
  <2> SUFFICES ASSUME NEW k \in DOMAIN c, k > Len(a)
               PROVE k - Len(a) \in DOMAIN b /\ c[k] = b[k - Len(a)]
    OBVIOUS
  <2>1. k - Len(a) \in 1..Len(b) /\ Len(a) + (k - Len(a)) = k
    BY <1>1
  <2> QED BY <1>1, <2>1
<1>3. CASE j <= Len(a)
  BY <1>1, <1>3 DEF InOrder
<1>4. CASE i > Len(a)
  <2>1. i - Len(a) < j - Len(a) /\ j > Len(a)
    BY <1>1, <1>4
  <2> QED BY <1>2, <1>4, <2>1 DEF InOrder
<1>5. CASE i <= Len(a) /\ j > Len(a)
  <2>1. c[i] \in Elems(a)
    BY <1>1, <1>5 DEF Elems
  <2>2. c[j] \in Elems(b)
    BY <1>2, <1>5 DEF Elems
  <2> QED BY <2>1, <2>2
<1> QED BY <1>1, <1>3, <1>4, <1>5

\* What adopt leaves of the stream, and that it loses none of it twice.
LEMMA OrderPrefix ==
    ASSUME NEW a \in Seq(Nat), NEW b \in Seq(Nat), InOrder(a \o b)
    PROVE  InOrder(a) /\ Elems(a) \cap Elems(b) = {}
<1> DEFINE c == a \o b
<1>1. /\ Len(a) \in Nat /\ Len(b) \in Nat
      /\ DOMAIN a = 1..Len(a) /\ DOMAIN b = 1..Len(b) /\ DOMAIN c = 1..(Len(a) + Len(b))
      /\ \A i \in 1..Len(a) : c[i] = a[i]
      /\ \A i \in 1..Len(b) : c[Len(a) + i] = b[i]
  BY ConcatFacts
<1>2. \A i, j \in DOMAIN c : i < j => c[i] < c[j]
  BY DEF InOrder
<1> HIDE DEF c
<1>3. InOrder(a)
  BY <1>1, <1>2 DEF InOrder
<1>4. ASSUME NEW i \in DOMAIN a, NEW j \in DOMAIN b PROVE a[i] # b[j]
  <2>1. i \in DOMAIN c /\ Len(a) + j \in DOMAIN c /\ i < Len(a) + j
        /\ c[i] = a[i] /\ c[Len(a) + j] = b[j] /\ a[i] \in Nat /\ b[j] \in Nat
    BY <1>1
  <2>2. c[i] < c[Len(a) + j]
    BY <1>2, <2>1
  <2> QED BY <2>1, <2>2
<1> QED BY <1>3, <1>4 DEF Elems

\* The facts about \o that are used, for sequences of numbers.
LEMMA Concat ==
    ASSUME NEW a \in Seq(Nat), NEW b \in Seq(Nat), NEW c \in Seq(Nat)
    PROVE  (a \o b) \o c = a \o (b \o c) /\ a \o b \in Seq(Nat)
  BY ConcatAssociative

\* What the socket takes and what it leaves are the whole.
LEMMA SplitAt ==
    ASSUME NEW s \in Seq(Nat), NEW n \in 0..Len(s)
    PROVE  /\ SubSeq(s, 1, n) \in Seq(Nat) /\ SubSeq(s, n + 1, Len(s)) \in Seq(Nat)
           /\ SubSeq(s, 1, n) \o SubSeq(s, n + 1, Len(s)) = s
<1>1. Len(s) \in Nat /\ n \in Nat /\ n <= Len(s) /\ \A i \in 1..Len(s) : s[i] \in Nat
  OBVIOUS
<1>2. SubSeq(s, 1, n) \in Seq(Nat)
  <2>1. 1 \in Int /\ n \in Int /\ \A i \in 1..n : s[i] \in Nat
    BY <1>1
  <2> QED BY <2>1, SubSeqProperties
<1>3. SubSeq(s, n + 1, Len(s)) \in Seq(Nat)
  <2>1. n + 1 \in Int /\ Len(s) \in Int /\ \A i \in (n + 1)..Len(s) : s[i] \in Nat
    BY <1>1
  <2> QED BY <2>1, SubSeqProperties
<1>4. SubSeq(s, 1, n) \o SubSeq(s, n + 1, Len(s)) = SubSeq(s, 1, Len(s))
  <2>1. /\ 1 \in 1..(Len(s) + 1) /\ n \in (1 - 1)..Len(s) /\ Len(s) \in n..Len(s)
    BY <1>1
  <2> QED BY <2>1, ConcatAdjacentSubSeq
<1>5. SubSeq(s, 1, Len(s)) = s
  BY SubSeqFull
<1> QED BY <1>2, <1>3, <1>4, <1>5

\* At first nothing was produced.
LEMMA DataInit == Init => DataInv
<1> SUFFICES ASSUME Init PROVE DataInv
  OBVIOUS
<1>1. <<>> \in Seq(Nat)
  OBVIOUS
<1>2. <<>> \o <<>> = <<>>
  BY <1>1, ConcatEmptySeq
<1>3. InOrder(<<>>) /\ Elems(<<>>) = {}
  BY DEF InOrder, Elems
<1>4. (1..0) \ {} = {} /\ 0 \in 0..MaxBytes
  BY MaxBytesAssumption
<1> QED BY <1>1, <1>2, <1>3, <1>4 DEF Init, DataInv

\* adopt: what the buffer held is lost, and nothing else.
LEMMA DataAdopt ==
    ASSUME DataInv, NEW c \in Clients, Adopt(c)
    PROVE  DataInv'
<1>1. /\ buffer' = <<>> /\ wire' = wire /\ produced' = produced
      /\ lost' = lost \cup Elems(buffer)
  BY DEF Adopt, Range, Elems
<1>2. /\ buffer \in Seq(Nat) /\ wire \in Seq(Nat)
      /\ produced \in 0..MaxBytes /\ lost \subseteq 1..produced
      /\ InOrder(wire \o buffer)
      /\ Elems(wire \o buffer) = (1..produced) \ lost
  BY DEF DataInv
<1>3. InOrder(wire) /\ Elems(wire) \cap Elems(buffer) = {}
  BY <1>2, OrderPrefix
<1>4. Elems(wire) \cup Elems(buffer) = (1..produced) \ lost
  BY <1>2, ElemsConcat
<1>5. Elems(wire) = (1..produced) \ (lost \cup Elems(buffer))
      /\ lost \cup Elems(buffer) \subseteq 1..produced
  BY <1>2, <1>3, <1>4
<1>6. wire \o <<>> = wire /\ <<>> \in Seq(Nat)
  BY <1>2, ConcatEmptySeq
<1> QED BY <1>1, <1>2, <1>3, <1>5, <1>6 DEF DataInv

\* on_writable: the head of the buffer goes on the wire.
LEMMA DataWritable ==
    ASSUME DataInv, OnWritable
    PROVE  DataInv'
<1>1. PICK n \in 0..Len(buffer) :
          /\ wire' = wire \o SubSeq(buffer, 1, n)
          /\ buffer' = SubSeq(buffer, n + 1, Len(buffer))
  BY DEF OnWritable
<1>2. buffer \in Seq(Nat) /\ wire \in Seq(Nat)
  BY DEF DataInv
<1> DEFINE b1 == SubSeq(buffer, 1, n)
           b2 == SubSeq(buffer, n + 1, Len(buffer))
<1>3. b1 \in Seq(Nat) /\ b2 \in Seq(Nat) /\ b1 \o b2 = buffer
  BY <1>2, SplitAt
<1>4. wire' = wire \o b1 /\ buffer' = b2 /\ produced' = produced
  BY <1>1 DEF OnWritable
<1> HIDE DEF b1, b2
<1>5. (wire \o b1) \o b2 = wire \o buffer
  BY <1>2, <1>3, Concat
<1>6. wire' \in Seq(Nat) /\ buffer' \in Seq(Nat)
  BY <1>2, <1>3, <1>4, ConcatProperties
<1>7. wire' \o buffer' = wire \o buffer
  BY <1>4, <1>5
<1>8. lost' = lost
  BY DEF OnWritable
<1> QED BY <1>4, <1>6, <1>7, <1>8 DEF DataInv

\* write_encrypted: what does not go on the wire is buffered behind the rest.
LEMMA DataEncrypted ==
    ASSUME DataInv, WriteEncrypted
    PROVE  DataInv'
<1>1. PICK k \in 1..2 :
          /\ produced + k <= MaxBytes
          /\ produced' = produced + k
          /\ IF buffer # <<>>
             THEN buffer' = buffer \o Numbers(produced, k) /\ UNCHANGED wire
             ELSE \E n \in 0..(IF socket THEN k ELSE 0) :
                     /\ wire' = wire \o SubSeq(Numbers(produced, k), 1, n)
                     /\ buffer' = SubSeq(Numbers(produced, k), n + 1, k)
  BY DEF WriteEncrypted, Numbers
<1>2. /\ buffer \in Seq(Nat) /\ wire \in Seq(Nat)
      /\ produced \in 0..MaxBytes /\ lost \subseteq 1..produced
      /\ InOrder(wire \o buffer)
      /\ Elems(wire \o buffer) = (1..produced) \ lost
  BY DEF DataInv
<1>3. k \in Nat /\ produced \in Nat /\ produced' \in 0..MaxBytes
  BY <1>1, <1>2, MaxBytesAssumption
<1> DEFINE data == Numbers(produced, k)
<1>4. data \in Seq(Nat) /\ Len(data) = k /\ \A i \in 1..k : data[i] = produced + i
  BY <1>3, NumbersFacts
<1>5. /\ InOrder((wire \o buffer) \o data)
      /\ Elems((wire \o buffer) \o data) = (1..(produced + k)) \ lost
  <2> DEFINE stream == wire \o buffer
  <2>1. stream \in Seq(Nat)
    BY <1>2, ConcatProperties
  <2>2. DOMAIN data = 1..k
    <3> HIDE DEF data
    <3> QED BY <1>4
  <2>3. InOrder(data)
    <3> HIDE DEF data
    <3> QED BY <1>3, <1>4, <2>2 DEF InOrder
  <2>4. Elems(data) = (produced + 1)..(produced + k)
    <3>1. ASSUME NEW i \in 1..k PROVE data[i] \in (produced + 1)..(produced + k)
      <4> HIDE DEF data
      <4> QED BY <1>3, <1>4
    <3>2. ASSUME NEW x \in (produced + 1)..(produced + k)
          PROVE  x - produced \in 1..k /\ data[x - produced] = x
      <4>1. x - produced \in 1..k /\ produced + (x - produced) = x
        BY <1>3
      <4> HIDE DEF data
      <4> QED BY <1>4, <4>1
    <3> HIDE DEF data
    <3> QED BY <2>2, <3>1, <3>2 DEF Elems
  <2>5. Elems(stream) = (1..produced) \ lost
    BY <1>2
  <2>6. \A x \in Elems(stream), y \in Elems(data) : x < y
    <3> HIDE DEF stream, data
    <3> QED BY <1>3, <2>4, <2>5
  <2>7. InOrder(stream)
    BY <1>2
  <2> HIDE DEF stream, data
  <2>8. InOrder(stream \o data)
    BY <1>4, <2>1, <2>3, <2>6, <2>7, OrderConcat
  <2>9. Elems(stream \o data) = Elems(stream) \cup Elems(data)
    BY <1>4, <2>1, ElemsConcat
  <2>10. ((1..produced) \ lost) \cup ((produced + 1)..(produced + k)) = (1..(produced + k)) \ lost
    BY <1>2, <1>3
  <2> QED BY <2>4, <2>5, <2>8, <2>9, <2>10 DEF stream
<1>6. /\ wire' \in Seq(Nat) /\ buffer' \in Seq(Nat)
      /\ wire' \o buffer' = (wire \o buffer) \o data
  <2>1. CASE buffer # <<>>
    <3>1. buffer' = buffer \o data /\ wire' = wire
      BY <1>1, <2>1
    <3> HIDE DEF data
    <3> QED BY <1>2, <1>4, <3>1, Concat
  <2>2. CASE buffer = <<>>
    <3>1. PICK n \in 0..(IF socket THEN k ELSE 0) :
              /\ wire' = wire \o SubSeq(data, 1, n)
              /\ buffer' = SubSeq(data, n + 1, k)
      BY <1>1, <2>2
    <3>2. n \in 0..Len(data)
      BY <1>3, <1>4
    <3> DEFINE d1 == SubSeq(data, 1, n)
               d2 == SubSeq(data, n + 1, k)
    <3>3. d1 \in Seq(Nat) /\ d2 \in Seq(Nat) /\ d1 \o d2 = data
      <4> HIDE DEF data
      <4> QED BY <1>4, <3>2, SplitAt
    <3>4. wire' = wire \o d1 /\ buffer' = d2
      BY <3>1
    <3> HIDE DEF data, d1, d2
    <3>5. (wire \o d1) \o d2 = wire \o data
      BY <1>2, <3>3, Concat
    <3>6. wire \o buffer = wire
      BY <1>2, <2>2, ConcatEmptySeq
    <3>7. wire \o d1 \in Seq(Nat)
      BY <1>2, <3>3, ConcatProperties
    <3> QED BY <3>3, <3>4, <3>5, <3>6, <3>7
  <2> QED BY <2>1, <2>2
<1>7. lost' = lost /\ lost \subseteq 1..(produced + k)
  BY <1>2, <1>3 DEF WriteEncrypted
<1> HIDE DEF data
<1> QED BY <1>1, <1>3, <1>5, <1>6, <1>7 DEF DataInv

\* Every step keeps the bytes in order.
LEMMA DataStep ==
    ASSUME DataInv, [Next]_vars
    PROVE  DataInv'
<1>1. ASSUME UNCHANGED dataVars PROVE DataInv'
  BY <1>1 DEF DataInv, dataVars
<1>2. UNCHANGED vars => UNCHANGED dataVars
  BY DEF vars
<1>3. ASSUME NEW c \in Clients PROVE /\ Start(c) => UNCHANGED dataVars
                                     /\ Adopt(c) => DataInv'
  BY DataAdopt DEF Start
<1>4. Receive \/ Close \/ Abandon \/ Write \/ PoolDrops \/ DrainProxyDerefs => UNCHANGED dataVars
  BY DEF Receive, Close, Abandon, Write, PoolDrops, DrainProxyDerefs
<1>5. OnOpen \/ OnHandshake \/ OnData \/ OnDataComplete \/ OnDataBad => UNCHANGED dataVars
  BY DEF OnOpen, OnHandshake, OnData, OnDataComplete, OnDataBad
<1>6. OnClose \/ OnCloseTells \/ Return => UNCHANGED dataVars
  BY DEF OnClose, OnCloseTells, Return
<1> QED BY <1>1, <1>2, <1>3, <1>4, <1>5, <1>6, DataWritable, DataEncrypted DEF Next

-----------------------------------------------------------------------------
(* The theorems.                                                           *)

Inv == RefInv /\ VerifyInv /\ CtxInv /\ DataInv

\* Throughout, the references of the tunnel are those of its frames and owner,
\* its host name is the verified one, its callbacks are given the client that
\* has it, and its bytes are in order.
THEOREM Invariance == Spec => []Inv
<1>1. Init => Inv
  <2>1. Init => CtxInv
    BY DEF Init, CtxInv
  <2> QED BY <2>1, RefInit, VerifyInit, DataInit DEF Inv
<1>2. Inv /\ [Next]_vars => Inv'
  BY RefStep, VerifyStep, CtxStep, DataStep DEF Inv
<1> QED BY <1>1, <1>2, PTL DEF Spec

\* No call in progress, from the client or from the wrapper, is left with a
\* freed tunnel.
THEOREM UseCorrect == Spec => []NoUseAfterFree
<1>1. Inv => NoUseAfterFree
  BY CallsAreLive DEF Inv, NoUseAfterFree
<1> QED BY <1>1, Invariance, PTL

\* ref_count is the number of those who hold the tunnel, and what a client is
\* told of the handshake is what happened.
THEOREM BooksCorrect == Spec => []Bookkeeping
<1>1. ASSUME Inv PROVE TypeOK
  BY <1>1 DEF Inv, RefInv, CoreTypes, CtxInv, WellNested, DataInv, TypeOK
<1>2. ASSUME Inv PROVE RefsMatch
  <2>1. GuardsHeld = Count(stack)
    BY DEF GuardsHeld, Count, Holding
  <2>2. refs = (IF owner = NoClient THEN 0 ELSE 1) + (IF pooled THEN 1 ELSE 0)
                 + Count(stack) + derefs
    BY <1>2 DEF Inv, RefInv, RefsOf
  <2> QED BY <2>1, <2>2 DEF RefsMatch
<1>3. Inv => ErrorFlagFollows
  BY DEF Inv, VerifyInv, VerdictPassed
<1> QED BY <1>1, <1>2, <1>3, Invariance, PTL DEF Bookkeeping

\* A client that rejects unauthorized certificates has sent requests through a
\* verified tunnel only, its own or a pooled one.
THEOREM VerifiedCorrect == Spec => []StrictVerified
<1>1. Inv => StrictVerified
  BY DEF Inv, VerifyInv, StrictClient
<1> QED BY <1>1, Invariance, PTL

\* Encrypted data reaches the socket in the order of the TLS session, over all
\* the clients of the tunnel, and only what adopt's reset drops is missing.
THEOREM OrderCorrect == Spec => []WireOrder
<1>1. Inv => WireOrder
  BY DEF Inv, DataInv, WireOrder, InOrder, Elems, Range
<1> QED BY <1>1, Invariance, PTL

\* Once on_close is through, no client waits for an answer from the tunnel.
THEOREM CloseCorrect == Spec => []CloseReachesClient
<1>1. ASSUME Inv PROVE CloseReachesClient
  <2>1. TopOf(stack) = "onClose" => \E i \in DOMAIN stack : stack[i] = "onClose"
    <3>1. stack \in Seq(Frames)
      BY <1>1 DEF Inv, RefInv, WellNested
    <3> QED BY <3>1 DEF TopOf
  <2> QED BY <1>1, <2>1 DEF Inv, VerifyInv, CloseTold, CloseReachesClient
<1> QED BY <1>1, Invariance, PTL
=============================================================================
