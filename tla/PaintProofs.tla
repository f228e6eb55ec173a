----------------------------- MODULE PaintProofs -----------------------------
(***************************************************************************)
(* Proofs about Paint, for any contexts, web views and askers and any      *)
(* bounds.                                                                 *)
(***************************************************************************)
EXTENDS Paint, FiniteSetTheorems, SequenceTheorems, WellFoundedInduction, TLAPS

\* The places in s of the messages that a frame of p is ready.
ReadyIn(s, p) == {i \in DOMAIN s : s[i].kind = "ready" /\ s[i].painter = p}

PainterTypes ==
    /\ painters \subseteq 1 .. made /\ made \in 0 .. MaxPainters
    /\ contextOf \in [Painters -> Contexts \cup {None}]
    /\ viewOf \in [Views -> 0 .. MaxPainters]
    /\ opening \in (Views \X Painters) \cup {None}

\* A view that is being opened has no painter yet.
ViewsInv ==
    /\ PainterTypes
    /\ ViewsHavePainter
    /\ opening # None => viewOf[opening[1]] = 0

-----------------------------------------------------------------------------
(* Painters and web views.                                                 *)

\* A painter that is made within the bound is one of Painters.
LEMMA MadeNext ==
    ASSUME made \in 0 .. MaxPainters, made < MaxPainters
    PROVE  made + 1 \in Painters /\ made + 1 \in 0 .. MaxPainters
  BY BoundsAssumption DEF Painters

\* At first there is no painter and no web view.
LEMMA ViewsInit == Init => ViewsInv
<1> SUFFICES ASSUME Init PROVE ViewsInv
  OBVIOUS
<1>1. MaxPainters \in Nat
  BY BoundsAssumption
<1>2. PainterTypes
  BY <1>1 DEF Init, PainterTypes
<1> QED BY <1>2 DEF Init, ViewsInv, ViewsHavePainter

\* register_rendering_context: the painter of the context, or a new one.
LEMMA ViewsRegister ==
    ASSUME ViewsInv, NEW w \in Views, NEW c \in Contexts, RegisterRenderingContext(w, c)
    PROVE  ViewsInv'
<1>1. /\ PainterTypes /\ ViewsHavePainter /\ opening = None /\ viewOf[w] = 0 /\ viewOf' = viewOf
      /\ painters \subseteq Painters
  <2>1. PainterTypes /\ ViewsHavePainter /\ opening = None /\ viewOf[w] = 0 /\ viewOf' = viewOf
    BY DEF ViewsInv, RegisterRenderingContext, Idle
  <2>2. painters \subseteq Painters
    BY <2>1, BoundsAssumption DEF PainterTypes, Painters
  <2> QED BY <2>1, <2>2
<1>2. CASE \E p \in painters :
             /\ contextOf[p] = c
             /\ opening' = <<w, p>>
             /\ UNCHANGED <<painters, made, contextOf, details>>
  <2>1. PICK p \in painters : opening' = <<w, p>> /\ UNCHANGED <<painters, made, contextOf, details>>
    BY <1>2
  <2>2. opening'[1] = w /\ opening'[2] = p /\ opening' \in Views \X Painters
    BY <1>1, <2>1
  <2>3. PainterTypes'
    BY <1>1, <2>1, <2>2 DEF PainterTypes
  <2>4. ViewsHavePainter'
    BY <1>1, <2>1, <2>2 DEF ViewsHavePainter
  <2> QED BY <1>1, <2>2, <2>3, <2>4 DEF ViewsInv
<1>3. CASE /\ \A p \in painters : contextOf[p] # c
           /\ made < MaxPainters
           /\ made' = made + 1
           /\ painters' = painters \cup {made'}
           /\ contextOf' = [contextOf EXCEPT ![made'] = c]
           /\ details' = details \cup {made'}
           /\ opening' = <<w, made'>>
  <2> DEFINE n == made + 1
  <2>1. /\ n \in Painters /\ n \in 0 .. MaxPainters /\ n \notin painters
        /\ painters \subseteq 1 .. n
    BY <1>1, <1>3, MadeNext DEF PainterTypes
  <2>2. /\ made' = n /\ painters' = painters \cup {n} /\ details' = details \cup {n}
        /\ contextOf' = [contextOf EXCEPT ![n] = c] /\ opening' = <<w, n>>
    BY <1>3
  <2>3. n \in 1 .. n
    BY <1>1 DEF PainterTypes
  <2> HIDE DEF n
  <2>4. opening'[1] = w /\ opening'[2] = n /\ opening' \in Views \X Painters
    BY <2>1, <2>2
  <2>5. contextOf'[n] = c /\ \A p \in painters : contextOf'[p] = contextOf[p]
    BY <1>1, <2>1, <2>2 DEF PainterTypes
  <2>6. PainterTypes'
    <3>1. contextOf' \in [Painters -> Contexts \cup {None}]
      BY <1>1, <2>2 DEF PainterTypes
    <3>2. painters' \subseteq 1 .. made' /\ made' \in 0 .. MaxPainters
      BY <2>1, <2>2, <2>3
    <3> QED BY <1>1, <2>4, <3>1, <3>2 DEF PainterTypes
  <2>7. ViewsHavePainter'
    <3>1. opening' # None
      BY <2>4, NoneAssumption DEF Painters
    <3>2. \A v \in Views : viewOf'[v] # 0 => viewOf'[v] \in painters'
      BY <1>1, <2>2 DEF ViewsHavePainter
    <3>3. opening'[2] \in painters' /\ details' = painters'
      BY <1>1, <2>2, <2>4 DEF ViewsHavePainter
    <3>4. \A q \in painters : contextOf[q] # c
      BY <1>3
    <3>5. \A q, r \in painters' : contextOf'[q] = contextOf'[r] => q = r
      BY <1>1, <2>2, <2>5, <3>4 DEF ViewsHavePainter
    <3>6. \A q \in painters' : (\E v \in Views : viewOf'[v] = q) \/ opening'[2] = q
      BY <1>1, <2>2, <2>4 DEF ViewsHavePainter
    <3> QED BY <3>1, <3>2, <3>3, <3>5, <3>6 DEF ViewsHavePainter
  <2> QED BY <1>1, <2>4, <2>6, <2>7 DEF ViewsInv
<1> QED BY <1>2, <1>3 DEF RegisterRenderingContext

\* The web view that is opened gets its painter.
LEMMA ViewsAdd ==
    ASSUME ViewsInv, AddWebview
    PROVE  ViewsInv'
<1>1. /\ PainterTypes /\ ViewsHavePainter /\ opening # None /\ opening' = None
      /\ opening \in Views \X Painters /\ viewOf[opening[1]] = 0
      /\ viewOf' = [viewOf EXCEPT ![opening[1]] = opening[2]]
      /\ UNCHANGED <<painters, made, contextOf, details>>
  BY DEF ViewsInv, AddWebview, PainterTypes
<1> DEFINE w == opening[1]
           p == opening[2]
<1>2. w \in Views /\ p \in Painters /\ p \in painters /\ 0 \notin painters
  BY <1>1 DEF ViewsHavePainter, PainterTypes
<1> HIDE DEF w, p
<1>3. viewOf' = [viewOf EXCEPT ![w] = p] /\ viewOf[w] = 0
  BY <1>1 DEF w, p
<1>4. viewOf'[w] = p /\ \A v \in Views : v # w => viewOf'[v] = viewOf[v]
  BY <1>1, <1>2, <1>3 DEF PainterTypes
<1>5. PainterTypes'
  <2>1. p \in 0 .. MaxPainters
    BY <1>2, BoundsAssumption DEF Painters
  <2>2. viewOf' \in [Views -> 0 .. MaxPainters]
    BY <1>1, <1>3, <2>1 DEF PainterTypes
  <2> QED BY <1>1, <2>2 DEF PainterTypes
<1>6. ViewsHavePainter'
  <2>1. \A q \in painters : (\E v \in Views : viewOf[v] = q) \/ p = q
    BY <1>1 DEF ViewsHavePainter, p
  <2>2. \A q \in painters : \E v \in Views : viewOf'[v] = q
    BY <1>2, <1>3, <1>4, <2>1
  <2>3. \A v \in Views : viewOf'[v] # 0 => viewOf'[v] \in painters
    BY <1>1, <1>2, <1>4 DEF ViewsHavePainter
  <2> QED BY <1>1, <2>2, <2>3 DEF ViewsHavePainter
<1> QED BY <1>1, <1>5, <1>6 DEF ViewsInv

\* remove_webview: the painter goes with its last view.
LEMMA ViewsRemove ==
    ASSUME ViewsInv, NEW w \in Views, RemoveWebview(w)
    PROVE  ViewsInv'
<1> DEFINE p == viewOf[w]
<1>1. /\ PainterTypes /\ ViewsHavePainter /\ opening = None /\ opening' = None /\ p \in painters
      /\ made' = made /\ 0 \notin painters
      /\ viewOf' = [viewOf EXCEPT ![w] = 0]
  BY DEF ViewsInv, RemoveWebview, Idle, PainterTypes
<1>2. viewOf'[w] = 0 /\ \A v \in Views : v # w => viewOf'[v] = viewOf[v]
  BY <1>1 DEF PainterTypes
<1>3. viewOf' \in [Views -> 0 .. MaxPainters]
  BY <1>1, BoundsAssumption DEF PainterTypes
<1>4. CASE LastView(w)
  <2>1. /\ painters' = painters \ {p} /\ details' = details \ {p}
        /\ contextOf' = [contextOf EXCEPT ![p] = None]
    BY <1>4 DEF RemoveWebview, RemovePainter
  <2>2. \A v \in Views : v # w => viewOf[v] # p
    BY <1>4 DEF LastView
  <2> HIDE DEF p
  <2>3. \A q \in painters' : contextOf'[q] = contextOf[q]
    <3>1. painters \subseteq Painters
      BY <1>1, BoundsAssumption DEF PainterTypes, Painters
    <3> QED BY <1>1, <2>1, <3>1 DEF PainterTypes
  <2>4. PainterTypes'
    BY <1>1, <1>3, <2>1 DEF PainterTypes
  <2>5. \A q \in painters' : \E v \in Views : viewOf'[v] = q
    <3>1. \A q \in painters : \E v \in Views : viewOf[v] = q
      BY <1>1 DEF ViewsHavePainter
    <3> QED BY <1>2, <2>1, <3>1 DEF p
  <2>6. ViewsHavePainter'
    BY <1>1, <1>2, <2>1, <2>2, <2>3, <2>5 DEF ViewsHavePainter
  <2> QED BY <1>1, <2>4, <2>6 DEF ViewsInv
<1>5. CASE ~LastView(w)
  <2>1. UNCHANGED <<painters, details, contextOf>>
    BY <1>5 DEF RemoveWebview
  <2>2. PICK u \in Views : u # w /\ viewOf[u] = p
    BY <1>5 DEF LastView
  <2> HIDE DEF p
  <2>3. PainterTypes'
    BY <1>1, <1>3, <2>1 DEF PainterTypes
  <2>4. \A q \in painters : \E v \in Views : viewOf'[v] = q
    <3>1. \A q \in painters : \E v \in Views : viewOf[v] = q
      BY <1>1 DEF ViewsHavePainter
    <3>2. \A q \in painters : q # p => \E v \in Views : v # w /\ viewOf[v] = q
      BY <3>1 DEF p
    <3> QED BY <1>2, <2>2, <3>2
  <2>5. ViewsHavePainter'
    BY <1>1, <1>2, <2>1, <2>4 DEF ViewsHavePainter
  <2> QED BY <1>1, <2>3, <2>5 DEF ViewsInv
<1> QED BY <1>4, <1>5

\* No other step touches painters or web views.
LEMMA ViewsStep ==
    ASSUME ViewsInv, [Next]_vars
    PROVE  ViewsInv'
<1>1. ASSUME UNCHANGED painterVars PROVE ViewsInv'
  BY <1>1 DEF ViewsInv, PainterTypes, ViewsHavePainter, painterVars
<1>2. UNCHANGED vars => UNCHANGED painterVars
  BY DEF vars
<1>3. ASSUME NEW w \in Views
      PROVE  ShowWebview(w) \/ PassInput(w) \/ Render(w) => UNCHANGED painterVars
  BY DEF ShowWebview, PassInput, Render
<1>4. ASSUME NEW p \in Painters
      PROVE  /\ PostToPainter(p) => UNCHANGED painterVars
             /\ \A a \in Askers : Ask(a, p) => UNCHANGED painterVars
             /\ \A repaint \in BOOLEAN : FrameReady(p, repaint) => UNCHANGED painterVars
  BY DEF PostToPainter, Ask, FrameReady
<1>5. \/ PerformUpdates \/ HandleMessages \/ HandleBrowserMessage \/ AbandonMessages
      \/ EndMessages \/ StartShuttingDown \/ FinishShuttingDown
      => UNCHANGED painterVars
  BY DEF PerformUpdates, HandleMessages, HandleBrowserMessage, AbandonMessages, EndMessages,
         StartShuttingDown, FinishShuttingDown
<1> QED BY <1>1, <1>2, <1>3, <1>4, <1>5, ViewsRegister, ViewsAdd, ViewsRemove DEF Next

-----------------------------------------------------------------------------
(* Frames.                                                                 *)

\* A painter that is yet to be made has no frames anywhere.
FramesInv ==
    /\ pending \in [Painters -> Nat] /\ rendering \in [Painters -> Nat]
    /\ channel \in Seq(Message) /\ saw \in [Painters -> {"none", "quiet", "repaint"}]
    /\ fresh \subseteq painters
    /\ \A p \in Painters : p > made =>
          pending[p] = 0 /\ rendering[p] = 0 /\ ReadyIn(channel, p) = {}
    /\ ~handling => \A p \in Painters : saw[p] = "none"
    /\ PendingFramesMatch
    /\ RepaintNotLost

\* The messages of one painter in a channel can be counted.
LEMMA ReadyFinite ==
    ASSUME NEW s \in Seq(Message), NEW p
    PROVE  IsFiniteSet(ReadyIn(s, p)) /\ Cardinality(ReadyIn(s, p)) \in Nat
<1>1. Len(s) \in Nat /\ DOMAIN s = 1 .. Len(s)
  OBVIOUS
<1>2. IsFiniteSet(1 .. Len(s))
  BY <1>1, FS_Interval
<1>3. ReadyIn(s, p) \subseteq 1 .. Len(s)
  BY <1>1 DEF ReadyIn
<1>4. IsFiniteSet(ReadyIn(s, p))
  BY <1>2, <1>3, FS_Subset
<1> QED BY <1>4, FS_CardinalityType

\* ReadyFor is ReadyIn of the channel.
LEMMA ReadyForIsIn == \A p : ReadyFor(p) = ReadyIn(channel, p)
  BY DEF ReadyFor, ReadyIn

\* No frame is in an empty channel.
LEMMA ReadyEmpty == \A p : ReadyIn(<<>>, p) = {} /\ Cardinality(ReadyIn(<<>>, p)) = 0
  BY FS_EmptySet DEF ReadyIn

\* What FramesInv says of the channel, with ReadyIn for ReadyFor.
LEMMA FramesFacts ==
    ASSUME FramesInv
    PROVE  /\ \A p \in painters :
                 /\ pending[p] >= rendering[p] + Cardinality(ReadyIn(channel, p))
                 /\ shutdown # "finished" =>
                       pending[p] = rendering[p] + Cardinality(ReadyIn(channel, p))
           /\ \A p \in fresh : shutdown # "finished" =>
                 \/ p \in needsRepaint \/ saw[p] = "repaint"
                 \/ \E i \in ReadyIn(channel, p) : channel[i].repaint
           /\ \A p \in Painters : Cardinality(ReadyIn(channel, p)) \in Nat
<1>1. \A p : ReadyFor(p) = ReadyIn(channel, p)
  BY ReadyForIsIn
<1>2. channel \in Seq(Message)
  BY DEF FramesInv
<1>3. \A p \in Painters : Cardinality(ReadyIn(channel, p)) \in Nat
  BY <1>2, ReadyFinite
<1> QED BY <1>1, <1>3 DEF FramesInv, PendingFramesMatch, RepaintNotLost, SawRepaint

\* The converse, in the next state.
LEMMA FramesHold ==
    ASSUME pending' \in [Painters -> Nat], rendering' \in [Painters -> Nat],
           channel' \in Seq(Message), saw' \in [Painters -> {"none", "quiet", "repaint"}],
           fresh' \subseteq painters',
           \A p \in Painters : p > made' =>
              pending'[p] = 0 /\ rendering'[p] = 0 /\ ReadyIn(channel', p) = {},
           ~handling' => \A p \in Painters : saw'[p] = "none",
           \A p \in painters' :
              /\ pending'[p] >= rendering'[p] + Cardinality(ReadyIn(channel', p))
              /\ shutdown' # "finished" =>
                    pending'[p] = rendering'[p] + Cardinality(ReadyIn(channel', p)),
           \A p \in fresh' : shutdown' # "finished" =>
                 \/ p \in needsRepaint' \/ saw'[p] = "repaint"
                 \/ \E i \in ReadyIn(channel', p) : channel'[i].repaint
    PROVE  FramesInv'
<1>1. \A p : ReadyFor(p)' = ReadyIn(channel', p)
  BY DEF ReadyFor, ReadyIn
<1>2. PendingFramesMatch'
  BY <1>1 DEF PendingFramesMatch
<1>3. RepaintNotLost'
  BY <1>1 DEF RepaintNotLost, SawRepaint
<1> QED BY <1>2, <1>3 DEF FramesInv, ReadyIn

\* At first there are no frames.
LEMMA FramesInit == Init => FramesInv
<1> SUFFICES ASSUME Init PROVE FramesInv
  OBVIOUS
<1>1. \A p : ReadyIn(channel, p) = {}
  BY ReadyEmpty DEF Init
<1>2. PendingFramesMatch /\ RepaintNotLost
  BY DEF Init, PendingFramesMatch, RepaintNotLost
<1> QED BY <1>1, <1>2 DEF Init, FramesInv

\* The painters there are were made.
LEMMA PaintersMade ==
    ASSUME ViewsInv
    PROVE  painters \subseteq Painters /\ made \in Nat /\ \A p \in painters : ~(p > made)
  BY BoundsAssumption DEF ViewsInv, PainterTypes, Painters

\* Painters come and go; the frames of the others stay as they are.
LEMMA FramesRegister ==
    ASSUME ViewsInv, FramesInv, NEW w \in Views, NEW c \in Contexts, RegisterRenderingContext(w, c)
    PROVE  FramesInv'
<1>1. UNCHANGED <<pending, rendering, needsRepaint, channel, handling, saw, shutdown, fresh>>
  BY DEF RegisterRenderingContext, frameVars, loopVars
<1>2. \/ UNCHANGED <<painters, made>>
      \/ made' = made + 1 /\ painters' = painters \cup {made + 1} /\ made < MaxPainters
  BY DEF RegisterRenderingContext
<1>3. made \in 0 .. MaxPainters /\ made \in Nat
  BY BoundsAssumption DEF ViewsInv, PainterTypes
<1>4. CASE UNCHANGED <<painters, made>>
  <2> QED BY <1>1, <1>4, FramesFacts, FramesHold DEF FramesInv
<1>5. CASE made' = made + 1 /\ painters' = painters \cup {made + 1} /\ made < MaxPainters
  <2>1. made + 1 \in Painters /\ made + 1 > made
    BY <1>3, <1>5, MadeNext
  <2>2. pending[made + 1] = 0 /\ rendering[made + 1] = 0 /\ ReadyIn(channel, made + 1) = {}
    BY <2>1 DEF FramesInv
  <2>3. Cardinality({}) = 0
    BY FS_EmptySet
  <2>4. \A p \in painters' :
           /\ pending[p] >= rendering[p] + Cardinality(ReadyIn(channel, p))
           /\ shutdown # "finished" =>
                 pending[p] = rendering[p] + Cardinality(ReadyIn(channel, p))
    <3>1. /\ pending[made + 1] >= rendering[made + 1] + Cardinality(ReadyIn(channel, made + 1))
          /\ pending[made + 1] = rendering[made + 1] + Cardinality(ReadyIn(channel, made + 1))
      <4> DEFINE n == made + 1
      <4>1. pending[n] = 0 /\ rendering[n] = 0 /\ Cardinality(ReadyIn(channel, n)) = 0
        BY <2>2, <2>3
      <4> HIDE DEF n
      <4>2. /\ pending[n] >= rendering[n] + Cardinality(ReadyIn(channel, n))
            /\ pending[n] = rendering[n] + Cardinality(ReadyIn(channel, n))
        BY <4>1
      <4> QED BY <4>2 DEF n
    <3> QED BY <1>5, <3>1, FramesFacts
  <2>5. \A p \in Painters : p > made' =>
           pending[p] = 0 /\ rendering[p] = 0 /\ ReadyIn(channel, p) = {}
    <3>1. \A p \in Painters : p > made' => p > made
      BY <1>3, <1>5 DEF Painters
    <3> QED BY <3>1 DEF FramesInv
  <2>6. fresh \subseteq painters'
    BY <1>5 DEF FramesInv
  <2> QED BY <1>1, <2>4, <2>5, <2>6, FramesFacts, FramesHold DEF FramesInv
<1> QED BY <1>2, <1>4, <1>5

\* A painter that is removed counts no frames any longer.
LEMMA FramesRemove ==
    ASSUME ViewsInv, FramesInv, NEW w \in Views, RemoveWebview(w)
    PROVE  FramesInv'
<1>1. UNCHANGED <<made, rendering, channel, handling, saw, shutdown>>
  BY DEF RemoveWebview, loopVars
<1>2. CASE UNCHANGED <<painters, pending, needsRepaint, fresh>>
  BY <1>1, <1>2, FramesFacts, FramesHold DEF FramesInv
<1>3. CASE RemovePainter(viewOf[w])
  <2> DEFINE q == viewOf[w]
  <2>1. q \in painters
    BY DEF RemoveWebview
  <2>2. /\ painters' = painters \ {q} /\ pending' = [pending EXCEPT ![q] = 0]
        /\ needsRepaint' = needsRepaint \ {q} /\ fresh' = fresh \ {q}
    BY <1>3 DEF RemovePainter
  <2> HIDE DEF q
  <2>3. q \in Painters /\ ~(q > made) /\ painters \subseteq Painters
    BY <2>1, PaintersMade
  <2>4. /\ pending' \in [Painters -> Nat]
        /\ \A p \in Painters : p # q => pending'[p] = pending[p]
    BY <2>2, <2>3 DEF FramesInv
  <2>5. \A p \in painters' :
           /\ pending'[p] >= rendering[p] + Cardinality(ReadyIn(channel, p))
           /\ shutdown # "finished" =>
                 pending'[p] = rendering[p] + Cardinality(ReadyIn(channel, p))
    BY <2>2, <2>3, <2>4, FramesFacts
  <2>6. \A p \in Painters : p > made =>
           pending'[p] = 0 /\ rendering[p] = 0 /\ ReadyIn(channel, p) = {}
    BY <2>3, <2>4 DEF FramesInv
  <2>7. \A p \in fresh' : shutdown # "finished" =>
           \/ p \in needsRepaint' \/ saw[p] = "repaint"
           \/ \E i \in ReadyIn(channel, p) : channel[i].repaint
    BY <2>2, FramesFacts
  <2>8. fresh' \subseteq painters'
    BY <2>2 DEF FramesInv
  <2> QED BY <1>1, <2>4, <2>5, <2>6, <2>7, <2>8, FramesHold DEF FramesInv
<1> QED BY <1>2, <1>3 DEF RemoveWebview

\* A painter asks WebRender for frames and counts them.
LEMMA FramesSubmit ==
    ASSUME ViewsInv, FramesInv, NEW ps, ps \subseteq painters, Submit(ps),
           UNCHANGED <<painters, made, needsRepaint, channel, handling, saw, shutdown, fresh>>
    PROVE  FramesInv'
<1>1. PICK new \in SUBSET {p \in ps : rendering[p] < MaxFrames} :
        /\ pending' = [p \in Painters |-> IF p \in new THEN pending[p] + 1 ELSE pending[p]]
        /\ rendering' = [p \in Painters |-> IF p \in new THEN rendering[p] + 1 ELSE rendering[p]]
  BY DEF Submit
<1>2. pending \in [Painters -> Nat] /\ rendering \in [Painters -> Nat]
  BY DEF FramesInv
<1>3. \A p \in Painters :
        /\ pending'[p] = IF p \in new THEN pending[p] + 1 ELSE pending[p]
        /\ rendering'[p] = IF p \in new THEN rendering[p] + 1 ELSE rendering[p]
        /\ pending[p] \in Nat /\ rendering[p] \in Nat
  BY <1>1, <1>2
<1>4. pending' \in [Painters -> Nat] /\ rendering' \in [Painters -> Nat]
  BY <1>1, <1>2
<1>5. new \subseteq painters /\ painters \subseteq Painters /\ \A p \in new : ~(p > made)
  BY PaintersMade
<1>6. \A p \in painters :
         /\ pending'[p] >= rendering'[p] + Cardinality(ReadyIn(channel, p))
         /\ shutdown # "finished" =>
               pending'[p] = rendering'[p] + Cardinality(ReadyIn(channel, p))
  <2> TAKE p \in painters
  <2>1. Cardinality(ReadyIn(channel, p)) \in Nat
    BY <1>5, FramesFacts
  <2> QED BY <1>3, <1>5, <2>1, FramesFacts
<1>7. \A p \in Painters : p > made =>
         pending'[p] = 0 /\ rendering'[p] = 0 /\ ReadyIn(channel, p) = {}
  BY <1>3, <1>5 DEF FramesInv
<1> QED BY <1>4, <1>6, <1>7, FramesFacts, FramesHold DEF FramesInv

\* A message other than that of a frame is sent.
LEMMA FramesPost ==
    ASSUME FramesInv, NEW m \in Message, m.kind # "ready", channel' = Append(channel, m),
           UNCHANGED <<painters, made, pending, rendering, needsRepaint, handling, saw, shutdown, fresh>>
    PROVE  FramesInv'
<1>1. channel \in Seq(Message)
  BY DEF FramesInv
<1>2. /\ channel' \in Seq(Message)
      /\ \A p : ReadyIn(channel', p) = ReadyIn(channel, p)
      /\ \A p : \A i \in ReadyIn(channel, p) : channel'[i] = channel[i]
  <2> DEFINE t == channel'
  <2>1. t = Append(channel, m)
    OBVIOUS
  <2> HIDE DEF t
  <2>2. ASSUME NEW p
        PROVE  /\ t \in Seq(Message) /\ ReadyIn(t, p) = ReadyIn(channel, p)
               /\ \A i \in ReadyIn(channel, p) : t[i] = channel[i]
    <3>1. /\ t \in Seq(Message) /\ Len(t) = Len(channel) + 1 /\ Len(channel) \in Nat
          /\ DOMAIN channel = 1 .. Len(channel) /\ DOMAIN t = 1 .. (Len(channel) + 1)
          /\ \A i \in 1 .. Len(channel) : t[i] = channel[i]
          /\ t[Len(channel) + 1] = m
      BY <1>1, <2>1, AppendProperties
    <3>2. ReadyIn(t, p) = ReadyIn(channel, p)
      BY <3>1 DEF ReadyIn
    <3>3. \A i \in ReadyIn(channel, p) : t[i] = channel[i]
      BY <3>1 DEF ReadyIn
    <3> QED BY <3>1, <3>2, <3>3
  <2> QED BY <2>2 DEF t
<1>3. \A p \in fresh : shutdown # "finished" =>
         \/ p \in needsRepaint \/ saw[p] = "repaint"
         \/ \E i \in ReadyIn(channel', p) : channel'[i].repaint
  BY <1>2, FramesFacts
<1> QED BY <1>2, <1>3, FramesFacts, FramesHold DEF FramesInv

\* WebRender has finished a frame.
LEMMA FramesReadySent ==
    ASSUME ViewsInv, FramesInv, NEW q \in Painters, rendering[q] > 0,
           NEW m \in Message, m.kind = "ready", m.painter = q,
           rendering' = [rendering EXCEPT ![q] = @ - 1], channel' = Append(channel, m),
           fresh' = IF m.repaint /\ q \in painters THEN fresh \cup {q} ELSE fresh,
           UNCHANGED <<painters, made, pending, needsRepaint, handling, saw, shutdown>>
    PROVE  FramesInv'
<1>1. /\ channel \in Seq(Message)
      /\ pending \in [Painters -> Nat] /\ rendering \in [Painters -> Nat]
  BY DEF FramesInv
<1>2. /\ channel' \in Seq(Message) /\ Len(channel') = Len(channel) + 1 /\ Len(channel) \in Nat
      /\ DOMAIN channel = 1 .. Len(channel) /\ DOMAIN channel' = 1 .. (Len(channel) + 1)
      /\ \A i \in 1 .. Len(channel) : channel'[i] = channel[i]
      /\ channel'[Len(channel) + 1] = m
  BY <1>1, AppendProperties
<1>3. \A p : \A i \in ReadyIn(channel, p) : i \in ReadyIn(channel', p) /\ channel'[i] = channel[i]
  BY <1>2 DEF ReadyIn
<1>4. \A p \in Painters : p # q => ReadyIn(channel', p) = ReadyIn(channel, p)
  BY <1>2 DEF ReadyIn
<1>5. /\ ReadyIn(channel', q) = ReadyIn(channel, q) \cup {Len(channel) + 1}
      /\ Len(channel) + 1 \notin ReadyIn(channel, q)
  BY <1>2 DEF ReadyIn
<1>6. /\ IsFiniteSet(ReadyIn(channel, q)) /\ Cardinality(ReadyIn(channel, q)) \in Nat
      /\ Cardinality(ReadyIn(channel', q)) = Cardinality(ReadyIn(channel, q)) + 1
  <2>1. IsFiniteSet(ReadyIn(channel, q)) /\ Cardinality(ReadyIn(channel, q)) \in Nat
    BY <1>1, ReadyFinite
  <2> DEFINE r == ReadyIn(channel, q)
             n == Len(channel) + 1
  <2>2. n \notin r /\ IsFiniteSet(r)
    BY <1>5, <2>1
  <2> HIDE DEF r, n
  <2>3. Cardinality(r \cup {n}) = Cardinality(r) + 1
    BY <2>2, FS_AddElement
  <2> QED BY <1>5, <2>1, <2>3 DEF r, n
<1>7. /\ rendering' \in [Painters -> Nat]
      /\ \A p \in Painters : p # q => rendering'[p] = rendering[p]
      /\ rendering'[q] = rendering[q] - 1 /\ rendering[q] \in Nat /\ pending[q] \in Nat
  BY <1>1
<1>8. ~(q > made) /\ painters \subseteq Painters
  <2>1. q > made => rendering[q] = 0
    BY DEF FramesInv
  <2> QED BY <1>7, <2>1, PaintersMade
<1>9. \A p \in painters :
         /\ pending[p] >= rendering'[p] + Cardinality(ReadyIn(channel', p))
         /\ shutdown # "finished" =>
               pending[p] = rendering'[p] + Cardinality(ReadyIn(channel', p))
  <2> TAKE p \in painters
  <2>1. CASE p = q
    <3>1. /\ pending[q] >= rendering[q] + Cardinality(ReadyIn(channel, q))
          /\ shutdown # "finished" =>
                pending[q] = rendering[q] + Cardinality(ReadyIn(channel, q))
      BY <2>1, FramesFacts
    <3> QED BY <1>6, <1>7, <2>1, <3>1
  <2>2. CASE p # q
    BY <1>4, <1>7, <1>8, <2>2, FramesFacts
  <2> QED BY <2>1, <2>2
<1>10. \A p \in Painters : p > made =>
          pending[p] = 0 /\ rendering'[p] = 0 /\ ReadyIn(channel', p) = {}
  BY <1>4, <1>7, <1>8 DEF FramesInv
<1>11. \A p \in fresh' : shutdown # "finished" =>
          \/ p \in needsRepaint \/ saw[p] = "repaint"
          \/ \E i \in ReadyIn(channel', p) : channel'[i].repaint
  <2> TAKE p \in fresh'
  <2>1. CASE p \in fresh
    BY <1>3, <2>1, FramesFacts
  <2>2. CASE p \notin fresh
    <3>1. p = q /\ m.repaint
      BY <2>2
    <3>2. Len(channel) + 1 \in ReadyIn(channel', q) /\ channel'[Len(channel) + 1] = m
      BY <1>2, <1>5
    <3> QED BY <3>1, <3>2
  <2> QED BY <2>1, <2>2
<1>12. fresh' \subseteq painters
  BY DEF FramesInv
<1> QED BY <1>2, <1>7, <1>9, <1>10, <1>11, <1>12, FramesHold DEF FramesInv

\* The newest frame is shown.
LEMMA FramesRender ==
    ASSUME FramesInv, NEW w \in Views, Render(w)
    PROVE  FramesInv'
<1> DEFINE q == viewOf[w]
<1>1. /\ needsRepaint' = needsRepaint \ {q} /\ fresh' = fresh \ {q}
      /\ UNCHANGED <<painters, made, pending, rendering, channel, handling, saw, shutdown>>
  BY DEF Render, painterVars, frameVars, loopVars
<1> HIDE DEF q
<1>2. fresh' \subseteq painters'
  BY <1>1 DEF FramesInv
<1>3. \A p \in fresh' : shutdown # "finished" =>
         \/ p \in needsRepaint' \/ saw[p] = "repaint"
         \/ \E i \in ReadyIn(channel, p) : channel[i].repaint
  BY <1>1, FramesFacts
<1> QED BY <1>1, <1>2, <1>3, FramesFacts, FramesHold DEF FramesInv

\* A batch begins: its frames are counted, and a repaint is remembered.
LEMMA FramesHandle ==
    ASSUME ViewsInv, FramesInv, HandleMessages
    PROVE  FramesInv'
<1>1. /\ UNCHANGED <<painters, made, rendering, needsRepaint, shutdown, fresh>>
      /\ channel' = <<>> /\ handling' = TRUE /\ ~handling
  BY DEF HandleMessages, painterVars, Idle
<1>2. /\ pending' = [p \in Painters |->
              IF p \in painters THEN pending[p] - Cardinality(ReadyIn(channel, p)) ELSE pending[p]]
      /\ saw' = [p \in Painters |->
              IF p \notin painters \/ ReadyFor(p) = {} THEN "none"
              ELSE IF SawRepaint(p) THEN "repaint" ELSE "quiet"]
  BY ReadyForIsIn DEF HandleMessages, FramesReady
<1>3. /\ pending \in [Painters -> Nat] /\ rendering \in [Painters -> Nat]
      /\ painters \subseteq Painters /\ fresh \subseteq painters
      /\ \A p \in painters : ~(p > made)
  BY PaintersMade DEF FramesInv
<1>4. \A p : ReadyIn(channel', p) = {} /\ Cardinality(ReadyIn(channel', p)) = 0
  BY <1>1, ReadyEmpty
<1>5. channel' \in Seq(Message) /\ saw' \in [Painters -> {"none", "quiet", "repaint"}]
  BY <1>1, <1>2
<1>6. ASSUME NEW p \in painters
      PROVE  /\ pending'[p] \in Nat
             /\ pending'[p] >= rendering[p] + Cardinality(ReadyIn(channel', p))
             /\ shutdown # "finished" =>
                   pending'[p] = rendering[p] + Cardinality(ReadyIn(channel', p))
  <2>1. /\ pending'[p] = pending[p] - Cardinality(ReadyIn(channel, p))
        /\ pending[p] \in Nat /\ rendering[p] \in Nat
    BY <1>2, <1>3
  <2>2. /\ Cardinality(ReadyIn(channel, p)) \in Nat
        /\ pending[p] >= rendering[p] + Cardinality(ReadyIn(channel, p))
        /\ shutdown # "finished" =>
              pending[p] = rendering[p] + Cardinality(ReadyIn(channel, p))
    BY <1>3, FramesFacts
  <2>3. Cardinality(ReadyIn(channel', p)) = 0
    BY <1>4
  <2> QED BY <2>1, <2>2, <2>3
<1>7. pending' \in [Painters -> Nat]
  <2>1. \A p \in Painters :
           (IF p \in painters THEN pending[p] - Cardinality(ReadyIn(channel, p)) ELSE pending[p]) \in Nat
    <3> TAKE p \in Painters
    <3>1. pending[p] \in Nat
      BY <1>3
    <3>2. p \in painters => pending'[p] \in Nat /\ pending'[p] = pending[p] - Cardinality(ReadyIn(channel, p))
      BY <1>2, <1>6
    <3> QED BY <3>1, <3>2
  <2> QED BY <1>2, <2>1
<1>8. \A p \in Painters : p > made =>
         pending'[p] = 0 /\ rendering[p] = 0 /\ ReadyIn(channel', p) = {}
  BY <1>2, <1>3, <1>4 DEF FramesInv
<1>9. \A p \in fresh : shutdown # "finished" => p \in needsRepaint \/ saw'[p] = "repaint"
  <2> SUFFICES ASSUME NEW p \in fresh, shutdown # "finished", p \notin needsRepaint
               PROVE  saw'[p] = "repaint"
    OBVIOUS
  <2>1. p \in painters /\ p \in Painters
    BY <1>3
  <2>2. saw[p] = "none"
    BY <1>1, <2>1 DEF FramesInv
  <2>3. SawRepaint(p)
    BY <2>2 DEF FramesInv, RepaintNotLost
  <2>4. ReadyFor(p) # {}
    BY <2>3 DEF SawRepaint
  <2> QED BY <1>2, <2>1, <2>3, <2>4
<1> QED BY <1>1, <1>3, <1>5, <1>6, <1>7, <1>8, <1>9, FramesHold

\* A message of the batch is handled; a painter may ask for a frame for it.
LEMMA FramesBrowser ==
    ASSUME ViewsInv, FramesInv, HandleBrowserMessage
    PROVE  FramesInv'
<1> DEFINE q == Head(batch).painter
<1>1. UNCHANGED <<painters, made, needsRepaint, channel, handling, saw, shutdown, fresh>>
  BY DEF HandleBrowserMessage, painterVars
<1>2. Submit({q} \cap painters) \/ UNCHANGED frameVars
  BY DEF HandleBrowserMessage
<1> HIDE DEF q
<1>3. CASE Submit({q} \cap painters)
  <2> DEFINE ps == {q} \cap painters
  <2>1. ps \subseteq painters /\ Submit(ps)
    BY <1>3
  <2> HIDE DEF ps
  <2> QED BY <1>1, <2>1, FramesSubmit
<1>4. CASE UNCHANGED frameVars
  BY <1>1, <1>4, FramesFacts, FramesHold DEF FramesInv, frameVars
<1> QED BY <1>2, <1>3, <1>4

\* A batch ends, in the middle of a shutdown or with the painters being told.
LEMMA FramesEnd ==
    ASSUME ViewsInv, FramesInv, AbandonMessages \/ EndMessages
    PROVE  FramesInv'
<1>1. /\ UNCHANGED <<painters, made, pending, rendering, channel, shutdown, fresh>>
      /\ saw' = [p \in Painters |-> "none"]
  BY DEF AbandonMessages, EndMessages, painterVars, frameVars
<1>2. \/ shutdown = "finished"
      \/ needsRepaint' = needsRepaint \cup {p \in painters : saw[p] = "repaint"}
  BY DEF AbandonMessages, EndMessages
<1>3. \A p \in fresh : shutdown # "finished" =>
         p \in needsRepaint' \/ \E i \in ReadyIn(channel, p) : channel[i].repaint
  <2>1. \A p \in fresh : p \in painters
    BY DEF FramesInv
  <2> QED BY <1>2, <2>1, FramesFacts
<1>4. saw' \in [Painters -> {"none", "quiet", "repaint"}] /\ \A p \in Painters : saw'[p] = "none"
  BY <1>1
<1> QED BY <1>1, <1>3, <1>4, FramesFacts, FramesHold DEF FramesInv

\* A shutdown begins.
LEMMA FramesStart ==
    ASSUME FramesInv, StartShuttingDown
    PROVE  FramesInv'
<1>1. /\ UNCHANGED <<painters, made, pending, rendering, needsRepaint, channel, handling, saw, fresh>>
      /\ shutdown = "no" /\ shutdown' = "shutting"
  BY DEF StartShuttingDown, painterVars, frameVars, loopVars
<1> QED BY <1>1, FramesFacts, FramesHold DEF FramesInv

\* A shutdown ends: frames in the channel are no longer heard of.
LEMMA FramesFinish ==
    ASSUME ViewsInv, FramesInv, FinishShuttingDown
    PROVE  FramesInv'
<1>1. /\ UNCHANGED <<painters, made, pending, rendering, needsRepaint, handling, saw, fresh>>
      /\ channel' = <<>> /\ shutdown' = "finished"
  BY DEF FinishShuttingDown, painterVars, frameVars, loopVars
<1>2. \A p : ReadyIn(channel', p) = {} /\ Cardinality(ReadyIn(channel', p)) = 0
  BY <1>1, ReadyEmpty
<1>3. ASSUME NEW p \in painters
      PROVE  pending[p] >= rendering[p] + Cardinality(ReadyIn(channel', p))
  <2>1. p \in Painters /\ pending[p] \in Nat /\ rendering[p] \in Nat
    BY PaintersMade DEF FramesInv
  <2>2. /\ Cardinality(ReadyIn(channel, p)) \in Nat
        /\ pending[p] >= rendering[p] + Cardinality(ReadyIn(channel, p))
    BY <2>1, FramesFacts
  <2>3. Cardinality(ReadyIn(channel', p)) = 0
    BY <1>2
  <2> QED BY <2>1, <2>2, <2>3
<1>4. channel' \in Seq(Message)
  BY <1>1
<1> QED BY <1>1, <1>2, <1>3, <1>4, FramesHold DEF FramesInv

\* Every step keeps the counts of frames.
LEMMA FramesStep ==
    ASSUME ViewsInv, FramesInv, [Next]_vars
    PROVE  FramesInv'
<1>1. CASE UNCHANGED vars
  BY <1>1, FramesFacts, FramesHold
     DEF FramesInv, vars, painterVars, frameVars, loopVars
<1>2. ASSUME NEW w \in Views, ShowWebview(w) \/ PassInput(w) PROVE FramesInv'
  <2> DEFINE ps == {viewOf[w]}
  <2>1. /\ Submit(ps) /\ ps \subseteq painters
        /\ UNCHANGED <<painters, made, needsRepaint, channel, handling, saw, shutdown, fresh>>
    BY <1>2 DEF ShowWebview, PassInput, painterVars, loopVars
  <2> HIDE DEF ps
  <2> QED BY <2>1, FramesSubmit
<1>3. CASE PerformUpdates
  <2>1. /\ Submit(painters)
        /\ UNCHANGED <<painters, made, needsRepaint, channel, handling, saw, shutdown, fresh>>
    BY <1>3 DEF PerformUpdates, painterVars, loopVars
  <2> QED BY <2>1, FramesSubmit
<1>4. CASE AddWebview
  <2>1. UNCHANGED <<painters, made, pending, rendering, needsRepaint, channel, handling, saw,
                    shutdown, fresh>>
    BY <1>4 DEF AddWebview, frameVars, loopVars
  <2> QED BY <2>1, FramesFacts, FramesHold DEF FramesInv
<1>5. ASSUME NEW p \in Painters, PostToPainter(p) PROVE FramesInv'
  <2>1. PICK kind \in {"draw", "exit"} : channel' = Append(channel, [kind |-> kind, painter |-> p])
    BY <1>5 DEF PostToPainter, Send
  <2> DEFINE m == [kind |-> kind, painter |-> p]
  <2>2. m \in Message /\ m.kind # "ready" /\ channel' = Append(channel, m)
    BY <2>1 DEF Message
  <2>3. UNCHANGED <<painters, made, pending, rendering, needsRepaint, handling, saw, shutdown, fresh>>
    BY <1>5 DEF PostToPainter, painterVars, frameVars, loopVars
  <2> HIDE DEF m
  <2> QED BY <2>2, <2>3, FramesPost
<1>6. ASSUME NEW p \in Painters, NEW a \in Askers, Ask(a, p) PROVE FramesInv'
  <2> DEFINE m == [kind |-> "keys", painter |-> p, asker |-> a]
  <2>1. m \in Message /\ m.kind # "ready" /\ channel' = Append(channel, m)
    BY <1>6 DEF Ask, Send, Message
  <2>2. UNCHANGED <<painters, made, pending, rendering, needsRepaint, handling, saw, shutdown, fresh>>
    BY <1>6 DEF Ask, painterVars, frameVars, loopVars
  <2> HIDE DEF m
  <2> QED BY <2>1, <2>2, FramesPost
<1>7. ASSUME NEW p \in Painters, NEW repaint \in BOOLEAN, FrameReady(p, repaint) PROVE FramesInv'
  <2> DEFINE m == [kind |-> "ready", painter |-> p, repaint |-> repaint]
  <2>1. m \in Message /\ m.kind = "ready" /\ m.painter = p /\ channel' = Append(channel, m)
    BY <1>7 DEF FrameReady, Send, Message
  <2>2. /\ rendering[p] > 0 /\ rendering' = [rendering EXCEPT ![p] = @ - 1]
        /\ UNCHANGED <<painters, made, pending, needsRepaint, handling, saw, shutdown>>
    BY <1>7 DEF FrameReady, painterVars, loopVars
  <2>3. fresh' = IF m.repaint /\ p \in painters THEN fresh \cup {p} ELSE fresh
    BY <1>7 DEF FrameReady
  <2> HIDE DEF m
  <2> QED BY <2>1, <2>2, <2>3, FramesReadySent
<1> QED BY <1>1, <1>2, <1>3, <1>4, <1>5, <1>6, <1>7, FramesRegister, FramesRemove, FramesRender,
           FramesHandle, FramesBrowser, FramesEnd, FramesStart, FramesFinish DEF Next

-----------------------------------------------------------------------------

\* The expect of painter() never fails for a web view that is open or being
\* opened, and a painter goes with its last view.
THEOREM PaintersCorrect == Spec => []ViewsHavePainter
<1>1. Spec => []ViewsInv
  BY ViewsInit, ViewsStep, PTL DEF Spec
<1>2. ViewsInv => ViewsHavePainter
  BY DEF ViewsInv
<1> QED BY <1>1, <1>2, PTL

\* The counts of frames hold in every reachable state.
LEMMA FramesAlways == Spec => []FramesInv
<1>1. Init => ViewsInv /\ FramesInv
  BY ViewsInit, FramesInit
<1>2. ViewsInv /\ FramesInv /\ [Next]_vars => ViewsInv' /\ FramesInv'
  BY ViewsStep, FramesStep
<1> QED BY <1>1, <1>2, PTL DEF Spec

\* pending_frames is the number of frames that handle_messages still has to
\* count down: its decrement never passes zero.
THEOREM FramesCorrect == Spec => []PendingFramesMatch
<1>1. FramesInv => PendingFramesMatch
  BY DEF FramesInv
<1> QED BY <1>1, FramesAlways, PTL

\* A frame that needs a repaint reaches its painter, whatever else is in the
\* batches of messages that handle_messages is given.
THEOREM RepaintCorrect == Spec => []RepaintNotLost
<1>1. FramesInv => RepaintNotLost
  BY DEF FramesInv
<1> QED BY <1>1, FramesAlways, PTL

-----------------------------------------------------------------------------
(* Threads that wait for keys.                                             *)

\* Some numbers have a least one.
LEMMA LeastNumber ==
    ASSUME NEW S, S \subseteq Nat, S # {}
    PROVE  \E n \in S : \A m \in S : n <= m
<1> DEFINE R == OpToRel(<, Nat)
<1>1. IsWellFoundedOn(R, Nat)
  BY NatLessThanWellFounded
<1>2. \A x, y \in Nat : x < y => <<x, y>> \in R
  BY DEF OpToRel
<1> HIDE DEF R
<1>3. PICK n \in S : \A m \in S : <<m, n>> \notin R
  BY <1>1, WFMin
<1>4. \A m \in S : n <= m
  <2> TAKE m \in S
  <2>1. m \in Nat /\ n \in Nat /\ ~(m < n)
    BY <1>2, <1>3
  <2> QED BY <2>1
<1> QED BY <1>4

\* What FlattenSeq computes up to the n-th list.
Flattens(lists, n, g) == g = [i \in 1 .. n |-> IF i = 1 THEN lists[i] ELSE g[i - 1] \o lists[i]]

\* There is a function that flattens: if there were none up to some list, take
\* the first such one; the function up to the list before it can be extended.
LEMMA FlattensExists ==
    ASSUME NEW lists, NEW n \in Nat, n >= 1
    PROVE  \E g : Flattens(lists, n, g)
<1> DEFINE none == {k \in Nat : k >= 1 /\ ~\E g : Flattens(lists, k, g)}
<1> SUFFICES ASSUME none # {} PROVE FALSE
  OBVIOUS
<1>1. PICK k \in none : \A m \in none : k <= m
  <2> HIDE DEF none
  <2>1. none \subseteq Nat
    BY DEF none
  <2> QED BY <2>1, LeastNumber
<1>2. k # 1
  <2> SUFFICES ASSUME k = 1 PROVE FALSE
    OBVIOUS
  <2> DEFINE g == [i \in 1 .. 1 |-> lists[i]]
  <2>1. Flattens(lists, 1, g)
    <3>1. \A i \in 1 .. 1 : lists[i] = IF i = 1 THEN lists[i] ELSE g[i - 1] \o lists[i]
      OBVIOUS
    <3> QED BY <3>1 DEF Flattens
  <2> QED BY <2>1
<1>3. k - 1 \in Nat /\ k - 1 >= 1 /\ k - 1 \notin none
  BY <1>1, <1>2
<1>4. PICK g : Flattens(lists, k - 1, g)
  BY <1>3
<1> DEFINE h == [i \in 1 .. k |-> IF i = k THEN g[i - 1] \o lists[i] ELSE g[i]]
<1>5. \A i \in 1 .. k : h[i] = IF i = 1 THEN lists[i] ELSE h[i - 1] \o lists[i]
  <2> TAKE i \in 1 .. k
  <2>1. CASE i = k
    <3>1. k - 1 \in 1 .. k /\ k - 1 # k /\ k \in 1 .. k
      BY <1>3
    <3>2. h[k - 1] = g[k - 1] /\ h[k] = g[k - 1] \o lists[k]
      BY <3>1
    <3> HIDE DEF h
    <3> QED BY <1>2, <2>1, <3>2
  <2>2. CASE i # k
    <3>1. i \in 1 .. k - 1
      BY <1>3, <2>2
    <3>2. h[i] = g[i] /\ g[i] = IF i = 1 THEN lists[i] ELSE g[i - 1] \o lists[i]
      <4>1. h[i] = g[i]
        BY <2>2
      <4> QED BY <1>4, <3>1, <4>1 DEF Flattens
    <3>3. i # 1 => h[i - 1] = g[i - 1]
      <4>1. i # 1 => i - 1 \in 1 .. k /\ i - 1 # k
        BY <1>3, <3>1
      <4> QED BY <4>1
    <3> HIDE DEF h
    <3> QED BY <3>2, <3>3
  <2> QED BY <2>1, <2>2
<1>6. Flattens(lists, k, h)
  <2>1. h = [i \in 1 .. k |-> h[i]]
    OBVIOUS
  <2> HIDE DEF h
  <2>2. [i \in 1 .. k |-> h[i]] = [i \in 1 .. k |-> IF i = 1 THEN lists[i] ELSE h[i - 1] \o lists[i]]
    BY <1>5
  <2> QED BY <2>1, <2>2 DEF Flattens
<1> QED BY <1>1, <1>6

\* Flattening keeps every element of every list and adds none.
LEMMA FlattenKeeps ==
    ASSUME NEW S, NEW lists, Len(lists) \in Nat, Len(lists) >= 1,
           \A i \in 1 .. Len(lists) : lists[i] \in Seq(S)
    PROVE  /\ FlattenSeq(lists) \in Seq(S)
           /\ \A i \in 1 .. Len(lists) : \A j \in 1 .. Len(lists[i]) :
                 \E k \in 1 .. Len(FlattenSeq(lists)) : FlattenSeq(lists)[k] = lists[i][j]
<1> DEFINE L == Len(lists)
           g == CHOOSE g : Flattens(lists, L, g)
<1>1. FlattenSeq(lists) = g[L]
  BY DEF FlattenSeq, Flattens
<1>2. Flattens(lists, L, g)
  BY FlattensExists
<1> HIDE DEF g, L
<1>3. L \in Nat /\ L >= 1 /\ \A i \in 1 .. L : lists[i] \in Seq(S)
  BY DEF L
<1>4. \A i \in 1 .. L : g[i] = IF i = 1 THEN lists[i] ELSE g[i - 1] \o lists[i]
  BY <1>2 DEF Flattens
<1> DEFINE Holds(s, l) == \A j \in 1 .. Len(l) : \E k \in 1 .. Len(s) : s[k] = l[j]
           Good(i) == g[i] \in Seq(S) /\ \A m \in 1 .. i : Holds(g[i], lists[m])
<1>5. Good(1)
  <2>1. g[1] = lists[1] /\ lists[1] \in Seq(S)
    BY <1>3, <1>4
  <2> QED BY <2>1
<1>6. ASSUME NEW i \in 2 .. L, Good(i - 1) PROVE Good(i)
  <2> DEFINE s == g[i - 1]
             t == lists[i]
  <2>1. i \in 1 .. L /\ i # 1 /\ g[i] = s \o t /\ s \in Seq(S) /\ t \in Seq(S)
    <3>1. i \in 1 .. L /\ i # 1
      BY <1>3
    <3>2. g[i] = s \o t
      BY <1>4, <3>1
    <3>3. s \in Seq(S)
      BY <1>6
    <3> QED BY <1>3, <3>1, <3>2, <3>3
  <2>2. \A m \in 1 .. i - 1 : Holds(s, lists[m])
    BY <1>6
  <2> HIDE DEF s, t
  <2>3. /\ s \o t \in Seq(S) /\ Len(s \o t) = Len(s) + Len(t) /\ Len(s) \in Nat /\ Len(t) \in Nat
        /\ \A k \in 1 .. Len(s) + Len(t) : (s \o t)[k] = IF k <= Len(s) THEN s[k] ELSE t[k - Len(s)]
    BY <2>1, ConcatProperties
  <2>4. \A k \in 1 .. Len(s) : k \in 1 .. Len(s \o t) /\ (s \o t)[k] = s[k]
    BY <2>3
  <2>5. \A k \in 1 .. Len(t) : Len(s) + k \in 1 .. Len(s \o t) /\ (s \o t)[Len(s) + k] = t[k]
    <3> TAKE k \in 1 .. Len(t)
    <3>1. Len(s) + k \in 1 .. Len(s) + Len(t) /\ ~(Len(s) + k <= Len(s)) /\ Len(s) + k - Len(s) = k
      BY <2>3
    <3> QED BY <2>3, <3>1
  <2> DEFINE u == s \o t
  <2>6. Holds(u, t)
    BY <2>5
  <2>7. \A m \in 1 .. i - 1 : Holds(u, lists[m])
    <3> TAKE m \in 1 .. i - 1
    <3>1. \A j \in 1 .. Len(lists[m]) : \E k \in 1 .. Len(s) : s[k] = lists[m][j]
      BY <2>2
    <3> QED BY <2>4, <3>1
  <2>8. \A m \in 1 .. i : m \in 1 .. i - 1 \/ m = i
    BY <2>1
  <2> HIDE DEF u, Holds
  <2>9. \A m \in 1 .. i : Holds(u, lists[m])
    BY <2>6, <2>7, <2>8 DEF t
  <2> QED BY <2>1, <2>3, <2>9 DEF u
<1> HIDE DEF Good
<1>7. Good(L)
  <2> SUFFICES ASSUME ~Good(L) PROVE FALSE
    OBVIOUS
  <2> DEFINE bad == {i \in 1 .. L : ~Good(i)}
  <2>1. bad \subseteq Nat /\ bad # {}
    <3>1. L \in 1 .. L
      BY <1>3
    <3>2. L \in bad
      BY <3>1
    <3>3. 1 .. L \subseteq Nat
      OBVIOUS
    <3> QED BY <3>2, <3>3
  <2> HIDE DEF bad
  <2>2. PICK m \in bad : \A i \in bad : m <= i
    BY <2>1, LeastNumber
  <2>3. m \in 1 .. L /\ ~Good(m) /\ m # 1
    BY <1>5, <2>2 DEF bad
  <2>4. m \in 2 .. L /\ m - 1 \in 1 .. L /\ ~(m <= m - 1)
    BY <1>3, <2>3
  <2>5. Good(m - 1)
    BY <2>2, <2>4 DEF bad
  <2> QED BY <1>6, <2>3, <2>4, <2>5
<1> QED BY <1>1, <1>7 DEF Good, L

\* Some message of msgs is a request of asker a.
AsksIn(msgs, a) == \E i \in DOMAIN msgs : msgs[i].kind = "keys" /\ msgs[i].asker = a

\* What the requests need to be answered, and the types of the rest.
AskInv ==
    /\ batch \in Seq(Message) /\ channel \in Seq(Message)
    /\ handling \in BOOLEAN /\ shutdown \in {"no", "shutting", "finished"}
    /\ asking \in [Askers -> {"idle", "waiting", "refused"}]
    /\ rendering \in [Painters -> 0 .. MaxFrames] /\ needsRepaint \subseteq painters
    /\ ~handling => batch = <<>>
    /\ \A a \in Askers : asking[a] = "waiting" => AsksIn(batch, a) \/ AsksIn(channel, a)
    /\ \A a \in Askers : asking[a] = "refused" => shutdown = "finished"

\* There is no request in an empty sequence.
LEMMA NoneAsks == \A a : ~AsksIn(<<>>, a)
  BY DEF AsksIn

\* What is retained of the messages: every request.
LEMMA RetainedIs ==
    ASSUME NEW msgs \in Seq(Message), msgs # <<>>
    PROVE  /\ Retained(msgs) \in Seq(Message)
           /\ \A a : AsksIn(msgs, a) => AsksIn(Retained(msgs), a)
<1> DEFINE lists == [i \in DOMAIN msgs |-> IF msgs[i].kind = "ready" THEN <<>> ELSE <<msgs[i]>>]
           flat == Retained(msgs)
<1>1. Len(msgs) \in Nat /\ Len(msgs) >= 1 /\ DOMAIN msgs = 1 .. Len(msgs)
      /\ \A i \in 1 .. Len(msgs) : msgs[i] \in Message
  OBVIOUS
<1>2. \A i \in 1 .. Len(msgs) :
         /\ lists[i] \in Seq(Message)
         /\ msgs[i].kind # "ready" => lists[i] = <<msgs[i]>>
  <2> TAKE i \in 1 .. Len(msgs)
  <2>1. lists[i] = IF msgs[i].kind = "ready" THEN <<>> ELSE <<msgs[i]>>
    BY <1>1
  <2>2. <<>> \in Seq(Message) /\ <<msgs[i]>> \in Seq(Message)
    BY <1>1
  <2> HIDE DEF lists
  <2> QED BY <2>1, <2>2
<1>3. lists \in Seq(Seq(Message)) /\ Len(lists) = Len(msgs)
  BY <1>1, <1>2
<1>4. flat = FlattenSeq(lists)
  BY DEF Retained
<1> HIDE DEF lists, flat
<1>5. /\ flat \in Seq(Message)
      /\ \A i \in 1 .. Len(msgs) : \A j \in 1 .. Len(lists[i]) :
            \E k \in 1 .. Len(flat) : flat[k] = lists[i][j]
  <2>1. Len(lists) \in Nat /\ Len(lists) >= 1 /\ \A i \in 1 .. Len(lists) : lists[i] \in Seq(Message)
    BY <1>1, <1>2, <1>3
  <2> QED BY <1>3, <1>4, <2>1, FlattenKeeps
<1>6. ASSUME NEW a, AsksIn(msgs, a) PROVE AsksIn(flat, a)
  <2>1. PICK i \in 1 .. Len(msgs) : msgs[i].kind = "keys" /\ msgs[i].asker = a
    BY <1>1, <1>6 DEF AsksIn
  <2>2. lists[i] = <<msgs[i]>>
    BY <1>2, <2>1
  <2>3. 1 \in 1 .. Len(lists[i]) /\ lists[i][1] = msgs[i]
    BY <2>2
  <2>4. PICK k \in 1 .. Len(flat) : flat[k] = msgs[i]
    BY <1>5, <2>3
  <2>5. k \in DOMAIN flat
    BY <1>5
  <2> QED BY <2>1, <2>4, <2>5 DEF AsksIn
<1> QED BY <1>5, <1>6 DEF flat

\* Submit keeps within the bound on frames.
LEMMA SubmitBound ==
    ASSUME rendering \in [Painters -> 0 .. MaxFrames], NEW ps, Submit(ps)
    PROVE  rendering' \in [Painters -> 0 .. MaxFrames]
<1>1. PICK new \in SUBSET {p \in ps : rendering[p] < MaxFrames} :
         rendering' = [p \in Painters |-> IF p \in new THEN rendering[p] + 1 ELSE rendering[p]]
  BY DEF Submit
<1>2. MaxFrames \in Nat
  BY BoundsAssumption
<1>3. \A p \in Painters : (IF p \in new THEN rendering[p] + 1 ELSE rendering[p]) \in 0 .. MaxFrames
  BY <1>2
<1> QED BY <1>1, <1>3

\* A message is sent, perhaps with its asker then waiting.
LEMMA AskSent ==
    ASSUME AskInv, NEW m \in Message, channel' = Append(channel, m),
           UNCHANGED <<batch, handling, shutdown, needsRepaint, painters>>,
           rendering' \in [Painters -> 0 .. MaxFrames],
           \/ UNCHANGED asking
           \/ m.kind = "keys" /\ m.asker \in Askers /\ asking' = [asking EXCEPT ![m.asker] = "waiting"]
    PROVE  AskInv'
<1>1. /\ channel \in Seq(Message) /\ channel' \in Seq(Message)
      /\ Len(channel) \in Nat /\ Len(channel') = Len(channel) + 1
      /\ DOMAIN channel = 1 .. Len(channel) /\ DOMAIN channel' = 1 .. Len(channel) + 1
      /\ channel'[Len(channel) + 1] = m
      /\ \A i \in 1 .. Len(channel) : channel'[i] = channel[i]
  BY AppendProperties DEF AskInv
<1>2. \A a : AsksIn(channel, a) => AsksIn(channel', a)
  BY <1>1 DEF AsksIn
<1>3. m.kind = "keys" => AsksIn(channel', m.asker)
  <2>1. Len(channel) + 1 \in DOMAIN channel'
    BY <1>1
  <2> QED BY <1>1, <2>1 DEF AsksIn
<1>4. asking' \in [Askers -> {"idle", "waiting", "refused"}]
  BY DEF AskInv
<1>5. \A a \in Askers : asking'[a] = "waiting" => AsksIn(batch', a) \/ AsksIn(channel', a)
  <2> TAKE a \in Askers
  <2>1. CASE asking'[a] = asking[a]
    BY <1>2, <2>1 DEF AskInv
  <2>2. CASE m.kind = "keys" /\ m.asker = a
    BY <1>3, <2>2
  <2> QED BY <2>1, <2>2 DEF AskInv
<1>6. \A a \in Askers : asking'[a] = "refused" => asking[a] = "refused"
  BY DEF AskInv
<1> QED BY <1>1, <1>4, <1>5, <1>6 DEF AskInv

\* The requests in a channel or batch that is dropped are no longer waited for.
LEMMA AskDropped ==
    ASSUME asking \in [Askers -> {"idle", "waiting", "refused"}], NEW msgs, Dropped(msgs)
    PROVE  /\ asking' \in [Askers -> {"idle", "waiting", "refused"}]
           /\ \A a \in Askers : asking'[a] = "waiting" => asking[a] = "waiting" /\ ~AsksIn(msgs, a)
BY DEF Dropped, AsksIn

\* A message is handled: a request is answered, whatever the shutdown is at.
LEMMA AskBrowser ==
    ASSUME AskInv, HandleBrowserMessage
    PROVE  AskInv'
<1> DEFINE m == Head(batch)
<1>1. /\ batch \in Seq(Message) /\ batch # <<>> /\ handling /\ batch' = Tail(batch)
      /\ UNCHANGED <<painters, needsRepaint, channel, handling, shutdown>>
  BY DEF AskInv, HandleBrowserMessage, painterVars
<1>2. /\ Tail(batch) \in Seq(Message) /\ Len(batch) \in Nat /\ Len(batch) >= 1
      /\ DOMAIN batch = 1 .. Len(batch) /\ DOMAIN Tail(batch) = 1 .. Len(batch) - 1
      /\ \A i \in 1 .. Len(batch) - 1 : Tail(batch)[i] = batch[i + 1]
      /\ m = batch[1]
  BY <1>1
<1>3. /\ \/ m.kind = "keys" /\ SendKeys(m)
         \/ m.kind # "keys" /\ UNCHANGED asking
      /\ Submit({m.painter} \cap painters) \/ UNCHANGED rendering
  <2>1. \/ m.kind = "keys" /\ SendKeys(m) /\ UNCHANGED frameVars
        \/ m.kind # "keys" /\ Submit({m.painter} \cap painters) /\ UNCHANGED asking
        \/ m.kind \notin HandledWhileShuttingDown /\ Dropped(<<m>>) /\ UNCHANGED frameVars
    BY DEF HandleBrowserMessage
  <2>2. m.kind \notin HandledWhileShuttingDown => m.kind # "keys"
    BY DEF HandledWhileShuttingDown
  <2>3. UNCHANGED frameVars => UNCHANGED rendering
    BY DEF frameVars
  <2>4. ASSUME m.kind # "keys", Dropped(<<m>>) PROVE UNCHANGED asking
    <3>1. \A i \in DOMAIN <<m>> : <<m>>[i] = m
      OBVIOUS
    <3>2. asking' = [a \in Askers |-> asking[a]]
      BY <2>4, <3>1 DEF Dropped
    <3> QED BY <3>2 DEF AskInv
  <2> QED BY <2>1, <2>2, <2>3, <2>4
<1> HIDE DEF m
<1>4. rendering' \in [Painters -> 0 .. MaxFrames]
  BY <1>3, SubmitBound DEF AskInv
<1>5. asking' \in [Askers -> {"idle", "waiting", "refused"}]
  BY <1>3 DEF SendKeys, AskInv
<1>6. \A a \in Askers : asking'[a] = "waiting" => AsksIn(batch', a) \/ AsksIn(channel', a)
  <2> SUFFICES ASSUME NEW a \in Askers, asking'[a] = "waiting", ~AsksIn(channel, a) PROVE AsksIn(batch', a)
    BY <1>1
  <2>1. asking[a] = "waiting" /\ ~(m.kind = "keys" /\ m.asker = a)
    BY <1>3 DEF SendKeys, AskInv
  <2>2. AsksIn(batch, a)
    BY <2>1 DEF AskInv
  <2>3. PICK i \in 1 .. Len(batch) : batch[i].kind = "keys" /\ batch[i].asker = a
    BY <1>2, <2>2 DEF AsksIn
  <2>4. i # 1
    BY <1>2, <2>1, <2>3
  <2>5. i - 1 \in 1 .. Len(batch) - 1 /\ i - 1 + 1 = i
    BY <1>2, <2>4
  <2>6. i - 1 \in DOMAIN batch' /\ batch'[i - 1] = batch[i]
    BY <1>1, <1>2, <2>5
  <2> QED BY <2>3, <2>6 DEF AsksIn
<1>7. \A a \in Askers : asking'[a] = "refused" => asking[a] = "refused"
  BY <1>3 DEF SendKeys, AskInv
<1> QED BY <1>1, <1>2, <1>4, <1>5, <1>6, <1>7 DEF AskInv

\* At first nobody waits.
LEMMA AskInit == Init => AskInv
<1> SUFFICES ASSUME Init PROVE AskInv
  OBVIOUS
<1>1. MaxFrames \in Nat
  BY BoundsAssumption
<1>2. rendering \in [Painters -> 0 .. MaxFrames]
  BY <1>1 DEF Init
<1>3. batch = <<>> /\ channel = <<>> /\ shutdown = "no" /\ needsRepaint = {}
  BY DEF Init
<1>4. asking \in [Askers -> {"idle", "waiting", "refused"}] /\ \A a \in Askers : asking[a] = "idle"
  BY DEF Init
<1>5. batch \in Seq(Message) /\ channel \in Seq(Message)
  BY <1>3
<1>6. shutdown \in {"no", "shutting", "finished"} /\ needsRepaint \subseteq painters
  BY <1>3
<1>7. handling \in BOOLEAN
  BY DEF Init
<1> QED BY <1>2, <1>3, <1>4, <1>5, <1>6, <1>7 DEF AskInv

\* Every step keeps the requests.
LEMMA AskStep ==
    ASSUME ViewsInv, AskInv, [Next]_vars
    PROVE  AskInv'
<1> DEFINE Same == UNCHANGED <<batch, channel, handling, shutdown, asking>>
<1>0. ASSUME Same, rendering' \in [Painters -> 0 .. MaxFrames], needsRepaint' \subseteq painters'
      PROVE  AskInv'
  BY <1>0 DEF AskInv
<1>1. rendering \in [Painters -> 0 .. MaxFrames] /\ needsRepaint \subseteq painters
  BY DEF AskInv
<1>2. ASSUME Same, UNCHANGED rendering, needsRepaint' \subseteq painters' PROVE AskInv'
  BY <1>0, <1>1, <1>2
<1>3. ASSUME NEW ps, Submit(ps), Same, UNCHANGED <<needsRepaint, painters>> PROVE AskInv'
  BY <1>0, <1>1, <1>3, SubmitBound
<1>4. CASE UNCHANGED vars
  BY <1>1, <1>2, <1>4 DEF vars, painterVars, frameVars, loopVars
<1>5. ASSUME NEW w \in Views, NEW c \in Contexts, RegisterRenderingContext(w, c) PROVE AskInv'
  BY <1>1, <1>2, <1>5 DEF RegisterRenderingContext, frameVars, loopVars
<1>6. ASSUME NEW w \in Views, RemoveWebview(w) PROVE AskInv'
  <2>1. Same /\ UNCHANGED rendering
    BY <1>6 DEF RemoveWebview, loopVars
  <2>2. needsRepaint' \subseteq painters'
    BY <1>1, <1>6 DEF RemoveWebview, RemovePainter
  <2> QED BY <1>2, <2>1, <2>2
<1>7. ASSUME NEW w \in Views, ShowWebview(w) \/ PassInput(w) PROVE AskInv'
  BY <1>3, <1>7 DEF ShowWebview, PassInput, painterVars, loopVars
<1>8. ASSUME NEW w \in Views, Render(w) PROVE AskInv'
  BY <1>1, <1>2, <1>8 DEF Render, painterVars, frameVars, loopVars
<1>9. CASE AddWebview
  BY <1>1, <1>2, <1>9 DEF AddWebview, frameVars, loopVars
<1>10. CASE PerformUpdates
  BY <1>3, <1>10 DEF PerformUpdates, painterVars, loopVars
<1>11. ASSUME NEW p \in Painters, PostToPainter(p) PROVE AskInv'
  <2>1. PICK kind \in {"draw", "exit"} : channel' = Append(channel, [kind |-> kind, painter |-> p])
    BY <1>11 DEF PostToPainter, Send
  <2>2. [kind |-> kind, painter |-> p] \in Message
    BY DEF Message
  <2>3. UNCHANGED <<batch, handling, shutdown, needsRepaint, painters, rendering, asking>>
    BY <1>11 DEF PostToPainter, painterVars, frameVars, loopVars
  <2> QED BY <1>1, <2>1, <2>2, <2>3, AskSent
<1>12. ASSUME NEW p \in Painters, NEW a \in Askers, Ask(a, p) PROVE AskInv'
  <2> DEFINE m == [kind |-> "keys", painter |-> p, asker |-> a]
  <2>1. channel' = Append(channel, m) /\ asking' = [asking EXCEPT ![a] = "waiting"]
    BY <1>12 DEF Ask, Send
  <2>2. m \in Message /\ m.kind = "keys" /\ m.asker = a
    BY DEF Message
  <2>3. UNCHANGED <<batch, handling, shutdown, needsRepaint, painters, rendering>>
    BY <1>12 DEF Ask, painterVars, frameVars, loopVars
  <2> HIDE DEF m
  <2> QED BY <1>1, <2>1, <2>2, <2>3, AskSent
<1>13. ASSUME NEW p \in Painters, NEW repaint \in BOOLEAN, FrameReady(p, repaint) PROVE AskInv'
  <2> DEFINE m == [kind |-> "ready", painter |-> p, repaint |-> repaint]
  <2>1. channel' = Append(channel, m) /\ rendering[p] > 0 /\ rendering' = [rendering EXCEPT ![p] = @ - 1]
    BY <1>13 DEF FrameReady, Send
  <2>2. m \in Message
    BY DEF Message
  <2>3. UNCHANGED <<batch, handling, shutdown, needsRepaint, painters, asking>>
    BY <1>13 DEF FrameReady, painterVars, loopVars
  <2>4. rendering' \in [Painters -> 0 .. MaxFrames]
    <3>1. rendering[p] - 1 \in 0 .. MaxFrames
      <4>1. MaxFrames \in Nat /\ rendering[p] \in 0 .. MaxFrames /\ rendering[p] > 0
        BY <1>1, <2>1, BoundsAssumption
      <4> QED BY <4>1
    <3> QED BY <1>1, <2>1, <3>1
  <2> HIDE DEF m
  <2> QED BY <2>1, <2>2, <2>3, <2>4, AskSent
<1>14. CASE HandleMessages
  <2>1. /\ batch' = Retained(channel) /\ channel' = <<>> /\ handling' = TRUE /\ batch = <<>>
        /\ channel # <<>> /\ channel \in Seq(Message)
        /\ UNCHANGED <<painters, rendering, needsRepaint, shutdown, asking>>
    BY <1>14 DEF HandleMessages, Idle, AskInv, painterVars
  <2>2. batch' \in Seq(Message) /\ \A a : AsksIn(channel, a) => AsksIn(batch', a)
    BY <2>1, RetainedIs
  <2>3. \A a \in Askers : asking'[a] = "waiting" => AsksIn(batch', a)
    BY <2>1, <2>2, NoneAsks DEF AskInv
  <2>4. channel' \in Seq(Message)
    BY <2>1
  <2> QED BY <2>1, <2>2, <2>3, <2>4 DEF AskInv
<1>15. CASE HandleBrowserMessage
  BY <1>15, AskBrowser
<1>16. CASE AbandonMessages
  <2>1. /\ Dropped(batch) /\ batch' = <<>> /\ handling' = FALSE
        /\ UNCHANGED <<painters, rendering, needsRepaint, channel, shutdown>>
    BY <1>16 DEF AbandonMessages, painterVars, frameVars
  <2>2. /\ asking' \in [Askers -> {"idle", "waiting", "refused"}]
        /\ \A a \in Askers : asking'[a] = "waiting" => asking[a] = "waiting" /\ ~AsksIn(batch, a)
    BY <2>1, AskDropped DEF AskInv
  <2>3. batch' \in Seq(Message) /\ shutdown' = "finished"
    BY <1>16, <2>1 DEF AbandonMessages
  <2> QED BY <2>1, <2>2, <2>3 DEF AskInv
<1>17. CASE EndMessages
  <2>1. /\ batch' = <<>> /\ batch = <<>> /\ handling' = FALSE
        /\ needsRepaint' = needsRepaint \cup {p \in painters : saw[p] = "repaint"}
        /\ UNCHANGED <<painters, rendering, channel, shutdown, asking>>
    BY <1>17 DEF EndMessages, painterVars, frameVars
  <2>2. needsRepaint' \subseteq painters'
    BY <1>1, <2>1
  <2> QED BY <2>1, <2>2 DEF AskInv
<1>18. CASE StartShuttingDown
  <2>1. shutdown = "no" /\ shutdown' = "shutting"
        /\ UNCHANGED <<painters, rendering, needsRepaint, channel, batch, handling, asking>>
    BY <1>18 DEF StartShuttingDown, painterVars, frameVars, loopVars
  <2> QED BY <2>1 DEF AskInv
<1>19. CASE FinishShuttingDown
  <2>1. /\ Dropped(channel) /\ channel' = <<>> /\ shutdown' = "finished" /\ batch = <<>>
        /\ UNCHANGED <<painters, rendering, needsRepaint, batch, handling>>
    BY <1>19 DEF FinishShuttingDown, Idle, AskInv, painterVars, frameVars, loopVars
  <2>2. /\ asking' \in [Askers -> {"idle", "waiting", "refused"}]
        /\ \A a \in Askers : asking'[a] = "waiting" => asking[a] = "waiting" /\ ~AsksIn(channel, a)
    BY <2>1, AskDropped DEF AskInv
  <2>3. \A a \in Askers : asking'[a] # "waiting"
    BY <2>1, <2>2, NoneAsks DEF AskInv
  <2>4. channel' \in Seq(Message)
    BY <2>1
  <2> QED BY <2>1, <2>2, <2>3, <2>4 DEF AskInv
<1> QED
  BY <1>4, <1>5, <1>6, <1>7, <1>8, <1>9, <1>10, <1>11, <1>12, <1>13, <1>14, <1>15, <1>16, <1>17, <1>18, <1>19
     DEF Next

\* Every thread that waits for keys has its request in the channel or in the
\* batch that is being handled, and none is refused before the shutdown is
\* finished; and the variables keep their types.
THEOREM RequestsCorrect == Spec => []RequestsAnswered
<1>1. Init => ViewsInv /\ AskInv
  BY ViewsInit, AskInit
<1>2. ViewsInv /\ AskInv /\ [Next]_vars => ViewsInv' /\ AskInv'
  BY ViewsStep, AskStep
<1>3. ViewsInv /\ FramesInv /\ AskInv => RequestsAnswered
  <2> SUFFICES ASSUME ViewsInv, FramesInv, AskInv PROVE RequestsAnswered
    OBVIOUS
  <2>1. TypeOK
    BY DEF ViewsInv, PainterTypes, FramesInv, AskInv, TypeOK
  <2>2. ASSUME NEW a \in Askers, asking[a] = "waiting"
        PROVE  AsksIn(batch \o channel, a)
    <3>1. batch \in Seq(Message) /\ channel \in Seq(Message)
      BY DEF AskInv
    <3>2. /\ Len(batch) \in Nat /\ Len(channel) \in Nat
          /\ DOMAIN batch = 1 .. Len(batch) /\ DOMAIN channel = 1 .. Len(channel)
          /\ DOMAIN (batch \o channel) = 1 .. Len(batch) + Len(channel)
          /\ \A i \in 1 .. Len(batch) + Len(channel) :
                (batch \o channel)[i] = IF i <= Len(batch) THEN batch[i] ELSE channel[i - Len(batch)]
      BY <3>1
    <3>3. CASE AsksIn(batch, a)
      <4>1. PICK i \in 1 .. Len(batch) : batch[i].kind = "keys" /\ batch[i].asker = a
        BY <3>2, <3>3 DEF AsksIn
      <4>2. i \in DOMAIN (batch \o channel) /\ (batch \o channel)[i] = batch[i]
        BY <3>2
      <4> QED BY <4>1, <4>2 DEF AsksIn
    <3>4. CASE AsksIn(channel, a)
      <4>1. PICK i \in 1 .. Len(channel) : channel[i].kind = "keys" /\ channel[i].asker = a
        BY <3>2, <3>4 DEF AsksIn
      <4>2. /\ Len(batch) + i \in 1 .. Len(batch) + Len(channel)
            /\ ~(Len(batch) + i <= Len(batch)) /\ Len(batch) + i - Len(batch) = i
        BY <3>2
      <4>3. Len(batch) + i \in DOMAIN (batch \o channel) /\ (batch \o channel)[Len(batch) + i] = channel[i]
        BY <3>2, <4>2
      <4> QED BY <4>1, <4>3 DEF AsksIn
    <3> QED BY <2>2, <3>3, <3>4 DEF AskInv
  <2>3. \A a \in Askers : asking[a] = "refused" => shutdown = "finished"
    BY DEF AskInv
  <2> QED BY <2>1, <2>2, <2>3 DEF RequestsAnswered, AsksIn
<1> QED BY <1>1, <1>2, <1>3, FramesAlways, PTL DEF Spec

=============================================================================
