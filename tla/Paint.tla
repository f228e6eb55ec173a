-------------------------------- MODULE Paint --------------------------------
(***************************************************************************)
(* Paint (networking/common/this_paint.rs): the painters, one for each     *)
(* rendering context with web views, and the messages that other threads   *)
(* send them.  The embedder owns Paint: on one thread it opens and closes  *)
(* web views, hands the received messages over in batches, and renders.    *)
(*                                                                         *)
(* Painter, WebRender and the embedder are not part of the repository.  A  *)
(* painter asks WebRender for frames when it is given something to draw    *)
(* and counts those that are not ready; WebRender says when one is.        *)
(***************************************************************************)
EXTENDS Naturals, Sequences, FiniteSets, SequencesExt

CONSTANTS
    Contexts,     \* rendering contexts
    Views,        \* web views
    Askers,       \* threads that ask for keys of fonts or images and wait
    MaxPainters,  \* bound: painters ever made
    MaxFrames,    \* bound: frames that WebRender is working on, per painter
    MaxMessages,  \* bound: messages in the channel
    None

ASSUME BoundsAssumption == {MaxPainters, MaxFrames, MaxMessages} \subseteq Nat
ASSUME NoneAssumption == None \notin Views \X (1 .. MaxPainters)

VARIABLES
    painters,      \* the painters there are
    made,          \* how many were ever made
    contextOf,     \* the rendering context of each painter
    details,       \* keys of painter_surfman_details_map
    viewOf,        \* the painter of each open web view; 0 if it is not open
    opening,       \* a web view whose painter is registered: <<view, painter>>
    pending,       \* pending_frames of each painter
    needsRepaint,  \* painters that were told to repaint
    channel,       \* paint_receiver
    handling,      \* handle_messages is running
    batch,         \* its messages that are still to be handled
    saw,           \* saw_webrender_frame_ready_for_painter
    shutdown,      \* shutdown_state
    rendering,     \* frames WebRender is working on, for each painter
    fresh,         \* painters with a frame that changes what is on show
    asking         \* what each asker is doing

painterVars == <<painters, made, contextOf, details, viewOf, opening>>
frameVars == <<pending, rendering>>
loopVars == <<handling, batch, saw>>
vars == <<painterVars, frameVars, needsRepaint, channel, loopVars, shutdown,
          fresh, asking>>

Painters == 1 .. MaxPainters

\* PaintMessage, by what Paint does with it: "draw" stands for everything that
\* is passed to a painter, "keys" for the requests that are answered.
Message == [kind : {"draw", "exit"}, painter : Painters]
             \cup [kind : {"keys"}, painter : Painters, asker : Askers]
             \cup [kind : {"ready"}, painter : Painters, repaint : BOOLEAN]

Init ==
    /\ painters = {} /\ made = 0 /\ details = {} /\ opening = None
    /\ contextOf = [p \in Painters |-> None]
    /\ viewOf = [w \in Views |-> 0]
    /\ pending = [p \in Painters |-> 0] /\ rendering = [p \in Painters |-> 0]
    /\ needsRepaint = {} /\ fresh = {}
    /\ channel = <<>> /\ handling = FALSE /\ batch = <<>>
    /\ saw = [p \in Painters |-> "none"]
    /\ shutdown = "no"
    /\ asking = [a \in Askers |-> "idle"]

\* The embedder's thread is free for another call.
Idle == ~handling /\ opening = None

-----------------------------------------------------------------------------
(* Web views.  The constructor of a web view registers its rendering       *)
(* context and adds the view (external).                                   *)

\* The painter of the context, or a new one with its connection and adapter.
RegisterRenderingContext(w, c) ==
    /\ Idle /\ viewOf[w] = 0
    /\ \/ \E p \in painters :
             /\ contextOf[p] = c
             /\ opening' = <<w, p>>
             /\ UNCHANGED <<painters, made, contextOf, details>>
       \/ /\ \A p \in painters : contextOf[p] # c
          /\ made < MaxPainters
          /\ made' = made + 1
          /\ painters' = painters \cup {made'}
          /\ contextOf' = [contextOf EXCEPT ![made'] = c]
          /\ details' = details \cup {made'}
          /\ opening' = <<w, made'>>
    /\ UNCHANGED <<viewOf, frameVars, needsRepaint, channel, loopVars, shutdown,
                   fresh, asking>>

AddWebview ==
    /\ opening # None /\ opening[2] \in painters
    /\ viewOf' = [viewOf EXCEPT ![opening[1]] = opening[2]]
    /\ opening' = None
    /\ UNCHANGED <<painters, made, contextOf, details, frameVars, needsRepaint,
                   channel, loopVars, shutdown, fresh, asking>>

RemovePainter(p) ==
    /\ painters' = painters \ {p}
    /\ details' = details \ {p}
    /\ contextOf' = [contextOf EXCEPT ![p] = None]
    /\ pending' = [pending EXCEPT ![p] = 0]
    /\ needsRepaint' = needsRepaint \ {p}
    /\ fresh' = fresh \ {p}

\* Mutant: the painter goes with any of its web views.
LastViewAny(w) == TRUE

\* painter.is_empty() once the view is removed.
LastView(w) == \A v \in Views : v # w => viewOf[v] # viewOf[w]

RemoveWebview(w) ==
    /\ Idle /\ viewOf[w] \in painters
    /\ viewOf' = [viewOf EXCEPT ![w] = 0]
    /\ IF LastView(w)
       THEN RemovePainter(viewOf[w])
       ELSE UNCHANGED <<painters, details, contextOf, pending, needsRepaint, fresh>>
    /\ UNCHANGED <<made, opening, rendering, channel, loopVars,
                   shutdown, asking>>

-----------------------------------------------------------------------------
(* Calls that are passed on to a painter.                                  *)

\* The painters of ps may ask WebRender for a frame each (external).
Submit(ps) ==
    \E new \in SUBSET {p \in ps : rendering[p] < MaxFrames} :
        /\ pending' = [p \in Painters |-> IF p \in new THEN pending[p] + 1 ELSE pending[p]]
        /\ rendering' = [p \in Painters |-> IF p \in new THEN rendering[p] + 1 ELSE rendering[p]]

\* Showing and hiding.
ShowWebview(w) ==
    /\ Idle /\ viewOf[w] \in painters
    /\ Submit({viewOf[w]})
    /\ UNCHANGED <<painterVars, needsRepaint, channel, loopVars, shutdown, fresh, asking>>

\* Input, zooming and resizing, which a shutdown ends.
PassInput(w) ==
    /\ Idle /\ viewOf[w] \in painters /\ shutdown = "no"
    /\ Submit({viewOf[w]})
    /\ UNCHANGED <<painterVars, needsRepaint, channel, loopVars, shutdown, fresh, asking>>

PerformUpdates ==
    /\ Idle /\ shutdown # "finished"
    /\ Submit(painters)
    /\ UNCHANGED <<painterVars, needsRepaint, channel, loopVars, shutdown, fresh, asking>>

\* The newest frame is shown.
Render(w) ==
    /\ Idle /\ viewOf[w] \in painters
    /\ needsRepaint' = needsRepaint \ {viewOf[w]}
    /\ fresh' = fresh \ {viewOf[w]}
    /\ UNCHANGED <<painterVars, frameVars, channel, loopVars, shutdown, asking>>

-----------------------------------------------------------------------------
(* Other threads (external).                                               *)

Send(m) == Len(channel) < MaxMessages /\ channel' = Append(channel, m)

\* Script threads and the constellation; the painter may be gone.
PostToPainter(p) ==
    /\ p <= made
    /\ \E kind \in {"draw", "exit"} : Send([kind |-> kind, painter |-> p])
    /\ UNCHANGED <<painterVars, frameVars, needsRepaint, loopVars, shutdown, fresh, asking>>

Ask(a, p) ==
    /\ asking[a] = "idle" /\ p <= made
    /\ Send([kind |-> "keys", painter |-> p, asker |-> a])
    /\ asking' = [asking EXCEPT ![a] = "waiting"]
    /\ UNCHANGED <<painterVars, frameVars, needsRepaint, loopVars, shutdown, fresh>>

\* WebRender has finished a frame.
FrameReady(p, repaint) ==
    /\ rendering[p] > 0
    /\ rendering' = [rendering EXCEPT ![p] = @ - 1]
    /\ Send([kind |-> "ready", painter |-> p, repaint |-> repaint])
    /\ fresh' = IF repaint /\ p \in painters THEN fresh \cup {p} ELSE fresh
    /\ UNCHANGED <<painterVars, pending, needsRepaint, loopVars, shutdown, asking>>

-----------------------------------------------------------------------------
(* handle_messages                                                         *)

ReadyFor(p) == {i \in DOMAIN channel : channel[i].kind = "ready" /\ channel[i].painter = p}

\* Mutant: frames that become ready during a shutdown are not of interest.
ReadyOfShutdown(p) == IF shutdown = "no" THEN Cardinality(ReadyFor(p)) ELSE 0

\* How often decrement_pending_frames is called.
FramesReady(p) == Cardinality(ReadyFor(p))

\* Mutant: the first frame of a batch decides whether to repaint.
SawRepaintFirst(p) ==
    \E i \in ReadyFor(p) : channel[i].repaint /\ \A j \in ReadyFor(p) : i <= j

\* One frame of the batch that needs a repaint is enough.
SawRepaint(p) == \E i \in ReadyFor(p) : channel[i].repaint

\* The messages without those of frames that are ready, in the same order.
Retained(msgs) ==
    FlattenSeq([i \in DOMAIN msgs |-> IF msgs[i].kind = "ready" THEN <<>> ELSE <<msgs[i]>>])

\* The embedder hands over what it received; the frames that are ready are
\* taken out first.
HandleMessages ==
    /\ Idle /\ channel # <<>>
    /\ batch' = Retained(channel)
    /\ pending' = [p \in Painters |->
                      IF p \in painters THEN pending[p] - FramesReady(p) ELSE pending[p]]
    /\ saw' = [p \in Painters |->
                  IF p \notin painters \/ ReadyFor(p) = {} THEN "none"
                  ELSE IF SawRepaint(p) THEN "repaint" ELSE "quiet"]
    /\ channel' = <<>>
    /\ handling' = TRUE
    /\ UNCHANGED <<painterVars, rendering, needsRepaint, shutdown, fresh, asking>>

\* Mutant: a shutdown ends everything but the exit of pipelines.
HandledWhileShuttingDownExit == {"exit"}

HandledWhileShuttingDown == {"exit", "keys"}

\* handle_generate_image_key and the like: without a painter the key is that
\* of nothing, but it is sent.
SendKeys(m) == asking' = [asking EXCEPT ![m.asker] = "idle"]

\* An asker whose message is dropped finds its channel closed, without an answer.
Dropped(msgs) ==
    asking' = [a \in Askers |->
                  IF \E i \in DOMAIN msgs : msgs[i].kind = "keys" /\ msgs[i].asker = a
                  THEN "refused" ELSE asking[a]]

HandleBrowserMessage ==
    /\ handling /\ batch # <<>> /\ shutdown # "finished"
    /\ LET m == Head(batch)
       IN  \/ /\ shutdown = "no" \/ m.kind \in HandledWhileShuttingDown
              /\ \/ m.kind = "keys" /\ SendKeys(m) /\ UNCHANGED frameVars
                 \/ m.kind # "keys" /\ Submit({m.painter} \cap painters) /\ UNCHANGED asking
           \/ /\ shutdown # "no" /\ m.kind \notin HandledWhileShuttingDown
              /\ Dropped(<<m>>) /\ UNCHANGED frameVars
    /\ batch' = Tail(batch)
    /\ UNCHANGED <<painterVars, needsRepaint, channel, handling, saw, shutdown, fresh>>

\* After the shutdown the first message ends handle_messages.
AbandonMessages ==
    /\ handling /\ batch # <<>> /\ shutdown = "finished"
    /\ Dropped(batch)
    /\ batch' = <<>> /\ handling' = FALSE
    /\ saw' = [p \in Painters |-> "none"]
    /\ UNCHANGED <<painterVars, frameVars, needsRepaint, channel, shutdown, fresh>>

\* The painters with a new frame are told.
EndMessages ==
    /\ handling /\ batch = <<>>
    /\ needsRepaint' = needsRepaint \cup {p \in painters : saw[p] = "repaint"}
    /\ saw' = [p \in Painters |-> "none"]
    /\ handling' = FALSE
    /\ UNCHANGED <<painterVars, frameVars, channel, batch, shutdown, fresh, asking>>

\* The embedder begins to shut down (external).
StartShuttingDown ==
    /\ Idle /\ shutdown = "no"
    /\ shutdown' = "shutting"
    /\ UNCHANGED <<painterVars, frameVars, needsRepaint, channel, loopVars, fresh, asking>>

\* The constellation is gone: what is in the channel is dropped.
FinishShuttingDown ==
    /\ Idle /\ shutdown = "shutting"
    /\ shutdown' = "finished"
    /\ Dropped(channel)
    /\ channel' = <<>>
    /\ UNCHANGED <<painterVars, frameVars, needsRepaint, loopVars, fresh>>

Next ==
    \/ \E w \in Views :
          \/ \E c \in Contexts : RegisterRenderingContext(w, c)
          \/ RemoveWebview(w) \/ ShowWebview(w) \/ PassInput(w) \/ Render(w)
    \/ AddWebview \/ PerformUpdates
    \/ \E p \in Painters :
          \/ PostToPainter(p)
          \/ \E a \in Askers : Ask(a, p)
          \/ \E repaint \in BOOLEAN : FrameReady(p, repaint)
    \/ HandleMessages \/ HandleBrowserMessage \/ AbandonMessages \/ EndMessages
    \/ StartShuttingDown \/ FinishShuttingDown

Spec == Init /\ [][Next]_vars

-----------------------------------------------------------------------------

TypeOK ==
    /\ painters \subseteq 1 .. made /\ made \in 0 .. MaxPainters
    /\ contextOf \in [Painters -> Contexts \cup {None}]
    /\ viewOf \in [Views -> 0 .. MaxPainters]
    /\ opening \in (Views \X Painters) \cup {None}
    /\ pending \in [Painters -> Nat] /\ rendering \in [Painters -> 0 .. MaxFrames]
    /\ needsRepaint \subseteq painters /\ fresh \subseteq painters
    /\ channel \in Seq(Message) /\ batch \in Seq(Message)
    /\ handling \in BOOLEAN /\ saw \in [Painters -> {"none", "quiet", "repaint"}]
    /\ shutdown \in {"no", "shutting", "finished"}
    /\ asking \in [Askers -> {"idle", "waiting", "refused"}]

\* The expect of painter() and painter_mut() never fails for an open web view,
\* nor for one that is being opened: views that share a rendering context share
\* a painter, which is kept for as long as one of them is open and not longer,
\* and has its entry in painter_surfman_details_map all that time.
ViewsHavePainter ==
    /\ \A w \in Views : viewOf[w] # 0 => viewOf[w] \in painters
    /\ opening # None => opening[2] \in painters
    /\ details = painters
    /\ \A p, q \in painters : contextOf[p] = contextOf[q] => p = q
    /\ \A p \in painters : (\E w \in Views : viewOf[w] = p) \/ (opening # None /\ opening[2] = p)

\* pending_frames is the number of frames the painter still has to hear of, so
\* that its decrement never passes zero: also when a frame becomes ready while
\* Paint shuts down, and when one arrives for a painter that is gone.
PendingFramesMatch ==
    \A p \in painters :
        LET toCome == rendering[p] + Cardinality(ReadyFor(p))
        IN  pending[p] >= toCome /\ (shutdown # "finished" => pending[p] = toCome)

\* A frame that changes what is on show is painted: until it is, the painter
\* knows, or will be told at the end of a batch, however many frames and other
\* messages are in that batch.
RepaintNotLost ==
    \A p \in fresh :
        shutdown # "finished" =>
            p \in needsRepaint \/ saw[p] = "repaint" \/ SawRepaint(p)

\* A thread that asks for keys is sent keys, also when its painter is gone and
\* while Paint shuts down: as long as it waits its message is in the channel or
\* in the batch that is being handled, in whatever order the shutdown and the
\* batches come, and it is refused only once the shutdown is finished.
RequestsAnswered ==
    /\ TypeOK
    /\ \A a \in Askers :
          /\ asking[a] = "waiting" =>
                \E i \in DOMAIN (batch \o channel) :
                    /\ (batch \o channel)[i].kind = "keys"
                    /\ (batch \o channel)[i].asker = a
          /\ asking[a] = "refused" => shutdown = "finished"

=============================================================================
