------------------------------- MODULE Canvas -------------------------------
(***************************************************************************)
(* The chat canvas: which blocks are measured, where they stand, and what  *)
(* a paint finds.                                                          *)
(*                                                                         *)
(* Measuring a block is expensive, so a block keeps its height and its     *)
(* wrapped lines for the width they were made for; a block far from the    *)
(* view has an estimate. Blocks come, grow and fold, the window is resized *)
(* (the layout follows when the resizing pauses), hidden and shown, and    *)
(* the user scrolls, between any two paints.                               *)
(*                                                                         *)
(* Heights are counted in lines, and a block's spacing in its height. The  *)
(* toolkit's part (SetVirtualSize, Scroll, the clamping of the view, when  *)
(* paints and events come) is as the code uses it.                         *)
(***************************************************************************)
EXTENDS Integers, Sequences, FiniteSetsExt

CONSTANTS
  Guesses,      \* the lines a text may be estimated to have
  Widths,       \* of the window: set of numbers above 0
  kMaxContentW, \* no block is wider
  ViewH,        \* the height of the window
  Margin,       \* what is measured around the view
  MaxLen,       \* bound: lines of a block at the largest width
  MaxBlocks,    \* bound: blocks at a time
  MaxChanges    \* bound: what the frame and the user do

ASSUME CanvasAssumption ==
  /\ Guesses \subseteq Nat \ {0}
  /\ Widths \subseteq Nat \ {0}
  /\ {kMaxContentW, ViewH, MaxLen, MaxBlocks} \subseteq Nat \ {0}
  /\ {Margin, MaxChanges} \subseteq Nat

VARIABLES
  d,        \* blocks and layout: see Doc
  clientW,  \* the window's width
  shown,    \* IsShownOnScreen
  thinking, \* the dots below the last block
  stick,    \* stickToBottom_
  pending,  \* what is due: "stick" (UpdateStickToBottom), "settle" (resizeTimer_)
  changes   \* counter, for the bound

vars == <<d, clientW, shown, thinking, stick, pending, changes>>

\* kind: "text", or "fold", a tool call or thinking. w is cachedWidth and h cachedHeight; lines is the width and the form
\* they were wrapped for. 0 and <<>> are none.
Block(kind, len, guess) ==
  [kind |-> kind, len |-> len, open |-> FALSE, guess |-> guess,
   w |-> 0, h |-> 0, lines |-> <<>>]

NoDoc == [blocks |-> <<>>, width |-> 0, dirty |-> TRUE, tops |-> <<>>,
          content |-> 0, virtual |-> 0, view |-> 0]

-----------------------------------------------------------------------------
(* One block.                                                              *)

ContentWidthFor(w) == Min({w, kMaxContentW})

\* The lines of the text at a width.
Wrapped(b, w) == (b.len * kMaxContentW + w - 1) \div w

\* What LayoutBlock makes of it: a folded block is its header.
RealHeight(b, w) ==
  IF b.kind = "text" THEN Wrapped(b, w)
  ELSE IF b.open THEN 1 + Wrapped(b, w)
  ELSE 1

LayoutBlock(b, w) ==
  [b EXCEPT !.w = w, !.h = RealHeight(b, w), !.lines = <<w, b.len, b.open>>]

EstimateBlockHeight(b, w) ==
  IF b.kind = "text" THEN b.guess ELSE IF b.open THEN 1 + b.guess ELSE 1

\* Slip: the block keeps the width it was last measured at.
EstimatedKeepsWidth(b, w) == [b EXCEPT !.h = EstimateBlockHeight(b, w)]

Estimated(b, w) == [b EXCEPT !.h = EstimateBlockHeight(b, w), !.w = 0]

-----------------------------------------------------------------------------
(* The layout.                                                             *)

Dots == IF thinking THEN 1 ELSE 0

TopsOf(blocks) ==
  LET top[i \in 1 .. Len(blocks) + 1] ==
        IF i = 1 THEN 0 ELSE top[i - 1] + blocks[i - 1].h
  IN  top

\* Scroll, and what the toolkit does when the size changes.
Scrolled(x, y) == [x EXCEPT !.view = Max({0, Min({y, x.virtual - ViewH})})]

SetVirtualSize(x) ==
  IF x.width = 0 THEN x
  ELSE Scrolled([x EXCEPT !.virtual = x.content], x.view)

RecomputeTops(x) ==
  LET tops == TopsOf(x.blocks)
  IN  SetVirtualSize([x EXCEPT !.tops = tops, !.content = tops[Len(tops)] + Dots])

ScrollToBottomIfPinned(x) == IF stick THEN Scrolled(x, x.content) ELSE x

\* Slip: the blocks below do not move.
MeasureInPlace(x, i, w) ==
  IF x.blocks[i].w = w THEN x ELSE [x EXCEPT !.blocks[i] = LayoutBlock(@, w)]

EnsureBlockLaidOut(x, i, w) ==
  IF x.blocks[i].w = w THEN x
  ELSE RecomputeTops([x EXCEPT !.blocks[i] = LayoutBlock(@, w)])

Relayout(x, w) ==
  LET cw == ContentWidthFor(w)
  IN  IF ~shown THEN [x EXCEPT !.width = 0]
      ELSE IF ~x.dirty /\ x.width = w THEN x
      ELSE RecomputeTops([x EXCEPT
             !.blocks = [i \in DOMAIN @ |-> IF @[i].w = cw THEN @[i] ELSE Estimated(@[i], cw)],
             !.width = w, !.dirty = FALSE])

\* Blocks that end at or below y and start at or above z.
Between(x, y, z) == {i \in DOMAIN x.blocks : x.tops[i + 1] >= y /\ x.tops[i] <= z}

\* Slip: what the view shows and no more.
InViewOnly(x) == Between(x, x.view, x.view + ViewH)

\* All blocks when the view is below the last.
NearView(x) ==
  IF x.tops[Len(x.tops)] < x.view - Margin THEN DOMAIN x.blocks
  ELSE Between(x, x.view - Margin, x.view + ViewH + Margin)

EnsureVisibleLaidOut(x, w) ==
  IF x.blocks = <<>> \/ Len(x.tops) # Len(x.blocks) + 1 THEN x
  ELSE LET unmeasured == {i \in NearView(x) : x.blocks[i].w # w}
       IN  IF unmeasured = {} THEN x
           ELSE ScrollToBottomIfPinned(RecomputeTops([x EXCEPT
                  !.blocks = [i \in DOMAIN @ |->
                                IF i \in unmeasured THEN LayoutBlock(@[i], w) ELSE @[i]]]))

\* PrepareLayoutForPaint: a clean layout is kept while the window is resized.
LayoutW(x) == IF x.width > 0 /\ ~x.dirty THEN x.width ELSE clientW
Relaid(x)  == Relayout(x, LayoutW(x))
PrepareLayoutForPaint(x) == EnsureVisibleLaidOut(Relaid(x), ContentWidthFor(LayoutW(x)))

-----------------------------------------------------------------------------
(* Blocks come and change.                                                 *)

Reflowed(x) == Relayout([x EXCEPT !.dirty = TRUE], clientW)

\* One block, or those between BeginBatch and EndBatch.
AddBlocks(bs) ==
  /\ d' = ScrollToBottomIfPinned(Reflowed([d EXCEPT !.blocks = @ \o bs]))
  /\ UNCHANGED <<clientW, shown, thinking, stick, pending>>

\* A block is no longer measured.
Unmeasured(b) == [b EXCEPT !.w = 0]

UpdateThinkingBlock(i, len) ==
  /\ d.blocks[i].kind = "fold"
  /\ LET x == Reflowed([d EXCEPT !.blocks[i] = Unmeasured([@ EXCEPT !.len = len])])
         y == IF x.width > 0 THEN EnsureBlockLaidOut(x, i, ContentWidthFor(x.width)) ELSE x
     IN  d' = ScrollToBottomIfPinned(y)
  /\ UNCHANGED <<clientW, shown, thinking, stick, pending>>

Flipped(b) == [b EXCEPT !.open = ~@]

Toggled(x, i) == Reflowed([x EXCEPT !.blocks[i] = Unmeasured(Flipped(@))])

ToggleToolCall(i) ==
  /\ d.blocks[i].kind = "fold"
  /\ d' = Toggled(d, i)
  /\ UNCHANGED <<clientW, shown, thinking, stick, pending>>

SetThinking(on) ==
  /\ thinking # on
  /\ thinking' = on
  /\ LET x == [d EXCEPT !.content = IF on THEN @ + 1 ELSE @ - 1]
     IN  d' = ScrollToBottomIfPinned(SetVirtualSize(x))
  /\ UNCHANGED <<clientW, shown, stick, pending>>

Clear ==
  /\ d' = [NoDoc EXCEPT !.virtual = d.virtual, !.view = d.view]
  /\ UNCHANGED <<clientW, shown, thinking, stick, pending>>

-----------------------------------------------------------------------------
(* The window.                                                             *)

OnSize(w) ==
  /\ w # clientW
  /\ clientW' = w
  /\ pending' = pending \cup {"settle"}
  /\ UNCHANGED <<d, shown, thinking, stick>>

OnResizeSettle ==
  /\ "settle" \in pending
  /\ pending' = pending \ {"settle"}
  /\ d' = [d EXCEPT !.width = 0, !.dirty = TRUE]
  /\ UNCHANGED <<clientW, shown, thinking, stick>>

\* The window is hidden or shown.
Show(on) ==
  /\ shown # on
  /\ shown' = on
  /\ UNCHANGED <<d, clientW, thinking, stick, pending>>

\* By wheel or scroll bar: the toolkit scrolls, the handler's call is posted.
OnScrollWin(y) ==
  /\ y \in 0 .. d.virtual - ViewH /\ y # d.view
  /\ d' = Scrolled(d, y)
  /\ pending' = pending \cup {"stick"}
  /\ UNCHANGED <<clientW, shown, thinking, stick>>

UpdateStickToBottom ==
  /\ "stick" \in pending
  /\ pending' = pending \ {"stick"}
  /\ stick' = (d.view + ViewH >= d.virtual)
  /\ UNCHANGED <<d, clientW, shown, thinking>>

OnPaint ==
  /\ shown
  /\ d' = PrepareLayoutForPaint(d)
  /\ UNCHANGED <<clientW, shown, thinking, stick, pending>>

\* RenderViewport draws these, at the place the view had before the blocks
\* were measured.
Rendered == Between(d', Relaid(d).view, Relaid(d).view + ViewH)

-----------------------------------------------------------------------------
(* The mouse.                                                              *)

\* HitTest of a point in block i measures it for the window's width.
Hit(i) == EnsureBlockLaidOut(d, i, ContentWidthFor(clientW))

\* Moved, pressed or released: nothing else of the layout changes.
OnMotion(i) ==
  /\ d' = Hit(i)
  /\ UNCHANGED <<clientW, shown, thinking, stick, pending>>

\* Pressed on the mark that folds and unfolds.
OnLeftDown(i) ==
  /\ d.blocks[i].kind = "fold"
  /\ d' = Toggled(Hit(i), i)
  /\ UNCHANGED <<clientW, shown, thinking, stick, pending>>

-----------------------------------------------------------------------------

Init ==
  /\ d = NoDoc
  /\ clientW \in Widths
  /\ shown \in BOOLEAN
  /\ thinking = FALSE
  /\ stick = TRUE
  /\ pending = {}
  /\ changes = 0

NewBlocks == {Block("text", n, s) : n \in 1 .. MaxLen, s \in Guesses}
        \cup {Block("fold", n, n) : n \in 1 .. MaxLen}

\* By the frame.
Changes ==
  \/ \E b \in NewBlocks : Len(d.blocks) < MaxBlocks /\ AddBlocks(<<b>>)
  \/ \E b, c \in NewBlocks : Len(d.blocks) + 2 <= MaxBlocks /\ AddBlocks(<<b, c>>)
  \/ \E i \in DOMAIN d.blocks :
       (\E n \in 1 .. MaxLen : UpdateThinkingBlock(i, n)) \/ ToggleToolCall(i)
  \/ \E on \in BOOLEAN : SetThinking(on) \/ Show(on)
  \/ d.blocks # <<>> /\ Clear

Mouse == \E i \in DOMAIN d.blocks : shown /\ (OnMotion(i) \/ OnLeftDown(i))

Window ==
  \/ \E w \in Widths : OnSize(w)
  \/ \E y \in 0 .. d.virtual : shown /\ OnScrollWin(y)

\* What the toolkit does in its own time.
Due == OnResizeSettle \/ UpdateStickToBottom \/ OnPaint

Next ==
  \/ changes < MaxChanges /\ changes' = changes + 1 /\ (Changes \/ Mouse \/ Window)
  \/ Due /\ UNCHANGED changes

Spec == Init /\ [][Next]_vars

-----------------------------------------------------------------------------
(* Properties.                                                             *)

\* A block that counts as measured for the layout's width has the height and
\* the lines of its present text at that width: FindStaleLayouts finds none.
\* Otherwise its lines are painted over its neighbours.
NothingStale ==
  \A i \in DOMAIN d.blocks :
    LET b == d.blocks[i]
    IN  (d.width > 0 /\ b.w = ContentWidthFor(d.width)) =>
          b.h = RealHeight(b, b.w) /\ b.lines = <<b.w, b.len, b.open>>

\* Unless a layout is due, every block starts where the one before ends, and
\* the canvas scrolls over all of them and the dots.
Stacked ==
  ~d.dirty =>
    /\ d.tops = TopsOf(d.blocks)
    /\ d.content = d.tops[Len(d.tops)] + Dots
    /\ d.width > 0 => d.virtual = d.content /\ d.view <= Max({0, d.virtual - ViewH})

\* A paint draws blocks that are measured, as long as the blocks it measured
\* are together no smaller than estimated by more than the margin.
PaintsMeasured ==
  [][OnPaint =>
       \/ Relaid(d).content - d'.content > Margin
       \/ \A i \in Rendered : d'.blocks[i].w = ContentWidthFor(d'.width)]_vars
=============================================================================
