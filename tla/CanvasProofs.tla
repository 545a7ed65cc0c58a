---------------------------- MODULE CanvasProofs ----------------------------
(***************************************************************************)
(* What the canvas promises, proved for every number of blocks, width,     *)
(* height and order of events: no measured block is stale, a clean layout  *)
(* stacks the blocks without gaps or overlaps, and a paint draws measured  *)
(* blocks unless those it measured shrank by more than the margin.         *)
(*                                                                         *)
(* The inductive invariant `Sound` says of every block with a width that   *)
(* its height and lines are those of its present text at that width, not   *)
(* only of those measured for the layout's width as NothingStale does: a   *)
(* block keeps its measures through resizes to other widths and back.      *)
(*                                                                         *)
(* TopsOf is a recursive function, so what it computes takes an induction. *)
(* SetInduction is the induction on naturals in the form in which it can   *)
(* be instantiated here: of a set, not of an operator.                     *)
(***************************************************************************)
EXTENDS Canvas, FiniteSetTheorems, TLAPS

Width == Nat \ {0}

Forms == {<<>>} \cup (Width \X Nat \X BOOLEAN)

BlockType == [kind : {"text", "fold"}, len : Nat, open : BOOLEAN, guess : Nat,
              w : Nat, h : Nat, lines : Forms]

DocType == [blocks : Seq(BlockType), width : Nat, dirty : BOOLEAN, tops : Seq(Int),
            content : Int, virtual : Int, view : Int]

\* A block that has a width was measured for it as it is now.
Current(b) == b.w # 0 => b.h = RealHeight(b, b.w) /\ b.lines = <<b.w, b.len, b.open>>

\* A clean layout, with n lines of dots.
Fits(x, n) ==
  ~x.dirty =>
    /\ x.tops = TopsOf(x.blocks)
    /\ x.content = x.tops[Len(x.tops)] + n
    /\ x.width > 0 => x.virtual = x.content /\ x.view <= Max({0, x.virtual - ViewH})

Fine(x, n) ==
  /\ x \in DocType
  /\ \A i \in DOMAIN x.blocks : Current(x.blocks[i])
  /\ Fits(x, n)

Sound == Fine(d, Dots) /\ clientW \in Widths /\ {thinking, shown, stick} \subseteq BOOLEAN

-----------------------------------------------------------------------------
(* Induction.                                                              *)

\* Of the numbers outside S, the ranges 0 .. n up to one of them would have a
\* smallest, but the one before is smaller.
LEMMA SetInduction ==
  ASSUME NEW S \in SUBSET Nat, 0 \in S, \A n \in S : n + 1 \in S
  PROVE  S = Nat
<1> SUFFICES ASSUME S # Nat PROVE FALSE OBVIOUS
<1> DEFINE T == {0 .. n : n \in Nat \ S}
<1>1. T \subseteq FiniteSubsetsOf(Nat) /\ T # {}
  <2>1. \A n \in Nat : IsFiniteSet(0 .. n) /\ 0 .. n \in SUBSET Nat BY FS_Interval
  <2>2. T \subseteq FiniteSubsetsOf(Nat) BY <2>1 DEF FiniteSubsetsOf
  <2>3. PICK n \in Nat \ S : TRUE OBVIOUS
  <2>4. 0 .. n \in T BY <2>3
  <2> QED BY <2>2, <2>4
<1>2. IsWellFoundedOn(StrictSubsetOrdering(Nat), FiniteSubsetsOf(Nat))
  BY FS_StrictSubsetOrderingWellFounded
<1>3. PICK X \in T : \A Y \in T : ~ (<<Y, X>> \in StrictSubsetOrdering(Nat))
  <2> HIDE DEF T
  <2> QED BY <1>1, <1>2, WFMin
<1>4. PICK n \in Nat \ S : X = 0 .. n OBVIOUS
<1>5. n - 1 \in Nat \ S
  <2>1. n # 0 OBVIOUS
  <2>2. (n - 1) + 1 = n /\ n - 1 \in Nat BY <2>1
  <2> QED BY <2>2
<1>6. 0 .. n - 1 \in T BY <1>5
<1>7. <<0 .. n - 1, X>> \in StrictSubsetOrdering(Nat)
  <2>1. 0 .. n - 1 \in SUBSET Nat /\ X \in SUBSET Nat BY <1>4, <1>5
  <2>2. 0 .. n - 1 \subseteq X BY <1>4, <1>5
  <2>3. n \in X /\ n \notin 0 .. n - 1 BY <1>4, <1>5
  <2> QED BY <2>1, <2>2, <2>3 DEF StrictSubsetOrdering
<1> QED BY <1>3, <1>6, <1>7

\* ... and from a to b.
LEMMA RangeInduction ==
  ASSUME NEW a \in Int, NEW b \in Int, NEW S,
         a \in S, \A i \in a .. b - 1 : i \in S => i + 1 \in S
  PROVE  a .. b \subseteq S
<1> DEFINE R == {n \in Nat : a + n > b \/ a + n \in S}
<1>1. 0 \in R OBVIOUS
<1>2. \A n \in R : n + 1 \in R
  <2> SUFFICES ASSUME NEW n \in R, a + (n + 1) <= b PROVE a + (n + 1) \in S OBVIOUS
  <2>1. a + n \in a .. b - 1 /\ a + n \in S OBVIOUS
  <2>2. (a + n) + 1 = a + (n + 1) OBVIOUS
  <2> QED BY <2>1, <2>2
<1>3. R = Nat
  <2>1. R \in SUBSET Nat OBVIOUS
  <2> HIDE DEF R
  <2> QED BY <1>1, <1>2, <2>1, SetInduction
<1> SUFFICES ASSUME NEW i \in a .. b PROVE i \in S OBVIOUS
<1>4. i - a \in R
  <2>1. i - a \in Nat OBVIOUS
  <2> HIDE DEF R
  <2> QED BY <1>3, <2>1
<1>5. a + (i - a) = i OBVIOUS
<1> QED BY <1>4, <1>5

-----------------------------------------------------------------------------
(* Where the blocks stand.                                                 *)

\* Every block starts where the one before ends.
IsTops(top, blocks) ==
  /\ top \in [1 .. Len(blocks) + 1 -> Nat]
  /\ top[1] = 0
  /\ \A i \in 1 .. Len(blocks) : top[i + 1] = top[i] + blocks[i].h

\* The definition of TopsOf has a solution, and it is such a stack.
LEMMA TopsExist ==
  ASSUME NEW blocks \in Seq(BlockType)
  PROVE  \E top : IsTops(top, blocks)
<1>1. Len(blocks) \in Nat /\ \A i \in 1 .. Len(blocks) : blocks[i].h \in Nat
  <2>1. \A i \in 1 .. Len(blocks) : blocks[i] \in BlockType OBVIOUS
  <2> QED BY <2>1 DEF BlockType
<1> DEFINE Up(n) == \E top \in [1 .. n + 1 -> Nat] :
                      top[1] = 0 /\ \A i \in 1 .. n : top[i + 1] = top[i] + blocks[i].h
           S == {n \in Nat : n <= Len(blocks) => Up(n)}
<1>2. 0 \in S
  <2>1. [i \in 1 .. 0 + 1 |-> 0] \in [1 .. 0 + 1 -> Nat] /\ [i \in 1 .. 0 + 1 |-> 0][1] = 0 OBVIOUS
  <2>2. \A i \in 1 .. 0 : FALSE OBVIOUS
  <2>3. Up(0) BY <2>1, <2>2
  <2> HIDE DEF Up
  <2> QED BY <2>3
<1>3. \A n \in S : n + 1 \in S
  <2> SUFFICES ASSUME NEW n \in S, n + 1 <= Len(blocks) PROVE Up(n + 1)
    <3> HIDE DEF Up
    <3> QED OBVIOUS
  <2>1. n \in Nat /\ n <= Len(blocks) BY <1>1
  <2>2. PICK top \in [1 .. n + 1 -> Nat] :
          top[1] = 0 /\ \A i \in 1 .. n : top[i + 1] = top[i] + blocks[i].h
    BY <2>1
  <2> DEFINE next == [i \in 1 .. (n + 1) + 1 |->
                        IF i = n + 2 THEN top[n + 1] + blocks[n + 1].h ELSE top[i]]
  <2>3. n + 1 \in 1 .. Len(blocks) /\ n + 1 \in 1 .. n + 1 BY <1>1, <2>1
  <2>4. \A i \in 1 .. (n + 1) + 1 : i # n + 2 => i \in 1 .. n + 1 BY <2>1
  <2>5. next \in [1 .. (n + 1) + 1 -> Nat] BY <1>1, <2>3, <2>4
  <2>6. next[1] = 0 BY <2>1, <2>2
  <2>7. ASSUME NEW i \in 1 .. n + 1 PROVE next[i + 1] = next[i] + blocks[i].h
    <3>1. CASE i = n + 1
      <4>1. i + 1 = n + 2 /\ i # n + 2 /\ i + 1 \in 1 .. (n + 1) + 1 /\ i \in 1 .. (n + 1) + 1
        BY <2>1, <3>1
      <4> QED BY <3>1, <4>1
    <3>2. CASE i # n + 1
      <4>1. i \in 1 .. n /\ i + 1 # n + 2 /\ i # n + 2
            /\ i + 1 \in 1 .. (n + 1) + 1 /\ i \in 1 .. (n + 1) + 1
        BY <2>1, <3>2
      <4> QED BY <2>2, <4>1
    <3> QED BY <3>1, <3>2
  <2> QED BY <2>5, <2>6, <2>7
<1>4. S = Nat
  <2>1. S \in SUBSET Nat OBVIOUS
  <2> HIDE DEF S
  <2> QED BY <1>2, <1>3, <2>1, SetInduction
<1>5. Up(Len(blocks)) BY <1>1, <1>4
<1> QED BY <1>5 DEF IsTops

LEMMA TopsAre ==
  ASSUME NEW blocks \in Seq(BlockType)
  PROVE  /\ IsTops(TopsOf(blocks), blocks)
         /\ TopsOf(blocks) \in Seq(Int) /\ Len(TopsOf(blocks)) = Len(blocks) + 1
<1>1. Len(blocks) \in Nat OBVIOUS
<1> DEFINE Step(top) == [i \in 1 .. Len(blocks) + 1 |->
                           IF i = 1 THEN 0 ELSE top[i - 1] + blocks[i - 1].h]
<1>2. TopsOf(blocks) = CHOOSE top : top = Step(top) BY DEF TopsOf
<1>3. PICK f : IsTops(f, blocks) BY TopsExist
<1>4. f = Step(f)
  <2>1. ASSUME NEW i \in 1 .. Len(blocks) + 1 PROVE f[i] = Step(f)[i]
    <3>1. CASE i = 1 BY <1>1, <1>3, <3>1 DEF IsTops
    <3>2. CASE i # 1
      <4>1. i - 1 \in 1 .. Len(blocks) /\ (i - 1) + 1 = i BY <1>1, <3>2
      <4>2. f[(i - 1) + 1] = f[i - 1] + blocks[i - 1].h BY <1>3, <4>1 DEF IsTops
      <4> QED BY <3>2, <4>1, <4>2
    <3> QED BY <3>1, <3>2
  <2>2. f \in [1 .. Len(blocks) + 1 -> Nat] BY <1>3 DEF IsTops
  <2> QED BY <2>1, <2>2
<1>5. PICK g : g = TopsOf(blocks) OBVIOUS
<1>6. g = Step(g)
  <2> HIDE DEF Step
  <2> QED BY <1>2, <1>4, <1>5
<1>7. IsTops(g, blocks)
  <2>1. g[1] = 0 BY <1>1, <1>6
  <2>2. \A i \in 1 .. Len(blocks) : g[i + 1] = g[i] + blocks[i].h
    <3> SUFFICES ASSUME NEW i \in 1 .. Len(blocks) PROVE g[i + 1] = g[i] + blocks[i].h OBVIOUS
    <3>1. i + 1 \in 1 .. Len(blocks) + 1 /\ i + 1 # 1 /\ (i + 1) - 1 = i BY <1>1
    <3>2. g[i + 1] = Step(g)[i + 1] BY <1>6
    <3> HIDE <1>6
    <3> QED BY <3>1, <3>2
  <2>3. \A i \in 1 .. Len(blocks) : blocks[i].h \in Nat
    <3>1. \A i \in 1 .. Len(blocks) : blocks[i] \in BlockType OBVIOUS
    <3> QED BY <3>1 DEF BlockType
  <2> DEFINE S == {i \in 1 .. Len(blocks) + 1 : g[i] \in Nat}
  <2>4. 1 \in S BY <1>1, <2>1
  <2>5. \A i \in 1 .. (Len(blocks) + 1) - 1 : i \in S => i + 1 \in S BY <1>1, <2>2, <2>3
  <2>6. 1 .. Len(blocks) + 1 \subseteq S
    <3> HIDE DEF S
    <3>1. 1 \in Int /\ Len(blocks) + 1 \in Int BY <1>1
    <3> QED BY <2>4, <2>5, <3>1, RangeInduction
  <2>7. g \in [1 .. Len(blocks) + 1 -> Nat]
    <3>1. \E e : g = [i \in 1 .. Len(blocks) + 1 |-> e[i]] BY <1>6
    <3> QED BY <2>6, <3>1
  <2> QED BY <2>1, <2>2, <2>7 DEF IsTops
<1>8. g \in [1 .. Len(blocks) + 1 -> Nat] BY <1>7 DEF IsTops
<1>9. g \in Seq(Int) /\ Len(g) = Len(blocks) + 1 BY <1>1, <1>8
<1> QED BY <1>5, <1>7, <1>9

\* Blocks further down are not higher up.
LEMMA TopsRise ==
  ASSUME NEW blocks \in Seq(BlockType), NEW top, IsTops(top, blocks),
         NEW i \in 1 .. Len(blocks) + 1, NEW j \in i .. Len(blocks) + 1
  PROVE  top[i] <= top[j]
<1>1. Len(blocks) \in Nat /\ \A k \in 1 .. Len(blocks) : blocks[k].h \in Nat
  <2>1. \A k \in 1 .. Len(blocks) : blocks[k] \in BlockType OBVIOUS
  <2> QED BY <2>1 DEF BlockType
<1>2. \A k \in 1 .. Len(blocks) + 1 : top[k] \in Nat BY DEF IsTops
<1> DEFINE S == {k \in i .. Len(blocks) + 1 : top[i] <= top[k]}
<1>3. i \in S BY <1>1, <1>2
<1>4. \A k \in i .. (Len(blocks) + 1) - 1 : k \in S => k + 1 \in S
  <2> SUFFICES ASSUME NEW k \in i .. (Len(blocks) + 1) - 1, top[i] <= top[k]
               PROVE  k + 1 \in i .. Len(blocks) + 1 /\ top[i] <= top[k + 1]
    OBVIOUS
  <2>1. k \in 1 .. Len(blocks) /\ k \in 1 .. Len(blocks) + 1 /\ k + 1 \in i .. Len(blocks) + 1
    BY <1>1
  <2>2. top[k + 1] = top[k] + blocks[k].h BY <2>1 DEF IsTops
  <2> QED BY <1>1, <1>2, <2>1, <2>2
<1>5. i .. Len(blocks) + 1 \subseteq S
  <2> HIDE DEF S
  <2>1. i \in Int /\ Len(blocks) + 1 \in Int BY <1>1
  <2> QED BY <1>3, <1>4, <2>1, RangeInduction
<1> QED BY <1>5

\* Two stacks whose blocks m to n-1 have equal heights keep their distance there.
LEMMA TopsShift ==
  ASSUME NEW bs \in Seq(BlockType), NEW cs \in Seq(BlockType), Len(cs) = Len(bs),
         NEW p, IsTops(p, bs), NEW q, IsTops(q, cs),
         NEW m \in 1 .. Len(bs) + 1, NEW n \in m .. Len(bs) + 1,
         \A i \in m .. n - 1 : cs[i].h = bs[i].h
  PROVE  q[n] - p[n] = q[m] - p[m]
<1>1. Len(bs) \in Nat OBVIOUS
<1>2. \A k \in 1 .. Len(bs) + 1 : p[k] \in Nat /\ q[k] \in Nat BY DEF IsTops
<1>3. \A k \in 1 .. Len(bs) : bs[k].h \in Nat
  <2>1. \A k \in 1 .. Len(bs) : bs[k] \in BlockType OBVIOUS
  <2> QED BY <2>1 DEF BlockType
<1> DEFINE S == {k \in m .. n : q[k] - p[k] = q[m] - p[m]}
<1>4. m \in S BY <1>1
<1>5. \A k \in m .. n - 1 : k \in S => k + 1 \in S
  <2> SUFFICES ASSUME NEW k \in m .. n - 1, q[k] - p[k] = q[m] - p[m]
               PROVE  k + 1 \in m .. n /\ q[k + 1] - p[k + 1] = q[m] - p[m]
    OBVIOUS
  <2>1. k \in 1 .. Len(bs) /\ k + 1 \in m .. n /\ k \in 1 .. Len(bs) + 1 BY <1>1
  <2>2. p[k + 1] = p[k] + bs[k].h /\ q[k + 1] = q[k] + cs[k].h BY <2>1 DEF IsTops
  <2>3. cs[k].h = bs[k].h OBVIOUS
  <2> QED BY <1>2, <1>3, <2>1, <2>2, <2>3
<1>6. m .. n \subseteq S
  <2> HIDE DEF S
  <2>1. m \in Int /\ n \in Int BY <1>1
  <2> QED BY <1>4, <1>5, <2>1, RangeInduction
<1>7. n \in m .. n BY <1>1
<1> QED BY <1>6, <1>7

-----------------------------------------------------------------------------
(* One block.                                                              *)

LEMMA MinMax ==
  ASSUME NEW a \in Int, NEW b \in Int
  PROVE  /\ Max({a, b}) \in {a, b} /\ Max({a, b}) >= a /\ Max({a, b}) >= b
         /\ Min({a, b}) \in {a, b} /\ Min({a, b}) <= a /\ Min({a, b}) <= b
<1>1. \E x \in {a, b} : \A y \in {a, b} : x >= y
  <2>1. CASE a >= b BY <2>1
  <2>2. CASE ~(a >= b) BY <2>2
  <2> QED BY <2>1, <2>2
<1>2. \E x \in {a, b} : \A y \in {a, b} : x <= y
  <2>1. CASE a >= b BY <2>1
  <2>2. CASE ~(a >= b) BY <2>2
  <2> QED BY <2>1, <2>2
<1>3. Max({a, b}) \in {a, b} /\ \A y \in {a, b} : Max({a, b}) >= y BY <1>1 DEF Max
<1>4. Min({a, b}) \in {a, b} /\ \A y \in {a, b} : Min({a, b}) <= y BY <1>2 DEF Min
<1> QED BY <1>3, <1>4

LEMMA ContentWidth ==
  ASSUME NEW w \in Width
  PROVE  ContentWidthFor(w) \in Width
<1>1. kMaxContentW \in Width BY CanvasAssumption DEF Width
<1>2. ContentWidthFor(w) \in {w, kMaxContentW} BY <1>1, MinMax DEF ContentWidthFor, Width
<1> QED BY <1>1, <1>2

\* A record keeps its other fields.
LEMMA BlockSetters ==
  ASSUME NEW b \in BlockType
  PROVE  /\ \A v \in Nat : [b EXCEPT !.w = v] \in BlockType
         /\ \A v \in Nat : [b EXCEPT !.h = v] \in BlockType
         /\ \A v \in Nat : [b EXCEPT !.len = v] \in BlockType
         /\ \A v \in BOOLEAN : [b EXCEPT !.open = v] \in BlockType
         /\ \A v \in Forms : [b EXCEPT !.lines = v] \in BlockType
BY DEF BlockType

LEMMA Heights ==
  ASSUME NEW b \in BlockType, NEW w \in Width
  PROVE  RealHeight(b, w) \in Nat /\ EstimateBlockHeight(b, w) \in Nat
<1>1. b.len \in Nat /\ b.guess \in Nat BY DEF BlockType
<1>2. kMaxContentW \in Nat BY CanvasAssumption
<1>3. PICK n : n = b.len * kMaxContentW + w - 1 OBVIOUS
<1>4. n \in Nat
  <2>1. b.len * kMaxContentW \in Nat BY <1>1, <1>2
  <2> QED BY <1>3, <2>1 DEF Width
<1>5. n \div w \in Nat
  <2>1. w \in Nat /\ w > 0 BY DEF Width
  <2> QED BY <1>4, <2>1
<1>6. Wrapped(b, w) \in Nat BY <1>3, <1>5 DEF Wrapped
<1> QED BY <1>1, <1>6 DEF RealHeight, EstimateBlockHeight

\* LayoutBlock measures the block as it is.
LEMMA LaidOut ==
  ASSUME NEW b \in BlockType, NEW w \in Width
  PROVE  LET c == LayoutBlock(b, w) IN c \in BlockType /\ Current(c) /\ c.w = w
<1>1. PICK h, f : h = RealHeight(b, w) /\ f = <<w, b.len, b.open>> OBVIOUS
<1>2. h \in Nat BY <1>1, Heights
<1>3. f \in Forms
  <2>1. b.len \in Nat /\ b.open \in BOOLEAN BY DEF BlockType
  <2> QED BY <1>1, <2>1 DEF Forms
<1>4. PICK c : c = [[[b EXCEPT !.w = w] EXCEPT !.h = h] EXCEPT !.lines = f] OBVIOUS
<1>5. LayoutBlock(b, w) = c BY <1>1, <1>4 DEF LayoutBlock
<1>6. w \in Nat BY DEF Width
<1>7. PICK e : e = [b EXCEPT !.w = w] OBVIOUS
<1>8. PICK g : g = [e EXCEPT !.h = h] OBVIOUS
<1>9. e \in BlockType /\ e.w = w /\ e.kind = b.kind /\ e.len = b.len /\ e.open = b.open
  BY <1>6, <1>7, BlockSetters DEF BlockType
<1>10. /\ g \in BlockType /\ g.w = w /\ g.h = h /\ g.kind = b.kind /\ g.len = b.len
       /\ g.open = b.open
  BY <1>2, <1>8, <1>9, BlockSetters DEF BlockType
<1>11. c = [g EXCEPT !.lines = f] BY <1>4, <1>7, <1>8
<1>12. /\ c \in BlockType /\ c.w = w /\ c.h = h /\ c.lines = f /\ c.kind = b.kind
       /\ c.len = b.len /\ c.open = b.open
  <2>1. c \in BlockType BY <1>3, <1>10, <1>11, BlockSetters
  <2> QED BY <1>10, <1>11, <2>1 DEF BlockType
<1>13. RealHeight(c, c.w) = h BY <1>1, <1>12 DEF RealHeight, Wrapped
<1>14. Current(c) BY <1>1, <1>12, <1>13 DEF Current
<1> QED BY <1>5, <1>12, <1>14

\* Without a width there is nothing to be stale.
LEMMA NotMeasured ==
  ASSUME NEW b \in BlockType
  PROVE  /\ \A w \in Width : Estimated(b, w) \in BlockType /\ Current(Estimated(b, w))
         /\ Unmeasured(b) \in BlockType /\ Current(Unmeasured(b))
<1>1. Unmeasured(b) \in BlockType BY BlockSetters DEF Unmeasured
<1>2. Unmeasured(b).w = 0 BY DEF Unmeasured, BlockType
<1>3. ASSUME NEW w \in Width PROVE Estimated(b, w) \in BlockType /\ Current(Estimated(b, w))
  <2>1. PICK h : h = EstimateBlockHeight(b, w) OBVIOUS
  <2>2. PICK e : e = [b EXCEPT !.h = h] OBVIOUS
  <2>3. e \in BlockType BY <2>1, <2>2, Heights, BlockSetters
  <2>4. Estimated(b, w) = [e EXCEPT !.w = 0] BY <2>1, <2>2 DEF Estimated
  <2>5. Estimated(b, w) \in BlockType BY <2>3, <2>4, BlockSetters
  <2>6. Estimated(b, w).w = 0 BY <2>3, <2>4 DEF BlockType
  <2> QED BY <2>5, <2>6 DEF Current
<1> QED BY <1>1, <1>2, <1>3 DEF Current

-----------------------------------------------------------------------------
(* The layout.                                                             *)

\* The two booleans of a record's update, and the numbers.
LEMMA DocSetters ==
  ASSUME NEW x \in DocType
  PROVE  /\ \A v \in Seq(BlockType) : [x EXCEPT !.blocks = v] \in DocType
         /\ \A v \in Nat : [x EXCEPT !.width = v] \in DocType
         /\ \A v \in BOOLEAN : [x EXCEPT !.dirty = v] \in DocType
         /\ \A v \in Seq(Int) : [x EXCEPT !.tops = v] \in DocType
         /\ \A v \in Int : /\ [x EXCEPT !.content = v] \in DocType
                           /\ [x EXCEPT !.virtual = v] \in DocType
                           /\ [x EXCEPT !.view = v] \in DocType
BY DEF DocType

\* z is x with another place in the view.
OnlyScrolled(z, x) ==
  /\ z \in DocType /\ z.blocks = x.blocks /\ z.width = x.width /\ z.dirty = x.dirty
  /\ z.tops = x.tops /\ z.content = x.content /\ z.virtual = x.virtual
  /\ z.view <= Max({0, x.virtual - ViewH})

LEMMA Scrolling ==
  ASSUME NEW x \in DocType, NEW y \in Int
  PROVE  OnlyScrolled(Scrolled(x, y), x)
<1>1. x.virtual \in Int /\ ViewH \in Int BY CanvasAssumption DEF DocType
<1>2. PICK a : a = x.virtual - ViewH OBVIOUS
<1>3. a \in Int BY <1>1, <1>2
<1>4. PICK m : m = Min({y, a}) OBVIOUS
<1>5. m \in Int /\ m <= a BY <1>3, <1>4, MinMax
<1>6. PICK v, t : v = Max({0, m}) /\ t = Max({0, a}) OBVIOUS
<1>7. v \in {0, m} /\ t >= 0 /\ t >= a /\ t \in {0, a} BY <1>3, <1>5, <1>6, MinMax
<1>8. v \in Int /\ v <= t BY <1>3, <1>5, <1>7
<1>9. PICK z : z = [x EXCEPT !.view = v] OBVIOUS
<1>10. Scrolled(x, y) = z BY <1>2, <1>4, <1>6, <1>9 DEF Scrolled
<1>11. z \in DocType BY <1>8, <1>9, DocSetters
<1>12. /\ z.blocks = x.blocks /\ z.width = x.width /\ z.dirty = x.dirty
       /\ z.tops = x.tops /\ z.content = x.content /\ z.virtual = x.virtual /\ z.view = v
  BY <1>9 DEF DocType
<1> QED BY <1>2, <1>6, <1>8, <1>10, <1>11, <1>12 DEF OnlyScrolled

\* The canvas scrolls over its content, unless it has no width.
LEMMA Sizing ==
  ASSUME NEW x \in DocType
  PROVE  LET z == SetVirtualSize(x)
         IN  /\ z \in DocType /\ z.blocks = x.blocks /\ z.width = x.width /\ z.dirty = x.dirty
             /\ z.tops = x.tops /\ z.content = x.content
             /\ x.width > 0 => z.virtual = z.content /\ z.view <= Max({0, z.virtual - ViewH})
<1>1. x.width \in Nat /\ x.content \in Int /\ x.view \in Int BY DEF DocType
<1>2. CASE x.width = 0 BY <1>1, <1>2 DEF SetVirtualSize
<1>3. CASE x.width # 0
  <2>1. PICK y : y = [x EXCEPT !.virtual = x.content] OBVIOUS
  <2>2. y \in DocType BY <1>1, <2>1, DocSetters
  <2>3. /\ y.blocks = x.blocks /\ y.width = x.width /\ y.dirty = x.dirty
        /\ y.tops = x.tops /\ y.content = x.content /\ y.virtual = x.content
    BY <2>1 DEF DocType
  <2>4. PICK z : z = Scrolled(y, x.view) OBVIOUS
  <2>5. OnlyScrolled(z, y) BY <1>1, <2>2, <2>4, Scrolling
  <2>6. SetVirtualSize(x) = z BY <1>3, <2>1, <2>4 DEF SetVirtualSize
  <2> QED BY <2>3, <2>5, <2>6 DEF OnlyScrolled
<1> QED BY <1>2, <1>3

\* After RecomputeTops everything fits, whatever was there.
Rebuilt(z, x) ==
  /\ z \in DocType /\ z.blocks = x.blocks /\ z.width = x.width /\ z.dirty = x.dirty
  /\ z.tops = TopsOf(x.blocks) /\ z.content = z.tops[Len(z.tops)] + Dots
  /\ z.width > 0 => z.virtual = z.content /\ z.view <= Max({0, z.virtual - ViewH})

LEMMA Rebuilding ==
  ASSUME NEW x \in DocType
  PROVE  Rebuilt(RecomputeTops(x), x)
<1>1. x.blocks \in Seq(BlockType) BY DEF DocType
<1>2. PICK t : t = TopsOf(x.blocks) OBVIOUS
<1>3. t \in Seq(Int) /\ Len(t) = Len(x.blocks) + 1 BY <1>1, <1>2, TopsAre
<1>4. PICK c : c = t[Len(t)] + Dots OBVIOUS
<1>5. c \in Int
  <2>1. Len(x.blocks) \in Nat BY <1>1
  <2>2. Len(t) \in 1 .. Len(t) BY <1>3, <2>1
  <2>3. t[Len(t)] \in Int BY <1>3, <2>2
  <2>4. Dots \in Int BY DEF Dots
  <2> QED BY <1>4, <2>3, <2>4
<1>6. PICK e : e = [x EXCEPT !.tops = t] OBVIOUS
<1>7. /\ e \in DocType /\ e.blocks = x.blocks /\ e.width = x.width /\ e.dirty = x.dirty
      /\ e.tops = t
  <2>1. e \in DocType BY <1>3, <1>6, DocSetters
  <2> QED BY <1>6, <2>1 DEF DocType
<1>8. PICK y : y = [e EXCEPT !.content = c] OBVIOUS
<1>9. /\ y \in DocType /\ y.blocks = x.blocks /\ y.width = x.width /\ y.dirty = x.dirty
      /\ y.tops = t /\ y.content = c
  <2>1. y \in DocType BY <1>5, <1>7, <1>8, DocSetters
  <2> QED BY <1>7, <1>8, <2>1 DEF DocType
<1>10. y = [x EXCEPT !.tops = t, !.content = c] BY <1>6, <1>8
<1>11. RecomputeTops(x) = SetVirtualSize(y) BY <1>2, <1>4, <1>10 DEF RecomputeTops
<1>12. PICK z : z = SetVirtualSize(y) OBVIOUS
<1>13. /\ z \in DocType /\ z.blocks = y.blocks /\ z.width = y.width /\ z.dirty = y.dirty
       /\ z.tops = y.tops /\ z.content = y.content
       /\ y.width > 0 => z.virtual = z.content /\ z.view <= Max({0, z.virtual - ViewH})
  BY <1>9, <1>12, Sizing
<1> QED BY <1>2, <1>4, <1>9, <1>11, <1>12, <1>13 DEF Rebuilt

LEMMA Pinned ==
  ASSUME NEW x \in DocType
  PROVE  ScrollToBottomIfPinned(x) = x \/ OnlyScrolled(ScrollToBottomIfPinned(x), x)
<1>1. x.content \in Int BY DEF DocType
<1>2. OnlyScrolled(Scrolled(x, x.content), x) BY <1>1, Scrolling
<1> QED BY <1>2 DEF ScrollToBottomIfPinned

\* Neither scrolling nor a new layout makes a block stale.
LEMMA ScrolledFine ==
  ASSUME NEW x, NEW n, Fine(x, n), NEW z, z = x \/ OnlyScrolled(z, x)
  PROVE  Fine(z, n) /\ z.blocks = x.blocks /\ z.width = x.width /\ z.dirty = x.dirty
<1>1. CASE z = x BY <1>1
<1>2. CASE OnlyScrolled(z, x)
  <2>1. /\ z \in DocType /\ z.blocks = x.blocks /\ z.width = x.width /\ z.dirty = x.dirty
        /\ z.tops = x.tops /\ z.content = x.content /\ z.virtual = x.virtual
        /\ z.view <= Max({0, x.virtual - ViewH})
    BY <1>2 DEF OnlyScrolled
  <2> QED BY <2>1 DEF Fine, Fits
<1> QED BY <1>1, <1>2

LEMMA RebuiltFine ==
  ASSUME NEW x \in DocType, \A i \in DOMAIN x.blocks : Current(x.blocks[i]),
         NEW z, Rebuilt(z, x)
  PROVE  Fine(z, Dots)
BY DEF Fine, Fits, Rebuilt

\* y is x with the blocks s, one for each.
Replaced(y, x, s) ==
  /\ y \in DocType /\ y.blocks = s /\ y.width = x.width /\ y.dirty = x.dirty
  /\ y.tops = x.tops /\ y.content = x.content /\ y.virtual = x.virtual /\ y.view = x.view
  /\ Len(s) = Len(x.blocks) /\ \A i \in DOMAIN s : Current(s[i])

LEMMA Replacing ==
  ASSUME NEW x \in DocType, NEW s \in [DOMAIN x.blocks -> BlockType],
         \A i \in DOMAIN x.blocks : Current(s[i])
  PROVE  Replaced([x EXCEPT !.blocks = s], x, s)
<1>1. x.blocks \in Seq(BlockType) BY DEF DocType
<1>2. DOMAIN x.blocks = 1 .. Len(x.blocks) /\ Len(x.blocks) \in Nat BY <1>1
<1>3. s \in Seq(BlockType) /\ Len(s) = Len(x.blocks) /\ DOMAIN s = DOMAIN x.blocks BY <1>2
<1>4. PICK y : y = [x EXCEPT !.blocks = s] OBVIOUS
<1>5. y \in DocType BY <1>3, <1>4, DocSetters
<1>6. /\ y.blocks = s /\ y.width = x.width /\ y.dirty = x.dirty
      /\ y.tops = x.tops /\ y.content = x.content /\ y.virtual = x.virtual /\ y.view = x.view
  BY <1>4 DEF DocType
<1> QED BY <1>3, <1>4, <1>5, <1>6 DEF Replaced

\* A block is measured where it is.
LEMMA MeasuringOne ==
  ASSUME NEW x, Fine(x, Dots), NEW i \in DOMAIN x.blocks, NEW w \in Width
  PROVE  LET z == EnsureBlockLaidOut(x, i, w)
         IN  Fine(z, Dots) /\ DOMAIN z.blocks = DOMAIN x.blocks /\ z.width = x.width
<1>1. x \in DocType /\ \A j \in DOMAIN x.blocks : Current(x.blocks[j]) BY DEF Fine
<1>2. CASE x.blocks[i].w = w BY <1>2 DEF EnsureBlockLaidOut
<1>3. CASE x.blocks[i].w # w
  <2>1. x.blocks \in Seq(BlockType) BY <1>1 DEF DocType
  <2>2. x.blocks \in [DOMAIN x.blocks -> BlockType] /\ x.blocks[i] \in BlockType BY <2>1
  <2>3. PICK b : b = LayoutBlock(x.blocks[i], w) OBVIOUS
  <2>4. b \in BlockType /\ Current(b) BY <2>2, <2>3, LaidOut
  <2>5. PICK s : s = [x.blocks EXCEPT ![i] = b] OBVIOUS
  <2>6. s \in [DOMAIN x.blocks -> BlockType] BY <2>2, <2>4, <2>5
  <2>7. \A j \in DOMAIN x.blocks : Current(s[j])
    <3> SUFFICES ASSUME NEW j \in DOMAIN x.blocks PROVE Current(s[j]) OBVIOUS
    <3>1. s[j] = IF j = i THEN b ELSE x.blocks[j] BY <2>2, <2>5
    <3> QED BY <1>1, <2>4, <3>1
  <2>8. PICK y : y = [x EXCEPT !.blocks = s] OBVIOUS
  <2>9. Replaced(y, x, s) BY <1>1, <2>6, <2>7, <2>8, Replacing
  <2>10. y = [x EXCEPT !.blocks[i] = LayoutBlock(@, w)] BY <1>1, <2>3, <2>5, <2>8 DEF DocType
  <2>11. PICK z : z = RecomputeTops(y) OBVIOUS
  <2>12. EnsureBlockLaidOut(x, i, w) = z BY <1>3, <2>10, <2>11 DEF EnsureBlockLaidOut
  <2>13. Rebuilt(z, y) BY <2>9, <2>11, Rebuilding DEF Replaced
  <2>14. Fine(z, Dots) BY <2>9, <2>13, RebuiltFine DEF Replaced
  <2> QED BY <2>6, <2>9, <2>12, <2>13, <2>14 DEF Replaced, Rebuilt
<1> QED BY <1>2, <1>3

\* Relayout leaves a clean layout, or none while the window is hidden.
LEMMA Relaying ==
  ASSUME NEW x, Fine(x, Dots), NEW w \in Width
  PROVE  LET z == Relayout(x, w)
         IN  /\ Fine(z, Dots) /\ DOMAIN z.blocks = DOMAIN x.blocks
             /\ shown => z.width = w /\ ~z.dirty
<1>1. x \in DocType /\ \A j \in DOMAIN x.blocks : Current(x.blocks[j]) BY DEF Fine
<1>2. CASE ~shown
  <2>1. PICK z : z = [x EXCEPT !.width = 0] OBVIOUS
  <2>2. z \in DocType BY <1>1, <2>1, DocSetters
  <2>3. /\ z.blocks = x.blocks /\ z.dirty = x.dirty /\ z.width = 0
        /\ z.tops = x.tops /\ z.content = x.content
    BY <1>1, <2>1 DEF DocType
  <2>4. Fine(z, Dots) BY <1>1, <2>2, <2>3 DEF Fine, Fits
  <2>5. Relayout(x, w) = z BY <1>2, <2>1 DEF Relayout
  <2> QED BY <1>2, <2>3, <2>4, <2>5
<1>3. CASE shown /\ ~x.dirty /\ x.width = w
  <2>1. Relayout(x, w) = x BY <1>3 DEF Relayout
  <2> QED BY <1>3, <2>1
<1>4. CASE shown /\ ~(~x.dirty /\ x.width = w)
  <2>1. PICK cw : cw = ContentWidthFor(w) OBVIOUS
  <2>2. cw \in Width BY <2>1, ContentWidth
  <2>3. PICK s : s = [i \in DOMAIN x.blocks |->
                        IF x.blocks[i].w = cw THEN x.blocks[i] ELSE Estimated(x.blocks[i], cw)]
    OBVIOUS
  <2>4. x.blocks \in Seq(BlockType) BY <1>1 DEF DocType
  <2>5. ASSUME NEW i \in DOMAIN x.blocks PROVE s[i] \in BlockType /\ Current(s[i])
    <3>1. x.blocks[i] \in BlockType BY <2>4
    <3>2. Estimated(x.blocks[i], cw) \in BlockType /\ Current(Estimated(x.blocks[i], cw))
      BY <2>2, <3>1, NotMeasured
    <3> QED BY <1>1, <2>3, <3>1, <3>2
  <2>6. s \in [DOMAIN x.blocks -> BlockType] BY <2>3, <2>5
  <2>7. PICK p : p = [x EXCEPT !.blocks = s] OBVIOUS
  <2>8. Replaced(p, x, s) BY <1>1, <2>5, <2>6, <2>7, Replacing
  <2>9. w \in Nat BY DEF Width
  <2>10. PICK q : q = [p EXCEPT !.width = w] OBVIOUS
  <2>11. q \in DocType /\ q.blocks = s /\ q.width = w
    <3>1. p \in DocType /\ p.blocks = s BY <2>8 DEF Replaced
    <3>2. q \in DocType BY <2>9, <2>10, <3>1, DocSetters
    <3> QED BY <2>10, <3>1, <3>2 DEF DocType
  <2>12. PICK y : y = [q EXCEPT !.dirty = FALSE] OBVIOUS
  <2>13. y \in DocType /\ y.blocks = s /\ y.width = w /\ ~y.dirty
    <3>1. y \in DocType BY <2>11, <2>12, DocSetters
    <3> QED BY <2>11, <2>12, <3>1 DEF DocType
  <2>14. y = [x EXCEPT !.blocks = s, !.width = w, !.dirty = FALSE]
    BY <2>7, <2>10, <2>12
  <2>15. [x EXCEPT !.blocks = [i \in DOMAIN @ |-> IF @[i].w = cw THEN @[i]
                                                   ELSE Estimated(@[i], cw)],
                   !.width = w, !.dirty = FALSE] = y
    BY <1>1, <2>3, <2>14 DEF DocType
  <2>16. PICK z : z = RecomputeTops(y) OBVIOUS
  <2>17. Relayout(x, w) = z BY <1>4, <2>1, <2>15, <2>16 DEF Relayout
  <2>18. Rebuilt(z, y) BY <2>13, <2>16, Rebuilding
  <2>19. DOMAIN s = DOMAIN x.blocks BY <2>3
  <2>20. Fine(z, Dots) BY <2>5, <2>13, <2>18, <2>19, RebuiltFine
  <2> QED BY <2>13, <2>17, <2>18, <2>19, <2>20 DEF Rebuilt
<1> QED BY <1>2, <1>3, <1>4

\* The blocks near the view are measured.
LEMMA MeasuringNear ==
  ASSUME NEW x, Fine(x, Dots), NEW w \in Width
  PROVE  Fine(EnsureVisibleLaidOut(x, w), Dots)
<1>1. x \in DocType /\ \A j \in DOMAIN x.blocks : Current(x.blocks[j]) BY DEF Fine
<1>2. PICK u : u = {i \in NearView(x) : x.blocks[i].w # w} OBVIOUS
<1>3. CASE x.blocks = <<>> \/ Len(x.tops) # Len(x.blocks) + 1 \/ u = {}
  <2>1. EnsureVisibleLaidOut(x, w) = x BY <1>2, <1>3 DEF EnsureVisibleLaidOut
  <2> QED BY <2>1
<1>4. CASE ~(x.blocks = <<>> \/ Len(x.tops) # Len(x.blocks) + 1 \/ u = {})
  <2>1. PICK s : s = [i \in DOMAIN x.blocks |->
                        IF i \in u THEN LayoutBlock(x.blocks[i], w) ELSE x.blocks[i]]
    OBVIOUS
  <2>2. x.blocks \in Seq(BlockType) BY <1>1 DEF DocType
  <2>3. ASSUME NEW i \in DOMAIN x.blocks PROVE s[i] \in BlockType /\ Current(s[i])
    <3>1. x.blocks[i] \in BlockType BY <2>2
    <3>2. LayoutBlock(x.blocks[i], w) \in BlockType /\ Current(LayoutBlock(x.blocks[i], w))
      BY <3>1, LaidOut
    <3> QED BY <1>1, <2>1, <3>1, <3>2
  <2>4. s \in [DOMAIN x.blocks -> BlockType] BY <2>1, <2>3
  <2>5. PICK y : y = [x EXCEPT !.blocks = s] OBVIOUS
  <2>6. Replaced(y, x, s) BY <1>1, <2>3, <2>4, <2>5, Replacing
  <2>7. [x EXCEPT !.blocks = [i \in DOMAIN @ |-> IF i \in u THEN LayoutBlock(@[i], w)
                                                  ELSE @[i]]] = y
    BY <1>1, <2>1, <2>5 DEF DocType
  <2>8. PICK z : z = RecomputeTops(y) OBVIOUS
  <2>9. Rebuilt(z, y) BY <2>6, <2>8, Rebuilding DEF Replaced
  <2>10. Fine(z, Dots) BY <2>6, <2>9, RebuiltFine DEF Replaced
  <2>11. PICK v : v = ScrollToBottomIfPinned(z) OBVIOUS
  <2>12. Fine(v, Dots)
    <3>1. z \in DocType BY <2>10 DEF Fine
    <3>2. v = z \/ OnlyScrolled(v, z) BY <2>11, <3>1, Pinned
    <3> QED BY <2>10, <3>2, ScrolledFine
  <2>13. EnsureVisibleLaidOut(x, w) = v
    BY <1>2, <1>4, <2>7, <2>8, <2>11 DEF EnsureVisibleLaidOut
  <2> QED BY <2>12, <2>13
<1> QED BY <1>3, <1>4

-----------------------------------------------------------------------------
(* Steps.                                                                  *)

LEMMA Reflowing ==
  ASSUME Sound, NEW x \in DocType, \A i \in DOMAIN x.blocks : Current(x.blocks[i])
  PROVE  /\ Fine(Reflowed(x), Dots) /\ DOMAIN Reflowed(x).blocks = DOMAIN x.blocks
         /\ shown => Reflowed(x).width = clientW
<1>1. clientW \in Width BY CanvasAssumption DEF Sound, Width
<1>2. PICK y : y = [x EXCEPT !.dirty = TRUE] OBVIOUS
<1>3. y \in DocType BY <1>2, DocSetters
<1>4. y.blocks = x.blocks /\ y.dirty BY <1>2 DEF DocType
<1>5. Fine(y, Dots) BY <1>3, <1>4 DEF Fine, Fits
<1>6. PICK z : z = Relayout(y, clientW) OBVIOUS
<1>7. Fine(z, Dots) /\ DOMAIN z.blocks = DOMAIN y.blocks /\ (shown => z.width = clientW)
  BY <1>1, <1>5, <1>6, Relaying
<1>8. Reflowed(x) = z BY <1>2, <1>6 DEF Reflowed
<1> QED BY <1>4, <1>7, <1>8

\* A block that is changed and no longer measured.
LEMMA Changing ==
  ASSUME NEW x \in DocType, \A i \in DOMAIN x.blocks : Current(x.blocks[i]),
         NEW i \in DOMAIN x.blocks, NEW b \in BlockType
  PROVE  Replaced([x EXCEPT !.blocks = [x.blocks EXCEPT ![i] = Unmeasured(b)]], x,
                  [x.blocks EXCEPT ![i] = Unmeasured(b)])
<1>1. x.blocks \in Seq(BlockType) BY DEF DocType
<1>2. x.blocks \in [DOMAIN x.blocks -> BlockType] BY <1>1
<1>3. PICK c : c = Unmeasured(b) OBVIOUS
<1>4. c \in BlockType /\ Current(c) BY <1>3, NotMeasured
<1>5. PICK s : s = [x.blocks EXCEPT ![i] = c] OBVIOUS
<1>6. s \in [DOMAIN x.blocks -> BlockType] BY <1>2, <1>4, <1>5
<1>7. \A j \in DOMAIN x.blocks : Current(s[j])
  <2> SUFFICES ASSUME NEW j \in DOMAIN x.blocks PROVE Current(s[j]) OBVIOUS
  <2>1. s[j] = IF j = i THEN c ELSE x.blocks[j] BY <1>2, <1>5
  <2> QED BY <1>4, <2>1
<1> QED BY <1>3, <1>5, <1>6, <1>7, Replacing

LEMMA Toggling ==
  ASSUME Sound, NEW x, Fine(x, Dots), NEW i \in DOMAIN x.blocks
  PROVE  Fine(Toggled(x, i), Dots)
<1>1. x \in DocType /\ \A j \in DOMAIN x.blocks : Current(x.blocks[j]) BY DEF Fine
<1>2. x.blocks[i] \in BlockType
  <2>1. x.blocks \in Seq(BlockType) BY <1>1 DEF DocType
  <2> QED BY <2>1
<1>3. PICK b : b = Flipped(x.blocks[i]) OBVIOUS
<1>4. b \in BlockType
  <2>1. x.blocks[i].open \in BOOLEAN BY <1>2 DEF BlockType
  <2>2. PICK o \in BOOLEAN : o = ~x.blocks[i].open BY <2>1
  <2>3. b = [x.blocks[i] EXCEPT !.open = o] BY <1>3, <2>2 DEF Flipped
  <2> QED BY <1>2, <2>3, BlockSetters
<1>5. PICK s : s = [x.blocks EXCEPT ![i] = Unmeasured(b)] OBVIOUS
<1>6. PICK y : y = [x EXCEPT !.blocks = s] OBVIOUS
<1>7. Replaced(y, x, s) BY <1>1, <1>4, <1>5, <1>6, Changing
<1>8. [x EXCEPT !.blocks[i] = Unmeasured(Flipped(@))] = y
  BY <1>1, <1>3, <1>5, <1>6 DEF DocType
<1>9. Toggled(x, i) = Reflowed(y) BY <1>8 DEF Toggled
<1> QED BY <1>7, <1>9, Reflowing DEF Replaced

\* What a step leaves, when the dots stay as they are.
LEMMA Keeping ==
  ASSUME Sound, Fine(d', Dots), UNCHANGED thinking, clientW' \in Widths,
         shown' \in BOOLEAN, stick' \in BOOLEAN
  PROVE  Sound'
<1>1. Dots' = Dots BY DEF Dots
<1>2. thinking \in BOOLEAN BY DEF Sound
<1>3. PICK n, e : n = Dots /\ e = d' OBVIOUS
<1>4. Fine(e, n) BY <1>3
<1>5. Fine(d', Dots') BY <1>1, <1>3, <1>4
<1> QED BY <1>2, <1>5 DEF Sound

LEMMA AddBlocksSound ==
  ASSUME Sound, NEW bs \in Seq(BlockType), \A i \in DOMAIN bs : Current(bs[i]), AddBlocks(bs)
  PROVE  Sound'
<1>1. d \in DocType /\ \A i \in DOMAIN d.blocks : Current(d.blocks[i]) BY DEF Sound, Fine
<1>2. d.blocks \in Seq(BlockType) BY <1>1 DEF DocType
<1>3. PICK s : s = d.blocks \o bs OBVIOUS
<1>4. s \in Seq(BlockType) BY <1>2, <1>3
<1>5. \A i \in DOMAIN s : Current(s[i])
  <2> SUFFICES ASSUME NEW i \in DOMAIN s PROVE Current(s[i]) OBVIOUS
  <2>1. /\ i \in 1 .. Len(d.blocks) + Len(bs) /\ Len(d.blocks) \in Nat /\ Len(bs) \in Nat
        /\ DOMAIN d.blocks = 1 .. Len(d.blocks) /\ DOMAIN bs = 1 .. Len(bs)
    BY <1>2, <1>3
  <2>2. CASE i <= Len(d.blocks)
    <3>1. i \in DOMAIN d.blocks /\ s[i] = d.blocks[i] BY <1>2, <1>3, <2>1, <2>2
    <3> QED BY <1>1, <3>1
  <2>3. CASE i > Len(d.blocks)
    <3>1. i - Len(d.blocks) \in DOMAIN bs /\ s[i] = bs[i - Len(d.blocks)]
      BY <1>2, <1>3, <2>1, <2>3
    <3> QED BY <3>1
  <2> QED BY <2>1, <2>2, <2>3
<1>6. PICK x : x = [d EXCEPT !.blocks = s] OBVIOUS
<1>7. x \in DocType BY <1>1, <1>4, <1>6, DocSetters
<1>8. x.blocks = s BY <1>1, <1>6 DEF DocType
<1>9. PICK y : y = Reflowed(x) OBVIOUS
<1>10. Fine(y, Dots) BY <1>5, <1>7, <1>8, <1>9, Reflowing
<1>11. [d EXCEPT !.blocks = @ \o bs] = x BY <1>1, <1>3, <1>6 DEF DocType
<1>12. d' = ScrollToBottomIfPinned(y) BY <1>9, <1>11 DEF AddBlocks
<1>13. y \in DocType BY <1>10 DEF Fine
<1>14. Fine(d', Dots) BY <1>10, <1>12, <1>13, Pinned, ScrolledFine
<1> QED BY <1>14, Keeping DEF AddBlocks, Sound

LEMMA UpdateThinkingBlockSound ==
  ASSUME Sound, NEW i \in DOMAIN d.blocks, NEW len \in Nat, UpdateThinkingBlock(i, len)
  PROVE  Sound'
<1>1. d \in DocType /\ \A j \in DOMAIN d.blocks : Current(d.blocks[j]) BY DEF Sound, Fine
<1>2. d.blocks[i] \in BlockType
  <2>1. d.blocks \in Seq(BlockType) BY <1>1 DEF DocType
  <2> QED BY <2>1
<1>3. PICK b : b = [d.blocks[i] EXCEPT !.len = len] OBVIOUS
<1>4. b \in BlockType BY <1>2, <1>3, BlockSetters
<1>5. PICK s : s = [d.blocks EXCEPT ![i] = Unmeasured(b)] OBVIOUS
<1>6. PICK y : y = [d EXCEPT !.blocks = s] OBVIOUS
<1>7. Replaced(y, d, s) BY <1>1, <1>4, <1>5, <1>6, Changing
<1>8. [d EXCEPT !.blocks[i] = Unmeasured([@ EXCEPT !.len = len])] = y
  BY <1>1, <1>3, <1>5, <1>6 DEF DocType
<1>9. PICK x : x = Reflowed(y) OBVIOUS
<1>10. Fine(x, Dots) /\ DOMAIN x.blocks = DOMAIN d.blocks
  <2>1. y \in DocType /\ \A j \in DOMAIN y.blocks : Current(y.blocks[j]) BY <1>7 DEF Replaced
  <2>2. DOMAIN y.blocks = DOMAIN d.blocks BY <1>1, <1>5, <1>7 DEF Replaced, DocType
  <2> QED BY <1>9, <2>1, <2>2, Reflowing
<1>11. PICK z : z = IF x.width > 0 THEN EnsureBlockLaidOut(x, i, ContentWidthFor(x.width)) ELSE x
  OBVIOUS
<1>12. Fine(z, Dots)
  <2>1. CASE x.width > 0
    <3>1. x.width \in Width BY <1>10, <2>1 DEF Fine, DocType, Width
    <3>2. PICK w : w = ContentWidthFor(x.width) OBVIOUS
    <3>3. w \in Width BY <3>1, <3>2, ContentWidth
    <3>4. z = EnsureBlockLaidOut(x, i, w) BY <1>11, <2>1, <3>2
    <3> QED BY <1>10, <3>3, <3>4, MeasuringOne
  <2>2. CASE ~(x.width > 0) BY <1>10, <1>11, <2>2
  <2> QED BY <2>1, <2>2
<1>13. d' = ScrollToBottomIfPinned(z) BY <1>8, <1>9, <1>11 DEF UpdateThinkingBlock
<1>14. z \in DocType BY <1>12 DEF Fine
<1>15. Fine(d', Dots) BY <1>12, <1>13, <1>14, Pinned, ScrolledFine
<1> QED BY <1>15, Keeping DEF UpdateThinkingBlock, Sound

LEMMA ToggleToolCallSound ==
  ASSUME Sound, NEW i \in DOMAIN d.blocks, ToggleToolCall(i)
  PROVE  Sound'
<1>1. Fine(d, Dots) BY DEF Sound
<1>2. Fine(d', Dots) BY <1>1, Toggling DEF ToggleToolCall
<1> QED BY <1>2, Keeping DEF ToggleToolCall, Sound

\* The dots come and go with the line they take.
LEMMA SetThinkingSound ==
  ASSUME Sound, NEW on \in BOOLEAN, SetThinking(on)
  PROVE  Sound'
<1>1. d \in DocType /\ Fine(d, Dots) BY DEF Sound, Fine
<1>2. PICK n : n = Dots' OBVIOUS
<1>3. PICK c : c = IF on THEN d.content + 1 ELSE d.content - 1 OBVIOUS
<1>4. n \in Int /\ Dots \in Int /\ c - n = d.content - Dots /\ c \in Int
  <2>1. d.content \in Int BY <1>1 DEF DocType
  <2>2. thinking \in BOOLEAN /\ thinking' = on /\ thinking # on BY DEF Sound, SetThinking
  <2>3. n = IF on THEN 1 ELSE 0 BY <1>2, <2>2 DEF Dots
  <2>4. Dots = IF on THEN 0 ELSE 1 BY <2>2 DEF Dots
  <2> QED BY <1>3, <2>1, <2>3, <2>4
<1>5. PICK x : x = [d EXCEPT !.content = c] OBVIOUS
<1>6. x = [d EXCEPT !.content = IF on THEN @ + 1 ELSE @ - 1] BY <1>1, <1>3, <1>5 DEF DocType
<1>7. x \in DocType BY <1>1, <1>4, <1>5, DocSetters
<1>8. /\ x.blocks = d.blocks /\ x.width = d.width /\ x.dirty = d.dirty
      /\ x.tops = d.tops /\ x.content = c
  BY <1>1, <1>5 DEF DocType
<1>9. PICK y : y = SetVirtualSize(x) OBVIOUS
<1>10. /\ y \in DocType /\ y.blocks = x.blocks /\ y.width = x.width /\ y.dirty = x.dirty
       /\ y.tops = x.tops /\ y.content = x.content
       /\ x.width > 0 => y.virtual = y.content /\ y.view <= Max({0, y.virtual - ViewH})
  BY <1>7, <1>9, Sizing
<1>11. Fine(y, n)
  <2>1. \A i \in DOMAIN y.blocks : Current(y.blocks[i]) BY <1>1, <1>8, <1>10 DEF Fine
  <2>2. ASSUME ~y.dirty PROVE y.tops = TopsOf(y.blocks) /\ y.content = y.tops[Len(y.tops)] + n
    <3>1. d.tops = TopsOf(d.blocks) /\ d.content = d.tops[Len(d.tops)] + Dots
      BY <1>1, <1>8, <1>10, <2>2 DEF Fine, Fits
    <3>2. PICK t : t = d.tops OBVIOUS
    <3>3. t[Len(t)] \in Int
      <4>1. d.blocks \in Seq(BlockType) BY <1>1 DEF DocType
      <4>2. t \in Seq(Int) /\ Len(t) = Len(d.blocks) + 1 BY <3>1, <3>2, <4>1, TopsAre
      <4>3. Len(d.blocks) \in Nat BY <4>1
      <4>4. Len(t) \in 1 .. Len(t) BY <4>2, <4>3
      <4> QED BY <4>2, <4>4
    <3>4. c = t[Len(t)] + n BY <1>4, <3>1, <3>2, <3>3
    <3> QED BY <1>8, <1>10, <3>1, <3>2, <3>4
  <2> QED BY <1>10, <2>1, <2>2 DEF Fine, Fits
<1>12. d' = ScrollToBottomIfPinned(y) BY <1>6, <1>9 DEF SetThinking
<1>13. Fine(d', n) BY <1>10, <1>11, <1>12, Pinned, ScrolledFine
<1>14. Fine(d', Dots') BY <1>2, <1>13
<1> QED BY <1>14 DEF Sound, SetThinking

\* Nothing is laid out any more.
LEMMA ClearSound ==
  ASSUME Sound, Clear
  PROVE  Sound'
<1>1. d.virtual \in Int /\ d.view \in Int BY DEF Sound, Fine, DocType
<1>2. d' = [blocks |-> <<>>, width |-> 0, dirty |-> TRUE, tops |-> <<>>,
            content |-> 0, virtual |-> d.virtual, view |-> d.view]
  BY DEF Clear, NoDoc
<1>3. d' \in DocType BY <1>1, <1>2 DEF DocType
<1>4. Fine(d', Dots) BY <1>2, <1>3 DEF Fine, Fits
<1> QED BY <1>4, Keeping DEF Clear, Sound

LEMMA OnResizeSettleSound ==
  ASSUME Sound, OnResizeSettle
  PROVE  Sound'
<1>1. d \in DocType BY DEF Sound, Fine
<1>2. PICK e : e = [d EXCEPT !.width = 0] OBVIOUS
<1>3. e \in DocType /\ e.blocks = d.blocks
  <2>1. e \in DocType BY <1>1, <1>2, DocSetters
  <2> QED BY <1>1, <1>2, <2>1 DEF DocType
<1>4. d' = [e EXCEPT !.dirty = TRUE] BY <1>2 DEF OnResizeSettle
<1>5. d' \in DocType /\ d'.blocks = d.blocks /\ d'.dirty
  <2>1. PICK f : f = d' OBVIOUS
  <2>2. f \in DocType BY <1>3, <1>4, <2>1, DocSetters
  <2>3. f.blocks = d.blocks /\ f.dirty BY <1>3, <1>4, <2>1 DEF DocType
  <2> QED BY <2>1, <2>2, <2>3
<1>6. Fine(d', Dots) BY <1>5 DEF Sound, Fine, Fits
<1> QED BY <1>6, Keeping DEF OnResizeSettle, Sound

LEMMA OnScrollWinSound ==
  ASSUME Sound, NEW y \in Int, OnScrollWin(y)
  PROVE  Sound'
<1>1. d \in DocType /\ Fine(d, Dots) BY DEF Sound, Fine
<1>2. OnlyScrolled(d', d) BY <1>1, Scrolling DEF OnScrollWin
<1>3. Fine(d', Dots) BY <1>1, <1>2, ScrolledFine
<1> QED BY <1>3, Keeping DEF OnScrollWin, Sound

\* A paint lays the blocks out, unless they are, and measures those near.
LEMMA LayoutWidth ==
  ASSUME Sound
  PROVE  LayoutW(d) \in Width
<1>1. clientW \in Width BY CanvasAssumption DEF Sound, Width
<1>2. d.width \in Nat BY DEF Sound, Fine, DocType
<1> QED BY <1>1, <1>2 DEF LayoutW, Width

LEMMA OnPaintSound ==
  ASSUME Sound, OnPaint
  PROVE  Sound'
<1>1. PICK w : w = LayoutW(d) OBVIOUS
<1>2. w \in Width BY <1>1, LayoutWidth
<1>3. PICK cw : cw = ContentWidthFor(w) OBVIOUS
<1>4. cw \in Width BY <1>2, <1>3, ContentWidth
<1>5. PICK x : x = Relayout(d, w) OBVIOUS
<1>6. Fine(x, Dots) BY <1>2, <1>5, Relaying DEF Sound
<1>7. d' = EnsureVisibleLaidOut(x, cw)
  BY <1>1, <1>3, <1>5 DEF OnPaint, PrepareLayoutForPaint, Relaid
<1>8. Fine(d', Dots) BY <1>4, <1>6, <1>7, MeasuringNear
<1> QED BY <1>8, Keeping DEF OnPaint, Sound

LEMMA HitFine ==
  ASSUME Sound, NEW i \in DOMAIN d.blocks
  PROVE  Fine(Hit(i), Dots) /\ DOMAIN Hit(i).blocks = DOMAIN d.blocks
<1>1. clientW \in Width BY CanvasAssumption DEF Sound, Width
<1>2. PICK w : w = ContentWidthFor(clientW) OBVIOUS
<1>3. w \in Width BY <1>1, <1>2, ContentWidth
<1>4. PICK z : z = EnsureBlockLaidOut(d, i, w) OBVIOUS
<1>5. Fine(z, Dots) /\ DOMAIN z.blocks = DOMAIN d.blocks BY <1>3, <1>4, MeasuringOne DEF Sound
<1> QED BY <1>2, <1>4, <1>5 DEF Hit

LEMMA OnMotionSound ==
  ASSUME Sound, NEW i \in DOMAIN d.blocks, OnMotion(i)
  PROVE  Sound'
<1>1. Fine(d', Dots) BY HitFine DEF OnMotion
<1> QED BY <1>1, Keeping DEF OnMotion, Sound

LEMMA OnLeftDownSound ==
  ASSUME Sound, NEW i \in DOMAIN d.blocks, OnLeftDown(i)
  PROVE  Sound'
<1>1. PICK x : x = Hit(i) OBVIOUS
<1>2. Fine(x, Dots) /\ i \in DOMAIN x.blocks BY <1>1, HitFine
<1>3. Fine(Toggled(x, i), Dots) BY <1>2, Toggling
<1>4. Fine(d', Dots) BY <1>1, <1>3 DEF OnLeftDown
<1> QED BY <1>4, Keeping DEF OnLeftDown, Sound

\* The blocks the frame adds are not measured yet.
LEMMA NewBlocksFine ==
  ASSUME NEW b \in NewBlocks
  PROVE  b \in BlockType /\ Current(b)
<1>1. PICK k, n, g : b = Block(k, n, g) /\ k \in {"text", "fold"} /\ n \in Nat /\ g \in Nat
  <2>1. \A n \in 1 .. MaxLen : n \in Nat BY CanvasAssumption
  <2>2. \A g \in Guesses : g \in Nat BY CanvasAssumption
  <2>3. CASE b \in {Block("text", n, s) : n \in 1 .. MaxLen, s \in Guesses} BY <2>1, <2>2, <2>3
  <2>4. CASE b \in {Block("fold", n, n) : n \in 1 .. MaxLen} BY <2>1, <2>4
  <2> QED BY <2>3, <2>4 DEF NewBlocks
<1>2. b \in BlockType BY <1>1 DEF Block, BlockType, Forms
<1>3. b.w = 0 BY <1>1 DEF Block
<1> QED BY <1>2, <1>3 DEF Current

LEMMA InitSound == Init => Sound
<1> SUFFICES ASSUME Init PROVE Sound OBVIOUS
<1>1. d = [blocks |-> <<>>, width |-> 0, dirty |-> TRUE, tops |-> <<>>,
           content |-> 0, virtual |-> 0, view |-> 0]
  BY DEF Init, NoDoc
<1>2. d \in DocType BY <1>1 DEF DocType
<1>3. Fine(d, Dots) BY <1>1, <1>2 DEF Fine, Fits
<1> QED BY <1>3 DEF Init, Sound

LEMMA NextSound == Sound /\ [Next]_vars => Sound'
<1> SUFFICES ASSUME Sound, [Next]_vars PROVE Sound' OBVIOUS
<1>1. CASE UNCHANGED vars
  <2>1. d' = d /\ Dots' = Dots /\ UNCHANGED <<clientW, thinking, shown, stick>>
    BY <1>1 DEF vars, Dots
  <2>2. Fine(d', Dots) BY <2>1 DEF Sound
  <2> QED BY <2>1, <2>2, Keeping DEF Sound
<1>2. CASE Changes
  <2>1. ASSUME NEW b \in NewBlocks, AddBlocks(<<b>>) PROVE Sound'
    <3>1. b \in BlockType /\ Current(b) BY NewBlocksFine
    <3>2. <<b>> \in Seq(BlockType) /\ \A i \in DOMAIN <<b>> : Current(<<b>>[i]) BY <3>1
    <3> QED BY <2>1, <3>2, AddBlocksSound
  <2>2. ASSUME NEW b \in NewBlocks, NEW c \in NewBlocks, AddBlocks(<<b, c>>) PROVE Sound'
    <3>1. b \in BlockType /\ Current(b) /\ c \in BlockType /\ Current(c) BY NewBlocksFine
    <3>2. <<b, c>> \in Seq(BlockType) /\ \A i \in DOMAIN <<b, c>> : Current(<<b, c>>[i])
      BY <3>1
    <3> QED BY <2>2, <3>2, AddBlocksSound
  <2>3. ASSUME NEW i \in DOMAIN d.blocks, NEW n \in 1 .. MaxLen, UpdateThinkingBlock(i, n)
        PROVE  Sound'
    <3>1. n \in Nat BY CanvasAssumption
    <3> QED BY <2>3, <3>1, UpdateThinkingBlockSound
  <2>4. ASSUME NEW i \in DOMAIN d.blocks, ToggleToolCall(i) PROVE Sound'
    BY <2>4, ToggleToolCallSound
  <2>5. ASSUME NEW on \in BOOLEAN, SetThinking(on) PROVE Sound' BY <2>5, SetThinkingSound
  <2>6. ASSUME NEW on \in BOOLEAN, Show(on) PROVE Sound'
    <3>1. Fine(d', Dots) BY <2>6 DEF Show, Sound
    <3> QED BY <2>6, <3>1, Keeping DEF Show, Sound
  <2>7. CASE Clear BY <2>7, ClearSound
  <2> QED BY <1>2, <2>1, <2>2, <2>3, <2>4, <2>5, <2>6, <2>7 DEF Changes
<1>3. CASE Mouse
  <2>1. PICK i \in DOMAIN d.blocks : OnMotion(i) \/ OnLeftDown(i) BY <1>3 DEF Mouse
  <2> QED BY <2>1, OnMotionSound, OnLeftDownSound
<1>4. CASE Window
  <2>1. ASSUME NEW w \in Widths, OnSize(w) PROVE Sound'
    <3>1. Fine(d', Dots) BY <2>1 DEF OnSize, Sound
    <3> QED BY <2>1, <3>1, Keeping DEF OnSize, Sound
  <2>2. ASSUME NEW y \in 0 .. d.virtual, OnScrollWin(y) PROVE Sound'
    <3>1. y \in Int OBVIOUS
    <3> QED BY <2>2, <3>1, OnScrollWinSound
  <2> QED BY <1>4, <2>1, <2>2 DEF Window
<1>5. CASE Due
  <2>1. CASE OnResizeSettle BY <2>1, OnResizeSettleSound
  <2>2. CASE UpdateStickToBottom
    <3>1. Fine(d', Dots) BY <2>2 DEF UpdateStickToBottom, Sound
    <3>2. stick' \in BOOLEAN BY <2>2 DEF UpdateStickToBottom
    <3> QED BY <2>2, <3>1, <3>2, Keeping DEF UpdateStickToBottom, Sound
  <2>3. CASE OnPaint BY <2>3, OnPaintSound
  <2> QED BY <1>5, <2>1, <2>2, <2>3 DEF Due
<1> QED BY <1>1, <1>2, <1>3, <1>4, <1>5 DEF Next

-----------------------------------------------------------------------------
(* Paints.                                                                 *)

\* Measuring the blocks u near the view makes s of the blocks. A block of s
\* that is drawn, but was not near, has moved by more than the margin.
LEMMA MovedFar ==
  ASSUME NEW bs \in Seq(BlockType), NEW s \in Seq(BlockType), Len(s) = Len(bs),
         NEW p, IsTops(p, bs), NEW q, IsTops(q, s),
         NEW view \in Int, NEW u \in SUBSET (1 .. Len(bs)),
         \A j \in 1 .. Len(bs) :
           j \in u => p[j + 1] >= view - Margin /\ p[j] <= view + ViewH + Margin,
         \A j \in 1 .. Len(bs) : j \notin u => s[j] = bs[j],
         NEW i \in 1 .. Len(bs),
         p[i + 1] < view - Margin \/ p[i] > view + ViewH + Margin,
         q[i + 1] >= view, q[i] <= view + ViewH
  PROVE  p[Len(bs) + 1] - q[Len(bs) + 1] > Margin
<1>1. Len(bs) \in Nat OBVIOUS
<1>2. \A k \in 1 .. Len(bs) + 1 : p[k] \in Nat /\ q[k] \in Nat BY DEF IsTops
<1>3. Margin \in Nat /\ ViewH \in Nat BY CanvasAssumption
<1>4. /\ i \in 1 .. Len(bs) + 1 /\ i + 1 \in 1 .. Len(bs) + 1
      /\ 1 \in 1 .. Len(bs) + 1 /\ Len(bs) + 1 \in 1 .. Len(bs) + 1
  BY <1>1
<1>5. CASE p[i + 1] < view - Margin
  <2>1. ASSUME NEW j \in 1 .. (i + 1) - 1 PROVE s[j].h = bs[j].h
    <3>1. j \in 1 .. Len(bs) /\ j + 1 \in 1 .. Len(bs) + 1 /\ i + 1 \in j + 1 .. Len(bs) + 1
      BY <1>1
    <3>2. p[j + 1] <= p[i + 1] BY <3>1, TopsRise
    <3>3. p[j + 1] \in Nat /\ p[i + 1] \in Nat BY <1>2, <1>4, <3>1
    <3>4. j \notin u BY <1>3, <1>5, <3>1, <3>2, <3>3
    <3> QED BY <3>1, <3>4
  <2>2. i + 1 \in 1 .. Len(bs) + 1 BY <1>4
  <2>3. q[i + 1] - p[i + 1] = q[1] - p[1]
    <3>1. PICK m, n : m = 1 /\ n = i + 1 OBVIOUS
    <3>2. /\ m \in 1 .. Len(bs) + 1 /\ n \in m .. Len(bs) + 1
          /\ \A j \in m .. n - 1 : s[j].h = bs[j].h
      BY <1>4, <2>1, <2>2, <3>1
    <3>3. q[n] - p[n] = q[m] - p[m] BY <3>2, TopsShift
    <3> QED BY <3>1, <3>3
  <2>4. q[1] = 0 /\ p[1] = 0 BY DEF IsTops
  <2>5. p[i + 1] \in Nat /\ q[i + 1] \in Nat BY <1>2, <1>4
  <2> QED BY <1>3, <1>5, <2>3, <2>4, <2>5
<1>6. CASE p[i] > view + ViewH + Margin
  <2>1. ASSUME NEW j \in i .. (Len(bs) + 1) - 1 PROVE s[j].h = bs[j].h
    <3>1. j \in 1 .. Len(bs) /\ j \in i .. Len(bs) + 1 /\ j \in 1 .. Len(bs) + 1 BY <1>1
    <3>2. p[i] <= p[j] BY <1>4, <3>1, TopsRise
    <3>3. p[i] \in Nat /\ p[j] \in Nat BY <1>2, <1>4, <3>1
    <3>4. j \notin u BY <1>3, <1>6, <3>1, <3>2, <3>3
    <3> QED BY <3>1, <3>4
  <2>2. Len(bs) + 1 \in i .. Len(bs) + 1 BY <1>1
  <2>3. q[Len(bs) + 1] - p[Len(bs) + 1] = q[i] - p[i]
    <3>1. PICK n : n = Len(bs) + 1 OBVIOUS
    <3>2. n \in i .. Len(bs) + 1 /\ \A j \in i .. n - 1 : s[j].h = bs[j].h
      BY <2>1, <2>2, <3>1
    <3>3. q[n] - p[n] = q[i] - p[i] BY <1>4, <3>2, TopsShift
    <3> QED BY <3>1, <3>3
  <2>4. /\ p[i] \in Nat /\ q[i] \in Nat
        /\ p[Len(bs) + 1] \in Nat /\ q[Len(bs) + 1] \in Nat
    BY <1>2, <1>4
  <2> QED BY <1>3, <1>6, <2>3, <2>4
<1> QED BY <1>5, <1>6

LEMMA PaintedMeasured ==
  ASSUME Sound, OnPaint, NEW i \in Rendered
  PROVE  \/ Relaid(d).content - d'.content > Margin
         \/ d'.blocks[i].w = ContentWidthFor(d'.width)
<1>1. PICK w : w = LayoutW(d) OBVIOUS
<1>2. w \in Width BY <1>1, LayoutWidth
<1>3. PICK cw : cw = ContentWidthFor(w) OBVIOUS
<1>4. cw \in Width BY <1>2, <1>3, ContentWidth
<1>5. PICK x, e : x = Relaid(d) /\ e = d' OBVIOUS
<1>6. x = Relayout(d, w) BY <1>1, <1>5 DEF Relaid
<1>7. Fine(x, Dots) /\ x.width = w /\ ~x.dirty
  <2>1. Fine(d, Dots) /\ shown BY DEF Sound, OnPaint
  <2> QED BY <1>2, <1>6, <2>1, Relaying
<1>8. e = EnsureVisibleLaidOut(x, cw)
  BY <1>1, <1>3, <1>5 DEF OnPaint, PrepareLayoutForPaint
<1>9. i \in Between(e, x.view, x.view + ViewH) BY <1>5 DEF Rendered
<1>10. x \in DocType /\ x.tops = TopsOf(x.blocks) /\ x.content = x.tops[Len(x.tops)] + Dots
  BY <1>7 DEF Fine, Fits
<1>11. PICK bs, p, view : bs = x.blocks /\ p = x.tops /\ view = x.view OBVIOUS
<1>12. bs \in Seq(BlockType) /\ view \in Int BY <1>10, <1>11 DEF DocType
<1>13. IsTops(p, bs) /\ Len(p) = Len(bs) + 1 BY <1>10, <1>11, <1>12, TopsAre
<1>14. Len(bs) \in Nat /\ DOMAIN bs = 1 .. Len(bs) BY <1>12
<1>15. \A k \in 1 .. Len(bs) + 1 : p[k] \in Nat BY <1>13 DEF IsTops
<1>16. Margin \in Nat /\ ViewH \in Nat BY CanvasAssumption
<1>17. Dots \in Int BY DEF Dots
<1>18. PICK u : u = {j \in NearView(x) : bs[j].w # cw} OBVIOUS
<1>19. CASE bs = <<>> \/ u = {}
  <2>1. e = x BY <1>8, <1>11, <1>18, <1>19 DEF EnsureVisibleLaidOut
  <2>2. i \in DOMAIN bs /\ p[i + 1] >= view /\ p[i] <= view + ViewH
    BY <1>9, <1>11, <2>1 DEF Between
  <2>3. i \in 1 .. Len(bs) + 1 /\ i + 1 \in 1 .. Len(bs) + 1 BY <1>14, <2>2
  <2>4. p[i] \in Nat /\ p[i + 1] \in Nat BY <1>15, <2>3
  <2>5. i \in NearView(x)
    <3>1. CASE x.tops[Len(x.tops)] < x.view - Margin BY <1>11, <2>2, <3>1 DEF NearView
    <3>2. CASE ~(x.tops[Len(x.tops)] < x.view - Margin)
      <4>1. p[i + 1] >= view - Margin /\ p[i] <= view + ViewH + Margin
        BY <1>12, <1>16, <2>2, <2>4
      <4> QED BY <1>11, <2>2, <3>2, <4>1 DEF NearView, Between
    <3> QED BY <3>1, <3>2
  <2>6. u = {} BY <1>14, <1>19, <2>2
  <2>7. bs[i].w = cw BY <1>18, <2>5, <2>6
  <2> QED BY <1>3, <1>5, <1>7, <1>11, <2>1, <2>7
<1>20. CASE ~(bs = <<>> \/ u = {})
  <2>1. PICK s : s = [j \in DOMAIN bs |-> IF j \in u THEN LayoutBlock(bs[j], cw) ELSE bs[j]]
    OBVIOUS
  <2>2. ASSUME NEW j \in DOMAIN bs PROVE s[j] \in BlockType /\ Current(s[j])
    <3>1. bs[j] \in BlockType BY <1>12
    <3>2. LayoutBlock(bs[j], cw) \in BlockType /\ Current(LayoutBlock(bs[j], cw))
      BY <1>4, <3>1, LaidOut
    <3>3. Current(bs[j]) BY <1>7, <1>11 DEF Fine
    <3> QED BY <2>1, <3>1, <3>2, <3>3
  <2>3. s \in [DOMAIN x.blocks -> BlockType] BY <1>11, <2>1, <2>2
  <2>4. PICK y : y = [x EXCEPT !.blocks = s] OBVIOUS
  <2>5. Replaced(y, x, s) BY <1>10, <1>11, <2>2, <2>3, <2>4, Replacing
  <2>6. [x EXCEPT !.blocks = [j \in DOMAIN @ |-> IF j \in u THEN LayoutBlock(@[j], cw)
                                                  ELSE @[j]]] = y
    BY <1>10, <1>11, <2>1, <2>4 DEF DocType
  <2>7. PICK z : z = RecomputeTops(y) OBVIOUS
  <2>8. Rebuilt(z, y) BY <2>5, <2>7, Rebuilding DEF Replaced
  <2>9. e = ScrollToBottomIfPinned(z)
    BY <1>8, <1>11, <1>13, <1>18, <1>20, <2>6, <2>7 DEF EnsureVisibleLaidOut
  <2>10. z \in DocType BY <2>8 DEF Rebuilt
  <2>11. e = z \/ OnlyScrolled(e, z) BY <2>9, <2>10, Pinned
  <2>12. /\ e.blocks = s /\ e.width = w /\ e.tops = TopsOf(s)
         /\ e.content = e.tops[Len(e.tops)] + Dots
    BY <1>7, <2>5, <2>8, <2>11 DEF OnlyScrolled, Rebuilt, Replaced
  <2>13. s \in Seq(BlockType) /\ Len(s) = Len(bs) BY <1>11, <1>14, <2>3, <2>5 DEF Replaced
  <2>14. PICK q : q = TopsOf(s) OBVIOUS
  <2>15. IsTops(q, s) /\ Len(q) = Len(bs) + 1 BY <2>13, <2>14, TopsAre
  <2>16. i \in 1 .. Len(bs) /\ q[i + 1] >= view /\ q[i] <= view + ViewH
    BY <1>9, <1>11, <1>14, <2>1, <2>12, <2>14 DEF Between
  <2>17. CASE i \in NearView(x)
    <3>1. s[i].w = cw
      <4>1. bs[i] \in BlockType /\ i \in DOMAIN bs BY <1>12, <1>14, <2>16
      <4>2. LayoutBlock(bs[i], cw).w = cw BY <1>4, <4>1, LaidOut
      <4> QED BY <1>18, <2>1, <2>17, <4>1, <4>2
    <3> QED BY <1>3, <1>5, <2>12, <3>1
  <2>18. CASE i \notin NearView(x)
    <3>1. ~(x.tops[Len(x.tops)] < x.view - Margin)
      BY <1>11, <1>14, <2>16, <2>18 DEF NearView
    <3>2. NearView(x) = {j \in 1 .. Len(bs) : /\ p[j + 1] >= view - Margin
                                               /\ p[j] <= view + ViewH + Margin}
      BY <1>11, <1>14, <3>1 DEF NearView, Between
    <3>3. u \in SUBSET (1 .. Len(bs)) BY <1>18, <3>2
    <3>4. \A j \in 1 .. Len(bs) :
            j \in u => p[j + 1] >= view - Margin /\ p[j] <= view + ViewH + Margin
      BY <1>18, <3>2
    <3>5. \A j \in 1 .. Len(bs) : j \notin u => s[j] = bs[j] BY <1>14, <2>1
    <3>6. p[i + 1] < view - Margin \/ p[i] > view + ViewH + Margin
      <4>1. ~(p[i + 1] >= view - Margin /\ p[i] <= view + ViewH + Margin)
        BY <2>16, <2>18, <3>2
      <4>2. i \in 1 .. Len(bs) + 1 /\ i + 1 \in 1 .. Len(bs) + 1 BY <1>14, <2>16
      <4>3. p[i] \in Nat /\ p[i + 1] \in Nat BY <1>15, <4>2
      <4> QED BY <1>12, <1>16, <4>1, <4>3
    <3>7. p[Len(bs) + 1] - q[Len(bs) + 1] > Margin
      BY <1>12, <1>13, <2>13, <2>15, <2>16, <3>3, <3>4, <3>5, <3>6, MovedFar
    <3>8. x.content = p[Len(bs) + 1] + Dots /\ e.content = q[Len(bs) + 1] + Dots
      BY <1>10, <1>11, <1>13, <2>12, <2>14, <2>15
    <3>9. p[Len(bs) + 1] \in Nat /\ q[Len(bs) + 1] \in Nat
      <4>1. Len(bs) + 1 \in 1 .. Len(bs) + 1 /\ Len(s) + 1 \in 1 .. Len(s) + 1
        BY <1>14, <2>13
      <4> QED BY <1>15, <2>13, <2>15, <4>1 DEF IsTops
    <3>10. x.content - e.content > Margin BY <1>16, <1>17, <3>7, <3>8, <3>9
    <3> QED BY <1>5, <3>10
  <2> QED BY <2>17, <2>18
<1> QED BY <1>19, <1>20

-----------------------------------------------------------------------------
(* Theorems.                                                               *)

\* However blocks come, change and fold and the window is resized, hidden and
\* scrolled: every block with a width was measured for it as it is now, and a
\* layout that is not dirty stacks the blocks.
THEOREM SoundCorrect == Spec => []Sound
BY InitSound, NextSound, PTL DEF Spec

\* No block counts as measured for the layout's width with a height or lines
\* of an earlier text, width or fold.
THEOREM NothingStaleCorrect == Spec => []NothingStale
<1>1. Sound => NothingStale
  <2> SUFFICES ASSUME Sound, NEW i \in DOMAIN d.blocks, d.width > 0,
                      d.blocks[i].w = ContentWidthFor(d.width)
               PROVE  /\ d.blocks[i].h = RealHeight(d.blocks[i], d.blocks[i].w)
                      /\ d.blocks[i].lines = <<d.blocks[i].w, d.blocks[i].len, d.blocks[i].open>>
    BY DEF NothingStale
  <2>1. d.width \in Width BY DEF Sound, Fine, DocType, Width
  <2>2. d.blocks[i].w # 0 BY <2>1, ContentWidth DEF Width
  <2>3. Current(d.blocks[i]) BY DEF Sound, Fine
  <2> QED BY <2>2, <2>3 DEF Current
<1> QED BY <1>1, SoundCorrect, PTL

\* Unless a layout is due the blocks are stacked without gaps or overlaps, and
\* the canvas scrolls over all of them and the dots.
THEOREM StackedCorrect == Spec => []Stacked
<1>1. Sound => Stacked BY DEF Sound, Fine, Fits, Stacked
<1> QED BY <1>1, SoundCorrect, PTL

\* What a paint draws, at the place the view had, is measured: unless the
\* blocks it measured are together smaller than estimated by more than the
\* margin, a block drawn was near the view before, and so was measured.
THEOREM PaintsMeasuredCorrect == Spec => PaintsMeasured
<1>1. Sound /\ [Next]_vars =>
        [OnPaint => \/ Relaid(d).content - d'.content > Margin
                    \/ \A i \in Rendered : d'.blocks[i].w = ContentWidthFor(d'.width)]_vars
  BY PaintedMeasured
<1> QED BY <1>1, SoundCorrect, PTL DEF Spec, PaintsMeasured
=============================================================================
