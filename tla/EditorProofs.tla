---------------------------- MODULE EditorProofs ----------------------------
(***************************************************************************)
(* What the editor pane promises, proved for every number of files and of  *)
(* dialogs open on top of one another: unsaved text is only given up by an *)
(* answer or a save, a change on disk is noticed, and nobody is asked      *)
(* about one change twice at once.                                         *)
(*                                                                         *)
(* The last two need an invariant. A question about a change may wait      *)
(* below other dialogs, but only below those of switching the folder:      *)
(* these leave the editor empty or as it was, so no edits can reappear     *)
(* that the question below has not already suppressed (Once, Prompted).    *)
(* A change is noticed because whatever makes a stamp differ starts the    *)
(* refresh timer too, and what stops the timer, with no dialog open, asks  *)
(* or reloads (Seen); a file being read is stamped before anything else.   *)
(***************************************************************************)
EXTENDS Editor, FiniteSetTheorems, TLAPS

FrameType == [op : Dialogs \cup {"read", "cut", "stamp"}, k : Continuations,
              f : Files \cup {None}, to : Files \cup {None}]

EdType == [path : Files \cup {None}, text : Body \ {"gone", "bin"}, dirty : BOOLEAN,
           editable : BOOLEAN, suppress : BOOLEAN, asked : BOOLEAN,
           stale : {"none", "same", "differs"}]

\* Only the folder is switched from within a dialog.
Above(s) == \A i \in DOMAIN s : i + 1 \in DOMAIN s => s[i].k \in {"folder", "none"}

Asks(s) == \E i \in DOMAIN s : s[i].op = "changed"

Once(s) == \A i, j \in DOMAIN s : s[i].op = "changed" /\ s[j].op = "changed" => i = j

\* No second question can come on top of one.
Prompted(e, s) == Asks(s) => e.suppress \/ ~e.dirty

\* The flags of the editor agree.
Flags(e) == (e.suppress => e.asked) /\ (~e.editable => e.text = "stub")

\* The open file has changed since its stamp, and would be shown.
Outdated(e, dsk) ==
  /\ e.path \in Root /\ e.editable /\ e.text # "stub"
  /\ dsk[e.path] # "gone" /\ e.stale = "differs"

Seen(e, s, dsk, h, u) ==
  h /\ u = "no" /\ Outdated(e, dsk) =>
    (e.dirty /\ e.asked) \/ (s # <<>> /\ Head(s).op = "read")

Fits(e, s, dsk, h, u) ==
  Above(s) /\ Once(s) /\ Prompted(e, s) /\ Flags(e) /\ Seen(e, s, dsk, h, u)

Sound == TypeOK /\ Fits(ed, stack, disk, here, due)

-----------------------------------------------------------------------------
(* Stacks and editors.                                                     *)

LEMMA Types ==
  TypeOK <=> /\ disk \in [Files -> Body] /\ ed \in EdType /\ stack \in Seq(FrameType)
             /\ here \in BOOLEAN /\ expanded \in BOOLEAN /\ due \in {"no", "soon", "later"}
             /\ writing \in Files \cup {None} /\ closed \in BOOLEAN
BY DEF TypeOK, EdType, FrameType

\* x is put on top of s.
LEMMA Pushed ==
  ASSUME NEW s \in Seq(FrameType), NEW x \in FrameType
  PROVE  /\ <<x>> \o s \in Seq(FrameType) /\ <<x>> \o s # <<>> /\ Head(<<x>> \o s) = x
         /\ Above(s) /\ (s = <<>> \/ x.k \in {"folder", "none"}) => Above(<<x>> \o s)
         /\ Once(s) /\ (x.op # "changed" \/ ~Asks(s)) => Once(<<x>> \o s)
         /\ Asks(<<x>> \o s) <=> x.op = "changed" \/ Asks(s)
<1>1. PICK t : t = <<x>> \o s OBVIOUS
<1>2. /\ t \in Seq(FrameType) /\ Len(t) = Len(s) + 1 /\ Len(s) \in Nat /\ t[1] = x
      /\ DOMAIN t = 1 .. Len(s) + 1 /\ DOMAIN s = 1 .. Len(s)
      /\ \A i \in DOMAIN s : i + 1 \in DOMAIN t /\ t[i + 1] = s[i]
      /\ \A i \in DOMAIN t : i # 1 => i - 1 \in DOMAIN s /\ t[i] = s[i - 1]
  BY <1>1
<1>3. t # <<>> /\ Head(t) = x BY <1>2
<1>4. ASSUME Above(s), s = <<>> \/ x.k \in {"folder", "none"} PROVE Above(t)
  <2> SUFFICES ASSUME NEW i \in DOMAIN t, i + 1 \in DOMAIN t
               PROVE  t[i].k \in {"folder", "none"}
    BY DEF Above
  <2>1. CASE i = 1
    <3>1. s # <<>> BY <1>2, <2>1
    <3> QED BY <1>2, <1>4, <2>1, <3>1
  <2>2. CASE i # 1
    <3>1. i - 1 \in DOMAIN s /\ t[i] = s[i - 1] /\ (i - 1) + 1 \in DOMAIN s BY <1>2, <2>2
    <3> QED BY <1>4, <3>1 DEF Above
  <2> QED BY <2>1, <2>2
<1>5. Asks(t) <=> x.op = "changed" \/ Asks(s)
  <2>1. ASSUME NEW i \in DOMAIN t, t[i].op = "changed" PROVE x.op = "changed" \/ Asks(s)
    <3>1. CASE i = 1 BY <1>2, <2>1, <3>1
    <3>2. CASE i # 1 BY <1>2, <2>1, <3>2 DEF Asks
    <3> QED BY <3>1, <3>2
  <2>2. ASSUME x.op = "changed" PROVE Asks(t)
    <3>1. 1 \in DOMAIN t BY <1>2
    <3> QED BY <1>2, <2>2, <3>1 DEF Asks
  <2>3. ASSUME NEW i \in DOMAIN s, s[i].op = "changed" PROVE Asks(t)
    BY <1>2, <2>3 DEF Asks
  <2> QED BY <2>1, <2>2, <2>3 DEF Asks
<1>6. ASSUME Once(s), x.op # "changed" \/ ~Asks(s) PROVE Once(t)
  <2> SUFFICES ASSUME NEW i \in DOMAIN t, NEW j \in DOMAIN t,
                      t[i].op = "changed", t[j].op = "changed"
               PROVE  i = j
    BY DEF Once
  <2>1. CASE i = 1 /\ j = 1 BY <2>1
  <2>2. CASE i = 1 /\ j # 1 BY <1>2, <1>6, <2>2 DEF Asks
  <2>3. CASE i # 1 /\ j = 1 BY <1>2, <1>6, <2>3 DEF Asks
  <2>4. CASE i # 1 /\ j # 1
    <3>1. i - 1 = j - 1 BY <1>2, <1>6, <2>4 DEF Once
    <3> QED BY <1>2, <3>1
  <2> QED BY <2>1, <2>2, <2>3, <2>4
<1> QED BY <1>1, <1>2, <1>3, <1>4, <1>5, <1>6

\* The top of s is taken off.
LEMMA Popped ==
  ASSUME NEW s \in Seq(FrameType), s # <<>>
  PROVE  /\ Head(s) \in FrameType /\ Tail(s) \in Seq(FrameType)
         /\ Above(s) => Above(Tail(s)) /\ (Tail(s) = <<>> \/ Head(s).k \in {"folder", "none"})
         /\ Once(s) => Once(Tail(s)) /\ (Head(s).op # "changed" \/ ~Asks(Tail(s)))
         /\ Asks(Tail(s)) => Asks(s)
         /\ Head(s).op = "changed" => Asks(s)
<1>1. PICK t : t = Tail(s) OBVIOUS
<1>2. /\ t \in Seq(FrameType) /\ Len(t) = Len(s) - 1 /\ Len(t) \in Nat /\ Head(s) = s[1]
      /\ DOMAIN t = 1 .. Len(t) /\ DOMAIN s = 1 .. Len(t) + 1
      /\ \A i \in DOMAIN t : i + 1 \in DOMAIN s /\ t[i] = s[i + 1]
  BY <1>1
<1>3. 1 \in DOMAIN s /\ s[1] \in FrameType BY <1>2
<1>4. ASSUME Above(s) PROVE Above(t) /\ (t = <<>> \/ Head(s).k \in {"folder", "none"})
  <2>1. ASSUME NEW i \in DOMAIN t, i + 1 \in DOMAIN t PROVE t[i].k \in {"folder", "none"}
    <3>1. i + 1 \in DOMAIN s /\ (i + 1) + 1 \in DOMAIN s BY <1>2, <2>1
    <3> QED BY <1>2, <1>4, <3>1 DEF Above
  <2>2. ASSUME t # <<>> PROVE s[1].k \in {"folder", "none"}
    <3>1. 1 + 1 \in DOMAIN s BY <1>2, <2>2
    <3> QED BY <1>3, <1>4, <3>1 DEF Above
  <2> QED BY <1>2, <2>1, <2>2 DEF Above
<1>5. ASSUME Once(s) PROVE Once(t) /\ (s[1].op # "changed" \/ ~Asks(t))
  <2>1. ASSUME NEW i \in DOMAIN t, NEW j \in DOMAIN t, t[i].op = "changed", t[j].op = "changed"
        PROVE  i = j
    <3>1. i + 1 = j + 1 BY <1>2, <1>5, <2>1 DEF Once
    <3> QED BY <1>2, <3>1
  <2>2. ASSUME s[1].op = "changed", NEW i \in DOMAIN t, t[i].op = "changed" PROVE FALSE
    <3>1. 1 = i + 1 BY <1>2, <1>3, <1>5, <2>2 DEF Once
    <3> QED BY <1>2, <3>1
  <2> QED BY <2>1, <2>2 DEF Once, Asks
<1>6. Asks(t) => Asks(s) BY <1>2 DEF Asks
<1>7. s[1].op = "changed" => Asks(s) BY <1>3 DEF Asks
<1> QED BY <1>1, <1>2, <1>3, <1>4, <1>5, <1>6, <1>7

\* No dialog, no question.
LEMMA Empty == Above(<<>>) /\ Once(<<>>) /\ ~Asks(<<>>)
BY DEF Above, Once, Asks

LEMMA Alone ==
  ASSUME NEW x \in FrameType, x.op # "changed"
  PROVE  /\ <<x>> \in Seq(FrameType) /\ Above(<<x>>) /\ Once(<<x>>) /\ ~Asks(<<x>>)
         /\ <<x>> # <<>> /\ Head(<<x>>) = x
<1>1. PICK s : s = <<>> OBVIOUS
<1>2. s \in Seq(FrameType) /\ <<x>> \o s = <<x>> BY <1>1
<1>3. Above(s) /\ Once(s) /\ ~Asks(s) BY <1>1, Empty
<1>4. PICK t : t = <<x>> \o s OBVIOUS
<1>5. /\ t \in Seq(FrameType) /\ t # <<>> /\ Head(t) = x /\ Above(t) /\ Once(t) /\ ~Asks(t)
  <2>1. /\ t \in Seq(FrameType) /\ t # <<>> /\ Head(t) = x
        /\ (Above(s) /\ (s = <<>> \/ x.k \in {"folder", "none"}) => Above(t))
        /\ (Once(s) /\ (x.op # "changed" \/ ~Asks(s)) => Once(t))
        /\ (Asks(t) <=> x.op = "changed" \/ Asks(s))
    BY <1>2, <1>4, Pushed
  <2> QED BY <1>1, <1>3, <2>1
<1>6. t = <<x>> BY <1>2, <1>4
<1> QED BY <1>5, <1>6

LEMMA FrameTyped ==
  ASSUME NEW op \in Dialogs \cup {"read", "cut", "stamp"}, NEW k \in Continuations,
         NEW f \in Files \cup {None}, NEW to \in Files \cup {None}
  PROVE  Frame(op, k, f, to) \in FrameType
BY DEF Frame, FrameType

LEMMA ClearedFits ==
  /\ Cleared \in EdType /\ Flags(Cleared) /\ ~Cleared.dirty
  /\ \A dsk : ~Outdated(Cleared, dsk)
BY EditorAssumption DEF Cleared, EdType, Flags, Outdated, Body, Files

LEMMA StampedFits ==
  ASSUME NEW e \in EdType
  PROVE  /\ Stamped(e) \in EdType /\ Stamped(e).stale # "differs"
         /\ Stamped(e).dirty = e.dirty /\ Stamped(e).suppress = e.suppress
         /\ Stamped(e).asked = e.asked /\ Stamped(e).editable = e.editable
         /\ Stamped(e).text = e.text /\ Stamped(e).path = e.path
BY DEF Stamped, EdType

LEMMA TouchedFits ==
  ASSUME NEW e \in EdType, NEW f
  PROVE  /\ Touched(e, f) \in EdType
         /\ Touched(e, f).dirty = e.dirty /\ Touched(e, f).suppress = e.suppress
         /\ Touched(e, f).asked = e.asked /\ Touched(e, f).editable = e.editable
         /\ Touched(e, f).text = e.text /\ Touched(e, f).path = e.path
         /\ e.path # f => Touched(e, f) = e
BY DEF Touched, EdType

\* Loading keeps the flags together, and shows nothing outdated except what
\* is being read.
LEMMA LoadedFits ==
  ASSUME NEW e \in EdType, Flags(e), NEW f \in Files \cup {None},
         NEW body \in Body
  PROVE  LET l == LoadedInto(e, f, body)
         IN  /\ l \in EdType /\ Flags(l) /\ (l.dirty => e.dirty)
             /\ f = None \/ body = "gone" =>
                  \A dsk : Outdated(l, dsk) => Outdated(e, dsk) /\ l.dirty = e.dirty
                                                                /\ l.asked = e.asked
             /\ f # None /\ body = "bin" => \A dsk : ~Outdated(l, dsk)
<1>1. PICK a : a = [e EXCEPT !.editable = TRUE, !.suppress = FALSE] OBVIOUS
<1>2. /\ a \in EdType /\ a.path = e.path /\ a.text = e.text /\ a.dirty = e.dirty
      /\ a.editable = TRUE /\ a.suppress = FALSE /\ a.asked = e.asked /\ a.stale = e.stale
  BY <1>1 DEF EdType
<1>3. PICK s : s = [a EXCEPT !.path = f, !.dirty = FALSE, !.asked = FALSE] OBVIOUS
<1>4. /\ s \in EdType /\ s.path = f /\ s.text = e.text /\ s.dirty = FALSE
      /\ s.editable = TRUE /\ s.suppress = FALSE /\ s.asked = FALSE /\ s.stale = e.stale
  BY <1>2, <1>3 DEF EdType
<1>5. PICK l : l = LoadedInto(e, f, body) OBVIOUS
<1>6. CASE f = None \/ body = "gone"
  <2>1. l = a BY <1>1, <1>5, <1>6 DEF LoadedInto
  <2>2. Flags(l) BY <1>2, <2>1 DEF Flags
  <2>3. ASSUME NEW dsk, Outdated(l, dsk)
        PROVE  Outdated(e, dsk) /\ l.dirty = e.dirty /\ l.asked = e.asked
    <3>1. e.editable BY <1>2, <2>1, <2>3 DEF Flags, Outdated
    <3> QED BY <1>2, <2>1, <2>3, <3>1 DEF Outdated
  <2>4. f # None /\ body = "bin" => FALSE BY <1>6
  <2> QED BY <1>2, <1>5, <2>1, <2>2, <2>3, <2>4
<1>7. CASE f # None /\ body = "bin"
  <2>1. l = [s EXCEPT !.text = "stub", !.editable = FALSE,
                      !.stale = IF @ = "none" THEN "none" ELSE "differs"]
    BY <1>1, <1>3, <1>5, <1>7 DEF LoadedInto
  <2>2. l \in EdType /\ l.text = "stub" /\ l.suppress = FALSE /\ l.dirty = FALSE
    BY <1>4, <2>1 DEF EdType, Body
  <2> QED BY <1>5, <1>7, <2>2 DEF Flags, Outdated
<1>8. CASE f # None /\ body \notin {"gone", "bin"}
  <2>1. l = [s EXCEPT !.text = body] BY <1>1, <1>3, <1>5, <1>8 DEF LoadedInto
  <2>2. l \in EdType /\ l.suppress = FALSE /\ l.dirty = FALSE /\ l.editable = TRUE
    BY <1>4, <1>8, <2>1 DEF EdType
  <2> QED BY <1>5, <1>8, <2>2 DEF Flags
<1> QED BY <1>6, <1>7, <1>8

-----------------------------------------------------------------------------
(* What the handlers are made of.                                          *)

\* Return and Resume leave these variables with their types.
Shaped ==
  /\ ed' \in EdType /\ stack' \in Seq(FrameType)
  /\ here' \in BOOLEAN /\ expanded' \in BOOLEAN /\ closed' \in BOOLEAN

LEMMA Returned ==
  ASSUME NEW e, NEW rest, Return(e, rest)
  PROVE  ed' = e /\ stack' = rest /\ here' = here /\ expanded' = expanded /\ closed' = FALSE
BY DEF Return, Resume

\* A handler goes on after its questions: with a file, the folder, or nothing.
LEMMA Resuming ==
  ASSUME TypeOK, NEW k \in Continuations, NEW f \in Files \cup {None}, NEW e \in EdType,
         NEW rest \in Seq(FrameType), Resume(k, f, e, rest), UNCHANGED disk,
         Above(rest), Once(rest), Prompted(e, rest), Flags(e),
         k \in {"select", "reload"} => ~Asks(rest) \/ ~e.dirty,
         \/ k \in {"close", "folder"}
         \/ k = "reload" /\ e.path # None /\ disk[e.path] # "gone"
         \/ Seen(e, rest, disk, here, due')
  PROVE  Shaped /\ Fits(ed', stack', disk', here', due')
<1>1. /\ here' = IF k = "folder" THEN ~here ELSE here
      /\ expanded' = IF k = "folder" THEN FALSE ELSE expanded
      /\ closed' = (k = "quit")
  BY DEF Resume
<1>2. here' \in BOOLEAN /\ expanded' \in BOOLEAN /\ closed' \in BOOLEAN
  BY <1>1, Types
<1>3. disk' = disk /\ disk \in [Files -> Body] BY Types
<1>4. CASE k \in {"select", "reload"}
  <2>1. PICK g \in Files \cup {None} : Load(e, g, rest) /\ (k = "reload" => g = e.path)
    <3>1. CASE k = "select" BY <3>1 DEF Resume
    <3>2. CASE k = "reload"
      <4>1. Load(e, e.path, rest) BY <3>2 DEF Resume
      <4>2. e.path \in Files \cup {None} BY DEF EdType
      <4> QED BY <4>1, <4>2
    <3> QED BY <1>4, <3>1, <3>2
  <2>2. PICK body : body = IF g = None THEN "gone" ELSE disk[g] OBVIOUS
  <2>3. body \in Body BY <1>3, <2>2 DEF Body
  <2>4. PICK l : l = LoadedInto(e, g, body) OBVIOUS
  <2>5. /\ l \in EdType /\ Flags(l) /\ (l.dirty => e.dirty)
        /\ g = None \/ body = "gone" =>
             \A dsk : Outdated(l, dsk) => Outdated(e, dsk) /\ l.dirty = e.dirty
                                                           /\ l.asked = e.asked
        /\ g # None /\ body = "bin" => \A dsk : ~Outdated(l, dsk)
    BY <2>3, <2>4, LoadedFits
  <2>6. ed' = l BY <2>1, <2>2, <2>4 DEF Load
  <2>7. here' = here BY <1>1, <1>4
  <2>8. ASSUME Asks(stack') <=> Asks(rest) PROVE Prompted(l, stack')
    <3>1. ~Asks(rest) \/ ~l.dirty BY <1>4, <2>5
    <3> QED BY <2>8, <3>1 DEF Prompted
  <2>9. CASE Opens(g)
    <3>1. PICK x : x = Frame("read", "none", None, g) OBVIOUS
    <3>2. x \in FrameType BY <3>1, FrameTyped DEF Continuations
    <3>3. x.op = "read" /\ x.k = "none" BY <3>1 DEF Frame
    <3>4. stack' = <<x>> \o rest BY <2>1, <2>9, <3>1 DEF Load
    <3>5. /\ stack' \in Seq(FrameType) /\ stack' # <<>> /\ Head(stack').op = "read"
          /\ Above(stack') /\ Once(stack') /\ (Asks(stack') <=> Asks(rest))
      BY <3>2, <3>3, <3>4, Pushed
    <3>6. Seen(l, stack', disk', here', due') BY <3>5 DEF Seen
    <3> QED BY <1>2, <2>5, <2>6, <2>8, <3>5, <3>6 DEF Shaped, Fits
  <2>10. CASE ~Opens(g)
    <3>1. stack' = rest BY <2>1, <2>10 DEF Load
    <3>2. Prompted(l, stack') BY <2>8, <3>1
    <3>3. Seen(l, stack', disk', here', due')
      <4>1. CASE g # None /\ body = "bin" BY <2>5, <4>1 DEF Seen
      <4>2. CASE g = None \/ body = "gone"
        <5>1. Seen(e, rest, disk, here, due') BY <1>4, <2>1, <2>2, <4>2
        <5> QED BY <1>3, <2>5, <2>7, <3>1, <4>2, <5>1 DEF Seen
      <4> QED BY <2>2, <2>10, <4>1, <4>2 DEF Opens
    <3> QED BY <1>2, <2>5, <2>6, <3>1, <3>2, <3>3 DEF Shaped, Fits
  <2> QED BY <2>9, <2>10
<1>5. CASE k \in {"close", "folder"}
  <2>1. ed' = Cleared /\ stack' = rest BY <1>5 DEF Resume
  <2> QED BY <1>2, <2>1, ClearedFits DEF Shaped, Fits, Prompted, Seen
<1>6. CASE k \in {"none", "quit"}
  <2>1. ed' = e /\ stack' = rest BY <1>6 DEF Resume
  <2>2. here' = here BY <1>1, <1>6
  <2>3. Seen(e, rest, disk, here, due') BY <1>6
  <2> QED BY <1>2, <1>3, <2>1, <2>2, <2>3 DEF Shaped, Fits
<1> QED BY <1>4, <1>5, <1>6 DEF Continuations

\* The whole state, once a handler has left these.
LEMMA Whole ==
  ASSUME Shaped, Fits(ed', stack', disk', here', due'),
         disk' \in [Files -> Body], due' \in {"no", "soon", "later"},
         writing' \in Files \cup {None}
  PROVE  Sound'
BY DEF Shaped, Sound, TypeOK, EdType, FrameType

\* What is seen stays seen when a dialog comes or goes.
LEMMA StillSeen ==
  ASSUME NEW s, NEW t, NEW e, NEW dsk, NEW h, NEW u, Seen(e, s, dsk, h, u),
         s = <<>> \/ Head(s).op # "read" \/ t = s
  PROVE  Seen(e, t, dsk, h, u)
BY DEF Seen

\* A write to an open file of a watched directory starts the timer.
LEMMA Writing ==
  ASSUME TypeOK, NEW g \in Files \cup {None}, NEW b, NEW s, NEW e,
         Seen(ed, s, disk, here, due), e \in {ed, Touched(ed, g)}
  PROVE  Seen(e, s, [disk EXCEPT ![g] = b], here, Noted(g))
<1>1. ed \in EdType /\ disk \in [Files -> Body] BY Types
<1>2. /\ e.dirty = ed.dirty /\ e.asked = ed.asked /\ e.editable = ed.editable
      /\ e.text = ed.text /\ e.path = ed.path /\ (ed.path # g => e = ed)
  BY <1>1, TouchedFits
<1>3. PICK dsk : dsk = [disk EXCEPT ![g] = b] OBVIOUS
<1>4. PICK u : u = Noted(g) OBVIOUS
<1> SUFFICES ASSUME here, u = "no", Outdated(e, dsk)
             PROVE  (e.dirty /\ e.asked) \/ (s # <<>> /\ Head(s).op = "read")
  BY <1>3, <1>4 DEF Seen
<1>5. e.path \in Root BY DEF Outdated
<1>6. e.path # g BY <1>4, <1>5 DEF Noted
<1>7. e = ed /\ due = "no" BY <1>2, <1>4, <1>6 DEF Noted
<1>8. dsk[ed.path] = disk[ed.path] BY <1>1, <1>3, <1>5, <1>6, <1>7 DEF Files
<1>9. Outdated(ed, disk) BY <1>7, <1>8 DEF Outdated
<1> QED BY <1>7, <1>9 DEF Seen

\* The check leaves nothing to be seen, whether or not the timer still runs.
LEMMA Checking ==
  ASSUME Sound, Check, UNCHANGED disk
  PROVE  Shaped /\ Fits(ed', stack', disk', here', due')
<1>1. /\ TypeOK /\ Above(stack) /\ Once(stack) /\ Prompted(ed, stack) /\ Flags(ed)
  BY DEF Sound, Fits
<1>2. ed \in EdType /\ stack \in Seq(FrameType) /\ here \in BOOLEAN /\ expanded \in BOOLEAN
  BY <1>1, Types
<1> DEFINE changed == /\ ed.path # None /\ ed.editable
                      /\ disk[ed.path] # "gone" /\ ed.stale = "differs"
<1>3. CASE ~changed \/ (ed.dirty /\ ed.suppress)
  <2>1. Return(ed, stack) BY <1>3 DEF Check
  <2>2. ed' = ed /\ stack' = stack /\ here' = here /\ expanded' = expanded /\ closed' = FALSE
    BY <2>1, Returned
  <2>3. ASSUME Outdated(ed, disk) PROVE ed.dirty /\ ed.asked
    <3>1. changed BY <2>3, EditorAssumption DEF Outdated, Files
    <3>2. ed.dirty /\ ed.suppress BY <1>3, <3>1
    <3> QED BY <1>1, <3>2 DEF Flags
  <2>4. Seen(ed, stack, disk, here, due') BY <2>3 DEF Seen
  <2> QED BY <1>1, <1>2, <2>2, <2>4 DEF Shaped, Fits
<1>4. CASE changed /\ ed.dirty /\ ~ed.suppress
  <2>1. PICK x : x = Frame("changed", "none", None, None) OBVIOUS
  <2>2. x \in FrameType BY <2>1, FrameTyped DEF Continuations, Dialogs
  <2>3. x.op = "changed" /\ x.k = "none" BY <2>1 DEF Frame
  <2>4. PICK e : e = [ed EXCEPT !.suppress = TRUE, !.asked = TRUE] OBVIOUS
  <2>5. e \in EdType /\ e.dirty = ed.dirty /\ e.suppress = TRUE /\ e.asked = TRUE
        /\ e.editable = ed.editable /\ e.text = ed.text
    BY <1>2, <2>4 DEF EdType
  <2>6. Return(e, <<x>> \o stack) BY <1>4, <2>1, <2>4 DEF Check
  <2>7. /\ ed' = e /\ stack' = <<x>> \o stack
        /\ here' = here /\ expanded' = expanded /\ closed' = FALSE
    BY <2>6, Returned
  <2>8. ~Asks(stack) BY <1>1, <1>4 DEF Prompted
  <2>9. stack' \in Seq(FrameType) /\ Above(stack') /\ Once(stack')
    BY <1>1, <1>2, <2>2, <2>3, <2>7, <2>8, Pushed
  <2>10. Flags(e) /\ Prompted(e, stack') BY <1>1, <2>5 DEF Flags, Prompted
  <2>11. Seen(e, stack', disk', here', due') BY <1>4, <2>5 DEF Seen
  <2> QED BY <1>2, <2>5, <2>7, <2>9, <2>10, <2>11 DEF Shaped, Fits
<1>5. CASE changed /\ ~ed.dirty
  <2>1. Resume("reload", None, ed, stack) BY <1>5 DEF Check
  <2>2. "reload" \in Continuations BY DEF Continuations
  <2> QED BY <1>1, <1>2, <1>5, <2>1, <2>2, Resuming
<1>6. ed.dirty \in BOOLEAN BY <1>2 DEF EdType
<1> QED BY <1>3, <1>4, <1>5, <1>6

\* Asked or not, what follows a question is sound.
LEMMA MaybeSaving ==
  ASSUME Sound, NEW k \in {"select", "reload", "close", "folder", "quit"},
         NEW f \in Files \cup {None}, MaybeSave(k, f), UNCHANGED <<disk, due>>,
         stack = <<>> \/ (k = "folder" /\ Head(stack).op # "read")
  PROVE  Shaped /\ Fits(ed', stack', disk', here', due')
<1>1. /\ TypeOK /\ Above(stack) /\ Once(stack) /\ Prompted(ed, stack) /\ Flags(ed)
      /\ Seen(ed, stack, disk, here, due)
  BY DEF Sound, Fits
<1>2. ed \in EdType /\ stack \in Seq(FrameType) /\ here \in BOOLEAN /\ expanded \in BOOLEAN
  BY <1>1, Types
<1>3. k \in Continuations BY DEF Continuations
<1>4. CASE ed.dirty
  <2>1. PICK x : x = Frame("ask", k, f, None) OBVIOUS
  <2>2. x \in FrameType BY <1>3, <2>1, FrameTyped DEF Dialogs
  <2>3. x.op = "ask" /\ x.k = k BY <2>1 DEF Frame
  <2>4. Return(ed, <<x>> \o stack) BY <1>4, <2>1 DEF MaybeSave
  <2>5. /\ ed' = ed /\ stack' = <<x>> \o stack
        /\ here' = here /\ expanded' = expanded /\ closed' = FALSE
    BY <2>4, Returned
  <2>6. /\ stack' \in Seq(FrameType) /\ Above(stack') /\ Once(stack')
        /\ (Asks(stack') <=> Asks(stack))
    BY <1>1, <1>2, <2>2, <2>3, <2>5, Pushed
  <2>7. Prompted(ed, stack') BY <1>1, <2>6 DEF Prompted
  <2>8. Seen(ed, stack', disk, here, due) BY <1>1, StillSeen
  <2> QED BY <1>1, <1>2, <2>5, <2>6, <2>7, <2>8 DEF Shaped, Fits
<1>5. CASE ~ed.dirty
  <2>1. Resume(k, f, ed, stack) BY <1>5 DEF MaybeSave
  <2>2. Seen(ed, stack, disk, here, due') BY <1>1
  <2> QED BY <1>1, <1>2, <1>3, <1>5, <2>1, <2>2, Resuming
<1> QED BY <1>4, <1>5

\* What a save is asked on top of.
Under(k, rest) ==
  /\ rest \in Seq(FrameType) /\ Above(rest) /\ Once(rest) /\ Prompted(ed, rest)
  /\ rest = <<>> \/ k \in {"folder", "none"}

LEMMA BeginningWrite ==
  ASSUME TypeOK, Flags(ed), Seen(ed, <<>>, disk, here, due),
         NEW k \in Continuations, NEW f \in Files \cup {None}, NEW to \in Files \cup {None},
         NEW rest, Under(k, rest), BeginWrite(k, f, to, rest)
  PROVE  /\ Shaped /\ Fits(ed', stack', disk', here', due')
         /\ disk' \in [Files -> Body] /\ due' \in {"no", "soon", "later"}
<1>1. /\ disk \in [Files -> Body] /\ ed \in EdType /\ due \in {"no", "soon", "later"}
      /\ here \in BOOLEAN /\ expanded \in BOOLEAN
  BY Types
<1>2. CASE Return(ed, rest) /\ UNCHANGED <<disk, due>>
  <2>1. ed' = ed /\ stack' = rest /\ here' = here /\ expanded' = expanded /\ closed' = FALSE
    BY <1>2, Returned
  <2>2. Seen(ed, rest, disk, here, due) BY StillSeen
  <2> QED BY <1>1, <1>2, <2>1, <2>2 DEF Shaped, Fits, Under
<1>3. CASE /\ disk' = [disk EXCEPT ![to] = "empty"]
           /\ due' = Noted(to)
           /\ Return(Touched(ed, to), <<Frame("cut", k, f, to)>> \o rest)
  <2>1. PICK x, e : x = Frame("cut", k, f, to) /\ e = Touched(ed, to) OBVIOUS
  <2>2. x \in FrameType BY <2>1, FrameTyped
  <2>3. x.op = "cut" /\ x.k = k BY <2>1 DEF Frame
  <2>4. /\ ed' = e /\ stack' = <<x>> \o rest
        /\ here' = here /\ expanded' = expanded /\ closed' = FALSE
    BY <1>3, <2>1, Returned
  <2>5. /\ stack' \in Seq(FrameType) /\ Above(stack') /\ Once(stack')
        /\ (Asks(stack') <=> Asks(rest))
    BY <2>2, <2>3, <2>4, Pushed DEF Under
  <2>6. /\ e \in EdType /\ e.dirty = ed.dirty /\ e.suppress = ed.suppress /\ e.asked = ed.asked
        /\ e.editable = ed.editable /\ e.text = ed.text
    BY <1>1, <2>1, TouchedFits
  <2>7. Prompted(e, stack') /\ Flags(e) BY <2>5, <2>6 DEF Under, Prompted, Flags
  <2>8. Seen(ed, stack', disk, here, due) BY StillSeen
  <2>9. Seen(e, stack', disk', here', due') BY <1>3, <2>1, <2>4, <2>8, Writing
  <2>10. disk' \in [Files -> Body] BY <1>1, <1>3 DEF Body
  <2>11. due' \in {"no", "soon", "later"} BY <1>1, <1>3 DEF Noted
  <2> QED BY <1>1, <2>4, <2>5, <2>6, <2>7, <2>9, <2>10, <2>11 DEF Shaped, Fits
<1> QED BY <1>2, <1>3 DEF BeginWrite

LEMMA Saving ==
  ASSUME TypeOK, Flags(ed), Seen(ed, <<>>, disk, here, due),
         NEW k \in Continuations, NEW f \in Files \cup {None},
         NEW rest, Under(k, rest), Save(k, f, rest)
  PROVE  /\ Shaped /\ Fits(ed', stack', disk', here', due')
         /\ disk' \in [Files -> Body] /\ due' \in {"no", "soon", "later"}
<1>1. /\ disk \in [Files -> Body] /\ ed \in EdType /\ due \in {"no", "soon", "later"}
      /\ here \in BOOLEAN /\ expanded \in BOOLEAN
  BY Types
<1>2. CASE ~ed.editable
  <2>1. BeginWrite(k, f, None, rest) BY <1>2 DEF Save, BeginWrite
  <2> QED BY <2>1, BeginningWrite
<1>3. CASE ed.editable /\ ed.path = None
  <2>1. PICK x : x = Frame("as", k, f, None) OBVIOUS
  <2>2. x \in FrameType BY <2>1, FrameTyped DEF Dialogs
  <2>3. x.op = "as" /\ x.k = k BY <2>1 DEF Frame
  <2>4. Return(ed, <<x>> \o rest) /\ UNCHANGED <<disk, due>> BY <1>3, <2>1 DEF Save
  <2>5. /\ ed' = ed /\ stack' = <<x>> \o rest
        /\ here' = here /\ expanded' = expanded /\ closed' = FALSE
    BY <2>4, Returned
  <2>6. /\ stack' \in Seq(FrameType) /\ Above(stack') /\ Once(stack')
        /\ (Asks(stack') <=> Asks(rest))
    BY <2>2, <2>3, <2>5, Pushed DEF Under
  <2>7. Prompted(ed, stack') BY <2>6 DEF Under, Prompted
  <2>8. Seen(ed, stack', disk, here, due) BY StillSeen
  <2> QED BY <1>1, <2>4, <2>5, <2>6, <2>7, <2>8 DEF Shaped, Fits
<1>4. CASE ed.editable /\ ed.path # None
  <2>1. BeginWrite(k, f, ed.path, rest) /\ ed.path \in Files \cup {None}
    BY <1>1, <1>4 DEF Save, EdType
  <2> QED BY <2>1, BeginningWrite
<1> QED BY <1>2, <1>3, <1>4

\* An answer: the dialog is closed, and what was under it is sound.
LEMMA Closing ==
  ASSUME Sound, stack # <<>>
  PROVE  /\ Head(stack) \in FrameType /\ Under(Head(stack).k, Tail(stack))
         /\ Head(stack).op = "changed" => ~Asks(Tail(stack))
         /\ Head(stack).op # "read" => Seen(ed, <<>>, disk, here, due)
<1>1. stack \in Seq(FrameType) /\ Above(stack) /\ Once(stack) /\ Prompted(ed, stack)
      /\ Seen(ed, stack, disk, here, due)
  BY Types DEF Sound, Fits
<1>2. /\ Head(stack) \in FrameType /\ Tail(stack) \in Seq(FrameType) /\ Above(Tail(stack))
      /\ (Tail(stack) = <<>> \/ Head(stack).k \in {"folder", "none"})
      /\ Once(Tail(stack)) /\ (Head(stack).op # "changed" \/ ~Asks(Tail(stack)))
      /\ (Asks(Tail(stack)) => Asks(stack))
  BY <1>1, Popped
<1>3. Prompted(ed, Tail(stack)) BY <1>1, <1>2 DEF Prompted
<1>4. Head(stack).op # "read" => Seen(ed, <<>>, disk, here, due) BY <1>1, StillSeen
<1> QED BY <1>2, <1>3, <1>4 DEF Under

-----------------------------------------------------------------------------
(* Steps of the user.                                                      *)

\* Everything Sound says, by its parts.
LEMMA Parts ==
  ASSUME Sound
  PROVE  /\ TypeOK /\ Flags(ed) /\ Seen(ed, stack, disk, here, due)
         /\ Above(stack) /\ Once(stack) /\ Prompted(ed, stack)
         /\ disk \in [Files -> Body] /\ ed \in EdType /\ stack \in Seq(FrameType)
         /\ here \in BOOLEAN /\ expanded \in BOOLEAN /\ due \in {"no", "soon", "later"}
         /\ writing \in Files \cup {None} /\ closed \in BOOLEAN
BY Types DEF Sound, Fits

LEMMA TypeSound ==
  ASSUME Sound, Type
  PROVE  Sound'
<1>1. PICK e : e = [ed EXCEPT !.dirty = TRUE, !.text = IF @ = "stub" THEN "stub" ELSE "mine"]
  OBVIOUS
<1>2. /\ e \in EdType /\ e.dirty = TRUE /\ e.editable = TRUE /\ e.path = ed.path
      /\ e.asked = ed.asked /\ e.stale = ed.stale /\ e.suppress = ed.suppress
      /\ (e.text # "stub" => ed.text # "stub")
  BY <1>1, Parts DEF Type, EdType, Body
<1>3. ed' = e /\ stack = <<>> /\ stack' = <<>> /\ UNCHANGED <<disk, here, expanded, due, writing, closed>>
  BY <1>1 DEF Type, Idle
<1>4. Flags(e) BY <1>2, Parts DEF Flags
<1>5. Seen(e, <<>>, disk, here, due)
  <2>1. Outdated(e, disk) => Outdated(ed, disk) BY <1>2 DEF Outdated, Type
  <2> QED BY <1>2, <1>3, <2>1, Parts DEF Seen
<1>6. Fits(ed', stack', disk', here', due')
  BY <1>3, <1>4, <1>5, Empty DEF Fits, Prompted
<1>7. Shaped BY <1>2, <1>3, Parts DEF Shaped
<1> QED BY <1>3, <1>6, <1>7, Parts, Whole

\* A handler that may ask first, while no dialog is open.
LEMMA IdleAskSound ==
  ASSUME Sound, Idle, NEW k \in {"select", "reload", "close", "quit"},
         NEW f \in Files \cup {None}, MaybeSave(k, f), UNCHANGED <<disk, due, writing>>
  PROVE  Sound'
<1>1. stack = <<>> BY DEF Idle
<1>2. Shaped /\ Fits(ed', stack', disk', here', due') BY <1>1, MaybeSaving
<1> QED BY <1>2, Parts, Whole

LEMMA OnEditorSaveSound ==
  ASSUME Sound, OnEditorSave
  PROVE  Sound'
<1>1. stack = <<>> BY DEF OnEditorSave, Idle
<1>2. Save("none", None, <<>>) BY <1>1 DEF OnEditorSave
<1>3. Under("none", <<>>) BY Empty DEF Under, Prompted
<1>4. Seen(ed, <<>>, disk, here, due) BY <1>1, Parts
<1>5. "none" \in Continuations BY DEF Continuations
<1>6. /\ Shaped /\ Fits(ed', stack', disk', here', due')
      /\ disk' \in [Files -> Body] /\ due' \in {"no", "soon", "later"}
  BY <1>2, <1>3, <1>4, <1>5, Parts, Saving
<1> QED BY <1>6, Parts, Whole DEF OnEditorSave

LEMMA OnEditorSaveAsSound ==
  ASSUME Sound, OnEditorSaveAs
  PROVE  Sound'
<1>1. PICK x : x = Frame("as", "none", None, None) OBVIOUS
<1>2. x \in FrameType BY <1>1, FrameTyped DEF Continuations, Dialogs
<1>3. x.op = "as" BY <1>1 DEF Frame
<1>4. stack = <<>> /\ stack' = <<x>> /\ UNCHANGED <<disk, ed, here, expanded, due, writing, closed>>
  BY <1>1 DEF OnEditorSaveAs, Idle
<1>5. x.op # "changed" BY <1>3
<1>6. stack' \in Seq(FrameType) /\ Above(stack') /\ Once(stack') /\ ~Asks(stack')
  BY <1>2, <1>4, <1>5, Alone
<1>7. Seen(ed, stack', disk, here, due) BY <1>4, Parts, StillSeen
<1>8. Shaped BY <1>4, <1>6, Parts DEF Shaped
<1>9. Fits(ed', stack', disk', here', due') BY <1>4, <1>6, <1>7, Parts DEF Fits, Prompted
<1> QED BY <1>4, <1>8, <1>9, Parts, Whole

LEMMA OnTreeNewFileSound ==
  ASSUME Sound, NEW f \in Files, OnTreeNewFile(f)
  PROVE  Sound'
<1>1. /\ stack = <<>> /\ here /\ disk' = [disk EXCEPT ![f] = "empty"] /\ due' = Noted(f)
      /\ UNCHANGED <<here, expanded, writing, closed>>
  BY DEF OnTreeNewFile, Idle
<1>2. disk' \in [Files -> Body] /\ due' \in {"no", "soon", "later"}
  BY <1>1, Parts DEF Body, Noted
<1>3. Seen(ed, <<>>, disk', here', due') BY <1>1, Parts, Writing
<1>4. CASE ed' = ed /\ stack' = stack
  <2>1. Shaped BY <1>1, <1>4, Parts DEF Shaped
  <2>2. Fits(ed', stack', disk', here', due') BY <1>1, <1>3, <1>4, Parts DEF Fits
  <2> QED BY <1>1, <1>2, <2>1, <2>2, Parts, Whole
<1>5. CASE ed' = ed /\ stack' = <<Frame("ask", "select", f, None)>>
  <2>1. PICK x : x = Frame("ask", "select", f, None) OBVIOUS
  <2>2. x \in FrameType BY <2>1, FrameTyped DEF Continuations, Dialogs
  <2>3. x.op = "ask" BY <2>1 DEF Frame
  <2>4. stack' = <<x>> /\ x.op # "changed" BY <1>5, <2>1, <2>3
  <2>5. stack' \in Seq(FrameType) /\ Above(stack') /\ Once(stack') /\ ~Asks(stack')
    BY <2>2, <2>4, Alone
  <2>6. Seen(ed, stack', disk', here', due') BY <1>3, StillSeen
  <2>7. Shaped BY <1>1, <1>5, <2>5, Parts DEF Shaped
  <2>8. Fits(ed', stack', disk', here', due') BY <1>5, <2>5, <2>6, Parts DEF Fits, Prompted
  <2> QED BY <1>1, <1>2, <2>7, <2>8, Parts, Whole
<1>6. CASE ed' = LoadedInto(ed, f, "empty") /\ stack' = <<Frame("read", "none", None, f)>>
  <2>1. PICK x : x = Frame("read", "none", None, f) OBVIOUS
  <2>2. x \in FrameType BY <2>1, FrameTyped DEF Continuations, Dialogs
  <2>3. x.op = "read" BY <2>1 DEF Frame
  <2>4. stack' = <<x>> /\ x.op # "changed" BY <1>6, <2>1, <2>3
  <2>5. /\ stack' \in Seq(FrameType) /\ Above(stack') /\ Once(stack') /\ ~Asks(stack')
        /\ stack' # <<>> /\ Head(stack').op = "read"
    BY <2>2, <2>3, <2>4, Alone
  <2>6. Seen(ed', stack', disk', here', due') BY <2>5 DEF Seen
  <2>7. ed' \in EdType /\ Flags(ed')
    <3>1. "empty" \in Body BY DEF Body
    <3>2. PICK l : l = LoadedInto(ed, f, "empty") OBVIOUS
    <3>3. l \in EdType /\ Flags(l) BY <3>1, <3>2, Parts, LoadedFits
    <3> QED BY <1>6, <3>2, <3>3
  <2>8. Shaped BY <1>1, <2>5, <2>7, Parts DEF Shaped
  <2>9. Fits(ed', stack', disk', here', due') BY <2>5, <2>6, <2>7 DEF Fits, Prompted
  <2> QED BY <1>1, <1>2, <2>8, <2>9, Parts, Whole
<1> QED BY <1>4, <1>5, <1>6 DEF OnTreeNewFile

\* After a renaming the timer runs.
LEMMA OnTreeRenameSound ==
  ASSUME Sound, NEW f \in Files, NEW g \in Files, OnTreeRename(f, g)
  PROVE  Sound'
<1>1. PICK e : e = [ed EXCEPT !.path = IF @ = f THEN g ELSE @] OBVIOUS
<1>2. /\ e \in EdType /\ e.suppress = ed.suppress /\ e.dirty = ed.dirty /\ e.asked = ed.asked
      /\ e.editable = ed.editable /\ e.text = ed.text
  BY <1>1, Parts DEF EdType
<1>3. /\ ed' = e /\ due' = "soon" /\ UNCHANGED <<stack, here, expanded, closed>>
      /\ disk' \in [Files -> Body] /\ writing' \in Files \cup {None}
  BY <1>1, Parts DEF OnTreeRename, Body
<1>4. Seen(e, stack, disk', here, due') BY <1>3 DEF Seen
<1>5. Shaped BY <1>2, <1>3, Parts DEF Shaped
<1>6. Fits(ed', stack', disk', here', due')
  BY <1>2, <1>3, <1>4, Parts DEF Fits, Prompted, Flags
<1> QED BY <1>3, <1>5, <1>6, Whole

LEMMA OnTreeRenameDirSound ==
  ASSUME Sound, OnTreeRenameDir
  PROVE  Sound'
<1>1. /\ due' = "soon" /\ expanded' = FALSE /\ UNCHANGED <<ed, stack, here, closed>>
      /\ writing' \in Files \cup {None}
  BY Parts DEF OnTreeRenameDir
<1>2. disk' \in [Files -> Body] BY Parts DEF OnTreeRenameDir, Body
<1>3. Seen(ed, stack, disk', here, due') BY <1>1 DEF Seen
<1>4. Shaped BY <1>1, Parts DEF Shaped
<1>5. Fits(ed', stack', disk', here', due') BY <1>1, <1>3, Parts DEF Fits
<1> QED BY <1>1, <1>2, <1>4, <1>5, Whole

LEMMA UserSound ==
  ASSUME Sound, User
  PROVE  Sound'
<1>1. CASE Expand
  <2>1. /\ expanded' \in BOOLEAN /\ UNCHANGED <<disk, ed, stack, here, due, writing, closed>>
    BY <1>1, Parts DEF Expand
  <2>2. Shaped BY <2>1, Parts DEF Shaped
  <2>3. Fits(ed', stack', disk', here', due') BY <2>1, Parts DEF Fits
  <2> QED BY <2>1, <2>2, <2>3, Parts, Whole
<1>2. ASSUME NEW f \in Files, OnEditorTreeSelect(f) PROVE Sound'
  BY <1>2, IdleAskSound DEF OnEditorTreeSelect
<1>3. CASE ReloadEditorFile BY <1>3, IdleAskSound DEF ReloadEditorFile
<1>4. CASE CloseEditorFile BY <1>4, IdleAskSound DEF CloseEditorFile
<1>5. CASE OnClose BY <1>5, IdleAskSound DEF OnClose
<1> QED
  BY <1>1, <1>2, <1>3, <1>4, <1>5, TypeSound, OnEditorSaveSound, OnEditorSaveAsSound,
     OnTreeNewFileSound, OnTreeRenameSound, OnTreeRenameDirSound DEF User

-----------------------------------------------------------------------------
(* Answers.                                                                *)

LEMMA AnswerSound ==
  ASSUME Sound, Answer
  PROVE  Sound'
<1>1. stack # <<>> /\ Head(stack).op # "read" /\ UNCHANGED writing
  BY DEF Answer, AnswerSave, AnswerDontSave, AnswerCancel, AnswerReload, AnswerKeep,
         AnswerSaveAs, Asked
<1>2. PICK x, rest : x = Head(stack) /\ rest = Tail(stack) OBVIOUS
<1>3. /\ x \in FrameType /\ Under(x.k, rest) /\ (x.op = "changed" => ~Asks(rest))
      /\ Seen(ed, <<>>, disk, here, due)
  BY <1>1, <1>2, Closing
<1>4. x.k \in Continuations /\ x.f \in Files \cup {None} BY <1>3 DEF FrameType
<1>5. /\ rest \in Seq(FrameType) /\ Above(rest) /\ Once(rest) /\ Prompted(ed, rest)
      /\ (rest = <<>> \/ x.k \in {"folder", "none"})
  BY <1>3 DEF Under
<1>6. ~Asks(<<>>) BY Empty
<1>7. Seen(ed, rest, disk, here, due) BY <1>3, StillSeen
<1>8. CASE AnswerSave
  <2>1. Save(x.k, x.f, rest) BY <1>2, <1>8 DEF AnswerSave
  <2>2. /\ Shaped /\ Fits(ed', stack', disk', here', due')
        /\ disk' \in [Files -> Body] /\ due' \in {"no", "soon", "later"}
    BY <1>3, <1>4, <2>1, Parts, Saving
  <2> QED BY <1>1, <2>2, Parts, Whole
<1>9. CASE AnswerDontSave
  <2>1. Resume(x.k, x.f, ed, rest) /\ UNCHANGED <<disk, due>> BY <1>2, <1>9 DEF AnswerDontSave
  <2>2. x.k \in {"select", "reload"} => ~Asks(rest) \/ ~ed.dirty BY <1>5, <1>6
  <2>3. Seen(ed, rest, disk, here, due') BY <1>7, <2>1
  <2>4. Shaped /\ Fits(ed', stack', disk', here', due')
    BY <1>4, <1>5, <2>1, <2>2, <2>3, Parts, Resuming
  <2> QED BY <1>1, <2>1, <2>4, Parts, Whole
<1>10. ASSUME Return(ed, rest), UNCHANGED <<disk, due>> PROVE Sound'
  <2>1. ed' = ed /\ stack' = rest /\ here' = here /\ expanded' = expanded /\ closed' = FALSE
    BY <1>10, Returned
  <2>2. Shaped BY <1>5, <2>1, Parts DEF Shaped
  <2>3. Fits(ed', stack', disk', here', due') BY <1>5, <1>7, <1>10, <2>1, Parts DEF Fits
  <2> QED BY <1>1, <1>10, <2>2, <2>3, Parts, Whole
<1>11. CASE AnswerCancel BY <1>2, <1>10, <1>11 DEF AnswerCancel
<1>12. CASE AnswerReload
  <2>1. Resume("reload", None, ed, rest) /\ UNCHANGED <<disk, due>>
    BY <1>2, <1>12 DEF AnswerReload
  <2>2. ~Asks(rest) BY <1>2, <1>3, <1>12 DEF AnswerReload, Asked
  <2>3. Seen(ed, rest, disk, here, due') BY <1>7, <2>1
  <2>4. "reload" \in Continuations BY DEF Continuations
  <2>5. Shaped /\ Fits(ed', stack', disk', here', due')
    BY <1>5, <2>1, <2>2, <2>3, <2>4, Parts, Resuming
  <2> QED BY <1>1, <2>1, <2>5, Parts, Whole
<1>13. CASE AnswerKeep
  <2>1. PICK e : e = Stamped(ed) OBVIOUS
  <2>2. /\ e \in EdType /\ e.stale # "differs" /\ e.dirty = ed.dirty /\ e.suppress = ed.suppress
        /\ e.asked = ed.asked /\ e.editable = ed.editable /\ e.text = ed.text
    BY <2>1, Parts, StampedFits
  <2>3. Return(e, rest) /\ UNCHANGED <<disk, due>> BY <1>2, <1>13, <2>1 DEF AnswerKeep
  <2>4. ed' = e /\ stack' = rest /\ here' = here /\ expanded' = expanded /\ closed' = FALSE
    BY <2>3, Returned
  <2>5. Shaped BY <1>5, <2>2, <2>4, Parts DEF Shaped
  <2>6. Fits(ed', stack', disk', here', due')
    BY <1>5, <2>2, <2>4, Parts DEF Fits, Prompted, Flags, Seen, Outdated
  <2> QED BY <1>1, <2>3, <2>5, <2>6, Parts, Whole
<1>14. ASSUME NEW to \in Files, AnswerSaveAs(to) PROVE Sound'
  <2>1. BeginWrite(x.k, x.f, to, rest) BY <1>2, <1>14 DEF AnswerSaveAs
  <2>2. /\ Shaped /\ Fits(ed', stack', disk', here', due')
        /\ disk' \in [Files -> Body] /\ due' \in {"no", "soon", "later"}
    BY <1>3, <1>4, <2>1, Parts, BeginningWrite
  <2> QED BY <1>1, <2>2, Parts, Whole
<1> QED BY <1>8, <1>9, <1>11, <1>12, <1>13, <1>14 DEF Answer

-----------------------------------------------------------------------------
(* The second half of a file access.                                       *)

LEMMA StampLoadedSound ==
  ASSUME Sound, StampLoaded
  PROVE  Sound'
<1>1. stack # <<>> /\ UNCHANGED <<disk, due, writing>> BY DEF StampLoaded, Asked
<1>2. PICK e, rest : e = Stamped(ed) /\ rest = Tail(stack) OBVIOUS
<1>3. rest \in Seq(FrameType) /\ Above(rest) /\ Once(rest) /\ Prompted(ed, rest)
  BY <1>1, <1>2, Closing DEF Under
<1>4. /\ e \in EdType /\ e.stale # "differs" /\ e.dirty = ed.dirty /\ e.suppress = ed.suppress
      /\ e.asked = ed.asked /\ e.editable = ed.editable /\ e.text = ed.text
  BY <1>2, Parts, StampedFits
<1>5. ed' = e /\ stack' = rest /\ here' = here /\ expanded' = expanded /\ closed' = FALSE
  BY <1>2, Returned DEF StampLoaded
<1>6. Shaped BY <1>3, <1>4, <1>5, Parts DEF Shaped
<1>7. Fits(ed', stack', disk', here', due')
  BY <1>3, <1>4, <1>5, Parts DEF Fits, Prompted, Flags, Seen, Outdated
<1> QED BY <1>1, <1>6, <1>7, Parts, Whole

LEMMA FinishWriteSound ==
  ASSUME Sound, FinishWrite
  PROVE  Sound'
<1>1. stack # <<>> /\ Head(stack).op = "cut" /\ UNCHANGED writing BY DEF FinishWrite, Asked
<1>2. PICK w, rest : w = Head(stack) /\ rest = Tail(stack) OBVIOUS
<1>3. w \in FrameType /\ Under(w.k, rest) /\ Seen(ed, <<>>, disk, here, due)
  BY <1>1, <1>2, Closing
<1>4. PICK x : x = [w EXCEPT !.op = "stamp"] OBVIOUS
<1>5. x \in FrameType /\ x.op = "stamp" /\ x.k = w.k /\ w.to \in Files \cup {None}
  BY <1>3, <1>4 DEF FrameType
<1>6. PICK t : t = <<x>> \o rest OBVIOUS
<1>7. /\ t \in Seq(FrameType) /\ Above(t) /\ Once(t) /\ (Asks(t) <=> Asks(rest))
  BY <1>3, <1>5, <1>6, Pushed DEF Under
<1>8. Prompted(ed, t) BY <1>3, <1>7 DEF Under, Prompted
<1>9. CASE /\ disk' = [disk EXCEPT ![w.to] = ed.text] /\ due' = Noted(w.to)
           /\ Return(Touched(ed, w.to), t)
  <2>1. PICK e : e = Touched(ed, w.to) OBVIOUS
  <2>2. /\ e \in EdType /\ e.dirty = ed.dirty /\ e.suppress = ed.suppress /\ e.asked = ed.asked
        /\ e.editable = ed.editable /\ e.text = ed.text
    BY <2>1, Parts, TouchedFits
  <2>3. ed' = e /\ stack' = t /\ here' = here /\ expanded' = expanded /\ closed' = FALSE
    BY <1>9, <2>1, Returned
  <2>4. Seen(ed, t, disk, here, due) BY <1>3, StillSeen
  <2>5. Seen(e, t, disk', here', due') BY <1>5, <1>9, <2>1, <2>3, <2>4, Parts, Writing
  <2>6. disk' \in [Files -> Body]
    <3>1. ed.text \in Body BY Parts DEF EdType
    <3> QED BY <1>9, <3>1, Parts
  <2>7. due' \in {"no", "soon", "later"} BY <1>9, Parts DEF Noted
  <2>8. Shaped BY <1>7, <2>2, <2>3, Parts DEF Shaped
  <2>9. Fits(ed', stack', disk', here', due')
    BY <1>7, <1>8, <2>2, <2>3, <2>5, Parts DEF Fits, Prompted, Flags
  <2> QED BY <1>1, <2>6, <2>7, <2>8, <2>9, Parts, Whole
<1>10. ASSUME NEW s \in {t, rest}, Return(ed, s), UNCHANGED <<disk, due>> PROVE Sound'
  <2>1. ed' = ed /\ stack' = s /\ here' = here /\ expanded' = expanded /\ closed' = FALSE
    BY <1>10, Returned
  <2>2. s \in Seq(FrameType) /\ Above(s) /\ Once(s) /\ Prompted(ed, s)
    BY <1>3, <1>7, <1>8 DEF Under
  <2>3. Seen(ed, s, disk, here, due) BY <1>3, StillSeen
  <2>4. Shaped BY <2>1, <2>2, Parts DEF Shaped
  <2>5. Fits(ed', stack', disk', here', due') BY <1>10, <2>1, <2>2, <2>3, Parts DEF Fits
  <2> QED BY <1>1, <1>10, <2>4, <2>5, Parts, Whole
<1> QED BY <1>2, <1>4, <1>6, <1>9, <1>10 DEF FinishWrite

LEMMA StampSavedSound ==
  ASSUME Sound, StampSaved
  PROVE  Sound'
<1>1. stack # <<>> /\ UNCHANGED <<disk, due, writing>> BY DEF StampSaved, Asked
<1>2. PICK w, rest : w = Head(stack) /\ rest = Tail(stack) OBVIOUS
<1>3. w \in FrameType /\ Under(w.k, rest) BY <1>1, <1>2, Closing
<1>4. w.k \in Continuations /\ w.f \in Files \cup {None} /\ w.to \in Files \cup {None}
  BY <1>3 DEF FrameType
<1>5. PICK c : c = [ed EXCEPT !.path = w.to, !.dirty = FALSE, !.suppress = FALSE, !.asked = FALSE]
  OBVIOUS
<1>6. /\ c \in EdType /\ c.dirty = FALSE /\ c.suppress = FALSE /\ c.editable = ed.editable
      /\ c.text = ed.text
  BY <1>4, <1>5, Parts DEF EdType
<1>7. PICK e : e = Stamped(c) OBVIOUS
<1>8. /\ e \in EdType /\ e.stale # "differs" /\ e.dirty = FALSE /\ e.suppress = FALSE
      /\ e.editable = ed.editable /\ e.text = ed.text
  BY <1>6, <1>7, StampedFits
<1>9. Resume(w.k, w.f, e, rest) BY <1>2, <1>5, <1>7 DEF StampSaved
<1>10. Flags(e) /\ Prompted(e, rest) BY <1>8, Parts DEF Flags, Prompted
<1>11. Seen(e, rest, disk, here, due') BY <1>8 DEF Seen, Outdated
<1>12. rest \in Seq(FrameType) /\ Above(rest) /\ Once(rest) BY <1>3 DEF Under
<1>13. Shaped /\ Fits(ed', stack', disk', here', due')
  BY <1>1, <1>4, <1>8, <1>9, <1>10, <1>11, <1>12, Parts, Resuming
<1> QED BY <1>1, <1>13, Parts, Whole

-----------------------------------------------------------------------------
(* The event loop and the tools.                                           *)

\* In the event loop no file is being read.
LEMMA InLoop ==
  ASSUME Loop, stack # <<>>
  PROVE  Head(stack).op # "read"
BY DEF Loop, InDialog, Dialogs

LEMMA EventLoopSound ==
  ASSUME Sound, EventLoop
  PROVE  Sound'
<1>1. CASE OnTreeRefreshTimer
  <2>1. Loop /\ UNCHANGED <<disk, writing>> BY <1>1 DEF OnTreeRefreshTimer
  <2>2. CASE stack = <<>>
    <3>1. due' = "no" /\ Check BY <1>1, <2>2 DEF OnTreeRefreshTimer
    <3>2. Shaped /\ Fits(ed', stack', disk', here', due') BY <2>1, <3>1, Checking
    <3> QED BY <2>1, <3>1, <3>2, Parts, Whole
  <2>3. CASE stack # <<>>
    <3>1. due' = "later" /\ Return(ed, stack) BY <1>1, <2>3 DEF OnTreeRefreshTimer
    <3>2. ed' = ed /\ stack' = stack /\ here' = here /\ expanded' = expanded /\ closed' = FALSE
      BY <3>1, Returned
    <3>3. Shaped BY <3>2, Parts DEF Shaped
    <3>4. Fits(ed', stack', disk', here', due') BY <3>1, <3>2, Parts DEF Fits, Seen
    <3> QED BY <2>1, <3>1, <3>3, <3>4, Parts, Whole
  <2> QED BY <2>2, <2>3
<1>2. CASE ShowThread
  <2>1. Loop /\ MaybeSave("folder", None) /\ UNCHANGED <<disk, due, writing>>
    BY <1>2 DEF ShowThread
  <2>2. stack = <<>> \/ Head(stack).op # "read" BY <2>1, InLoop
  <2>3. Shaped /\ Fits(ed', stack', disk', here', due') BY <2>1, <2>2, MaybeSaving
  <2> QED BY <2>1, <2>3, Parts, Whole
<1>3. CASE OnEditorToggle
  <2>1. Check /\ UNCHANGED <<disk, due, writing>> BY <1>3 DEF OnEditorToggle
  <2>2. Shaped /\ Fits(ed', stack', disk', here', due') BY <2>1, Checking
  <2> QED BY <2>1, <2>2, Parts, Whole
<1> QED BY <1>1, <1>2, <1>3 DEF EventLoop

\* A tool changes a file: what it holds, the stamp, the timer.
LEMMA ToolSound ==
  ASSUME Sound, NEW g \in Files \cup {None}, NEW b \in Body, NEW e \in {ed, Touched(ed, g)},
         disk' = [disk EXCEPT ![g] = b], ed' = e, due' = Noted(g),
         writing' \in Files \cup {None}, UNCHANGED <<stack, here, expanded, closed>>
  PROVE  Sound'
<1>1. /\ e \in EdType /\ e.dirty = ed.dirty /\ e.suppress = ed.suppress /\ e.asked = ed.asked
      /\ e.editable = ed.editable /\ e.text = ed.text
  BY Parts, TouchedFits
<1>2. Seen(e, stack, disk', here', due') BY Parts, Writing
<1>3. disk' \in [Files -> Body] /\ due' \in {"no", "soon", "later"} BY Parts DEF Noted
<1>4. Shaped BY <1>1, Parts DEF Shaped
<1>5. Fits(ed', stack', disk', here', due') BY <1>1, <1>2, Parts DEF Fits, Prompted, Flags
<1> QED BY <1>3, <1>4, <1>5, Whole

LEMMA ToolsSound ==
  ASSUME Sound, Tools
  PROVE  Sound'
<1>1. CASE ToolWrites
  <2>1. PICK b \in {"agent", "bin"} : disk' = [disk EXCEPT ![writing] = b]
    BY <1>1 DEF ToolWrites
  <2>2. b \in Body BY DEF Body
  <2> QED BY <1>1, <2>1, <2>2, Parts, ToolSound DEF ToolWrites
<1>2. ASSUME NEW f \in Files, ToolOpens(f) PROVE Sound'
  <2>1. "empty" \in Body BY DEF Body
  <2> QED BY <1>2, <2>1, ToolSound DEF ToolOpens
<1>3. ASSUME NEW f \in Files, ToolDeletes(f) PROVE Sound'
  <2>1. "gone" \in Body BY DEF Body
  <2>2. writing' \in Files \cup {None} BY <1>3, Parts DEF ToolDeletes
  <2> QED BY <1>3, <2>1, <2>2, ToolSound DEF ToolDeletes
<1> QED BY <1>1, <1>2, <1>3 DEF Tools

LEMMA InitSound == Init => Sound
<1> SUFFICES ASSUME Init PROVE Sound OBVIOUS
<1>1. /\ disk \in [Files -> Body] /\ ed \in EdType /\ stack = <<>> /\ ~Outdated(ed, disk)
      /\ Flags(ed)
  BY ClearedFits DEF Init, Body
<1>2. TypeOK
  <2>1. stack \in Seq(FrameType) BY <1>1
  <2> QED BY <1>1, <2>1, Types DEF Init
<1>3. Fits(ed, stack, disk, here, due) BY <1>1, Empty DEF Fits, Prompted, Seen
<1> QED BY <1>2, <1>3 DEF Sound

LEMMA NextSound == Sound /\ [Next]_vars => Sound'
<1> SUFFICES ASSUME Sound, [Next]_vars PROVE Sound' OBVIOUS
<1>1. CASE UNCHANGED vars
  BY <1>1 DEF vars, Sound, TypeOK, Fits, Above, Once, Prompted, Flags, Seen
<1>2. CASE Next
  BY <1>2, UserSound, AnswerSound, StampLoadedSound, FinishWriteSound, StampSavedSound,
     EventLoopSound, ToolsSound DEF Next, Access
<1> QED BY <1>1, <1>2

-----------------------------------------------------------------------------
(* Unsaved text.                                                           *)

\* The editor goes on with its unsaved text.
Keeps == ed'.text = ed.text /\ ~closed'

LEMMA ReturnKeeps ==
  ASSUME NEW e, NEW rest, e.text = ed.text, Return(e, rest)
  PROVE  Keeps
BY Returned DEF Keeps

LEMMA MaybeSaveKeeps ==
  ASSUME ed.dirty, NEW k, NEW f, MaybeSave(k, f)
  PROVE  Keeps
<1>1. PICK rest : Return(ed, rest) BY DEF MaybeSave
<1> QED BY <1>1, ReturnKeeps

LEMMA CheckKeeps ==
  ASSUME Sound, ed.dirty, Check
  PROVE  Keeps
<1>1. PICK e, rest : e \in {ed, [ed EXCEPT !.suppress = TRUE, !.asked = TRUE]} /\ Return(e, rest)
  BY DEF Check
<1>2. e.text = ed.text BY <1>1, Parts DEF EdType
<1> QED BY <1>1, <1>2, ReturnKeeps

LEMMA BeginWriteKeeps ==
  ASSUME Sound, NEW k, NEW f, NEW to, NEW rest, BeginWrite(k, f, to, rest)
  PROVE  Keeps
<1>1. PICK e, s : e \in {ed, Touched(ed, to)} /\ Return(e, s) BY DEF BeginWrite
<1>2. e.text = ed.text BY <1>1, Parts, TouchedFits
<1> QED BY <1>1, <1>2, ReturnKeeps

LEMMA SaveKeeps ==
  ASSUME Sound, NEW k, NEW f, NEW rest, Save(k, f, rest)
  PROVE  Keeps
<1>1. CASE ~ed.editable \/ ed.path = None
  <2>1. PICK s : Return(ed, s) BY <1>1 DEF Save
  <2> QED BY <2>1, ReturnKeeps
<1>2. CASE ed.editable /\ ed.path # None
  <2>1. BeginWrite(k, f, ed.path, rest) BY <1>2 DEF Save
  <2> QED BY <2>1, BeginWriteKeeps
<1> QED BY <1>1, <1>2

LEMMA NextKeeps ==
  ASSUME Sound, Next, ed.dirty, ed.text = "mine"
  PROVE  Keeps \/ AnswerDontSave \/ AnswerReload \/ StampSaved
<1>1. CASE User
  <2>1. ~closed BY <1>1 DEF User, Type, OnEditorSave, OnEditorSaveAs, ReloadEditorFile,
          CloseEditorFile, OnClose, Expand, OnTreeRenameDir, OnEditorTreeSelect,
          OnTreeNewFile, OnTreeRename, Idle
  <2>2. CASE Type
    <3>1. ed'.text = "mine" BY <2>2, Parts DEF Type, EdType
    <3> QED BY <2>1, <2>2, <3>1 DEF Type, Keeps
  <2>3. CASE OnEditorSave BY <2>3, SaveKeeps DEF OnEditorSave
  <2>4. CASE OnEditorSaveAs \/ Expand \/ OnTreeRenameDir
    BY <2>1, <2>4 DEF OnEditorSaveAs, Expand, OnTreeRenameDir, Keeps
  <2>5. CASE ReloadEditorFile \/ CloseEditorFile \/ OnClose
    BY <2>5, MaybeSaveKeeps DEF ReloadEditorFile, CloseEditorFile, OnClose
  <2>6. ASSUME NEW f \in Files, OnEditorTreeSelect(f) PROVE Keeps
    BY <2>6, MaybeSaveKeeps DEF OnEditorTreeSelect
  <2>7. ASSUME NEW f \in Files, OnTreeNewFile(f) PROVE Keeps
    BY <2>1, <2>7 DEF OnTreeNewFile, Keeps
  <2>8. ASSUME NEW f \in Files, NEW g \in Files, OnTreeRename(f, g) PROVE Keeps
    <3>1. ed'.text = ed.text BY <2>8, Parts DEF OnTreeRename, EdType
    <3> QED BY <2>1, <2>8, <3>1 DEF OnTreeRename, Keeps
  <2> QED BY <1>1, <2>2, <2>3, <2>4, <2>5, <2>6, <2>7, <2>8 DEF User
<1>2. CASE Answer
  <2>1. CASE AnswerSave BY <2>1, SaveKeeps DEF AnswerSave
  <2>2. CASE AnswerCancel BY <2>2, ReturnKeeps DEF AnswerCancel
  <2>3. CASE AnswerKeep
    <3>1. Stamped(ed).text = ed.text BY Parts, StampedFits
    <3> QED BY <2>3, <3>1, ReturnKeeps DEF AnswerKeep
  <2>4. ASSUME NEW f \in Files, AnswerSaveAs(f) PROVE Keeps
    BY <2>4, BeginWriteKeeps DEF AnswerSaveAs
  <2> QED BY <1>2, <2>1, <2>2, <2>3, <2>4 DEF Answer
<1>3. CASE StampLoaded
  <2>1. Stamped(ed).text = ed.text BY Parts, StampedFits
  <2> QED BY <1>3, <2>1, ReturnKeeps DEF StampLoaded
<1>4. CASE FinishWrite
  <2>1. PICK e, s, to : e \in {ed, Touched(ed, to)} /\ Return(e, s) BY <1>4 DEF FinishWrite
  <2>2. e.text = ed.text BY <2>1, Parts, TouchedFits
  <2> QED BY <2>1, <2>2, ReturnKeeps
<1>5. CASE EventLoop
  <2>1. CASE OnTreeRefreshTimer
    BY <2>1, CheckKeeps, ReturnKeeps DEF OnTreeRefreshTimer
  <2>2. CASE ShowThread BY <2>2, MaybeSaveKeeps DEF ShowThread
  <2>3. CASE OnEditorToggle BY <2>3, CheckKeeps DEF OnEditorToggle
  <2> QED BY <1>5, <2>1, <2>2, <2>3 DEF EventLoop
<1>6. CASE Tools
  <2>1. PICK to : ed' \in {ed, Touched(ed, to)} BY <1>6 DEF Tools, ToolWrites, ToolOpens, ToolDeletes
  <2>2. ed'.text = ed.text BY <2>1, Parts, TouchedFits
  <2>3. ~closed' BY <1>6 DEF Tools, ToolWrites, ToolOpens, ToolDeletes
  <2> QED BY <2>2, <2>3 DEF Keeps
<1> QED BY <1>1, <1>2, <1>3, <1>4, <1>5, <1>6 DEF Next, Access

-----------------------------------------------------------------------------
(* Theorems.                                                               *)

\* What the editor shows, what is on disk and what is asked stay in agreement,
\* through every nesting of dialogs, timers and the tools' writes.
THEOREM SoundCorrect == Spec => []Sound
BY InitSound, NextSound, PTL DEF Spec

\* The user is never asked about one change in two dialogs on top of each other.
THEOREM OnePromptCorrect == Spec => []OnePrompt
<1>1. Sound => OnePrompt
  <2> SUFFICES ASSUME Sound PROVE OnePrompt OBVIOUS
  <2>1. PICK q : q = {i \in DOMAIN stack : stack[i].op = "changed"} OBVIOUS
  <2>2. \A i, j \in q : i = j BY <2>1, Parts DEF Once
  <2>3. CASE q = {} BY <2>1, <2>3, FS_EmptySet DEF OnePrompt
  <2>4. CASE q # {}
    <3>1. PICK i \in q : q = {i} BY <2>2, <2>4
    <3>2. Cardinality(q) = 1 BY <3>1, FS_Singleton
    <3> QED BY <2>1, <3>2 DEF OnePrompt
  <2> QED BY <2>3, <2>4
<1> QED BY <1>1, SoundCorrect, PTL

\* Once nothing is going on and no refresh is due, an open file that has changed
\* on disk is shown as it was only to a user with unsaved edits who was asked.
THEOREM NoticedCorrect == Spec => []Noticed
<1>1. Sound => Noticed BY Parts DEF Noticed, Seen, Outdated
<1> QED BY <1>1, SoundCorrect, PTL

\* Unsaved text leaves the editor only by Don't Save, Reload, or a save.
THEOREM EditsKeptCorrect == Spec => EditsKept
<1>1. Sound /\ [Next]_vars =>
        [ed.dirty /\ ed.text = "mine" /\ (ed'.text # "mine" \/ closed') =>
           AnswerDontSave \/ AnswerReload \/ StampSaved]_vars
  BY NextKeeps DEF Keeps
<1> QED BY <1>1, SoundCorrect, PTL DEF Spec, EditsKept
=============================================================================
