---------------------------- MODULE FrameProofs ----------------------------
(***************************************************************************)
(* Proofs about the main window: a project brief reaches every thread that *)
(* has not begun, and what ends behind the user's back is marked.          *)
(***************************************************************************)
EXTENDS Frame, SequenceTheorems, TLAPS

\* The list's threads have been handed out, none is its own subagent,
\* and the data stay in range.
Shaped ==
    /\ threads \in Seq(Ids) /\ used \in Ids /\ Old <= used
    /\ \A i \in DOMAIN threads : threads[i] <= used
    /\ active \in Nat
    /\ input \in Texts /\ images \in Texts
    /\ th \in [Ids -> Thread]
    /\ \A t \in Ids : th[t].parent # t
    /\ brief \in [Folders -> BOOLEAN]

\* A thread that has not begun has no turn, one that streams has one.
Unbegun ==
    \A t \in Ids : /\ ~th[t].begun => ~th[t].streaming /\ th[t].turns = 0
                   /\ th[t].streaming => th[t].turns > 0

Base == Shaped /\ Unbegun /\ BriefReachesNew

\* While a new thread's dialog is up it is the only one that may take a thread
\* off the list, and the list's last is not the saved thread.
LastIsNew ==
    /\ dialogs \in Seq([new : BOOLEAN, index : Nat])
    /\ \A k \in DOMAIN dialogs : dialogs[k].new =>
         k = 1 /\ Len(threads) > 0 /\ threads[Len(threads)] # Old

\* Nothing is owed of what is not open yet.
OwedOpen == \A t \in Ids : t > used \/ (t = Old /\ t \notin Open) => owed[t] = "nothing"

\* What is owed has been put down with its thread.
Noted ==
    Exists => \A t \in Open \ {Active} :
      /\ owed[t] = "end" => th[t].unseen \/ th[t].notice
      /\ owed[t] = "failure" => th[t].notice

\* What is put down with a thread has been drawn.
Drawn ==
    Exists => \A t \in Open \ {Active} :
      /\ th[t].cwd = th[Active].cwd /\ ~th[t].streaming =>
           /\ th[t].notice => [id |-> t, state |-> "failed"] \in display.rows
           /\ th[t].unseen /\ ~th[t].notice => [id |-> t, state |-> "unseen"] \in display.rows
      /\ th[t].parent = None =>
           /\ th[t].notice => display.marks[th[t].cwd] = "failed"
           /\ th[t].unseen => display.marks[th[t].cwd] # "none"

\* The shown thread is not marked.
ShownSeen ==
    Exists => /\ ~th[Active].unseen
              /\ \A r \in display.rows : r.id = Active => r.state \in {"running", "done"}

Marked == Noted /\ Drawn /\ ShownSeen
Told   == LastIsNew /\ OwedOpen /\ Marked

\* What two threads' data have in common however they are shown.
SameRun(r, s) ==
    /\ r.cwd = s.cwd /\ r.parent = s.parent /\ r.streaming = s.streaming
    /\ r.begun = s.begun /\ r.turns = s.turns /\ r.brief = s.brief
SameMarks(r, s) == r.unseen = s.unseen /\ r.notice = s.notice

Settled(r) == (~r.begun => ~r.streaming /\ r.turns = 0) /\ (r.streaming => r.turns > 0)
----------------------------------------------------------------------------
(* What the operators on the threads' data do, a field at a time.          *)

\* Writing one record leaves the others.
LEMMA Writes1 ==
  ASSUME NEW R \in [Ids -> Thread], NEW t \in Ids, NEW s \in Thread
  PROVE  LET S == [R EXCEPT ![t] = s]
         IN  S \in [Ids -> Thread] /\ S[t] = s /\ \A c \in Ids \ {t} : S[c] = R[c]
OBVIOUS

\* Texts and images put into a thread change nothing that is told of it.
LEMMA TextSet ==
  ASSUME NEW r \in Thread, NEW v \in Texts
  PROVE  /\ LET s == [r EXCEPT !.draft = v]
            IN  s \in Thread /\ SameRun(s, r) /\ SameMarks(s, r) /\ s.queue = r.queue
         /\ LET s == [r EXCEPT !.pics = v]
            IN  s \in Thread /\ SameRun(s, r) /\ SameMarks(s, r) /\ s.queue = r.queue
         /\ LET s == [r EXCEPT !.failed = v]
            IN  s \in Thread /\ SameRun(s, r) /\ SameMarks(s, r) /\ s.queue = r.queue
         /\ LET s == [r EXCEPT !.prompt = v]
            IN  s \in Thread /\ SameRun(s, r) /\ SameMarks(s, r) /\ s.queue = r.queue
<1>1. LET s == [r EXCEPT !.draft = v]
      IN  s \in Thread /\ SameRun(s, r) /\ SameMarks(s, r) /\ s.queue = r.queue
  BY DEF Thread, SameRun, SameMarks
<1>2. LET s == [r EXCEPT !.pics = v]
      IN  s \in Thread /\ SameRun(s, r) /\ SameMarks(s, r) /\ s.queue = r.queue
  BY DEF Thread, SameRun, SameMarks
<1>3. LET s == [r EXCEPT !.failed = v]
      IN  s \in Thread /\ SameRun(s, r) /\ SameMarks(s, r) /\ s.queue = r.queue
  BY DEF Thread, SameRun, SameMarks
<1>4. LET s == [r EXCEPT !.prompt = v]
      IN  s \in Thread /\ SameRun(s, r) /\ SameMarks(s, r) /\ s.queue = r.queue
  BY DEF Thread, SameRun, SameMarks
<1> QED BY <1>1, <1>2, <1>3, <1>4

\* So do a request to stop, and the queue but for itself.
LEMMA WaitSet ==
  ASSUME NEW r \in Thread
  PROVE  /\ \A v \in BOOLEAN :
              LET s == [r EXCEPT !.stop = v]
              IN  s \in Thread /\ SameRun(s, r) /\ SameMarks(s, r) /\ s.queue = r.queue
         /\ \A v \in Seq(Texts) :
              LET s == [r EXCEPT !.queue = v]
              IN  s \in Thread /\ SameRun(s, r) /\ SameMarks(s, r)
<1>1. ASSUME NEW v \in BOOLEAN
      PROVE  LET s == [r EXCEPT !.stop = v]
             IN  s \in Thread /\ SameRun(s, r) /\ SameMarks(s, r) /\ s.queue = r.queue
  BY DEF Thread, SameRun, SameMarks
<1>2. ASSUME NEW v \in Seq(Texts)
      PROVE  LET s == [r EXCEPT !.queue = v]
             IN  s \in Thread /\ SameRun(s, r) /\ SameMarks(s, r)
  BY DEF Thread, SameRun, SameMarks
<1> QED BY <1>1, <1>2

\* The fields of a turn, one at a time.
LEMMA TurnSet ==
  ASSUME NEW r \in Thread
  PROVE  /\ \A v \in BOOLEAN :
              LET s == [r EXCEPT !.streaming = v]
              IN  /\ s \in Thread /\ SameMarks(s, r) /\ s.cwd = r.cwd /\ s.parent = r.parent
                  /\ s.streaming = v /\ s.begun = r.begun /\ s.turns = r.turns
                  /\ s.brief = r.brief /\ s.queue = r.queue
         /\ \A v \in BOOLEAN :
              LET s == [r EXCEPT !.begun = v]
              IN  /\ s \in Thread /\ SameMarks(s, r) /\ s.cwd = r.cwd /\ s.parent = r.parent
                  /\ s.streaming = r.streaming /\ s.begun = v /\ s.turns = r.turns
                  /\ s.brief = r.brief /\ s.queue = r.queue
         /\ \A v \in BOOLEAN :
              LET s == [r EXCEPT !.brief = v]
              IN  /\ s \in Thread /\ SameMarks(s, r) /\ s.cwd = r.cwd /\ s.parent = r.parent
                  /\ s.streaming = r.streaming /\ s.begun = r.begun /\ s.turns = r.turns
                  /\ s.brief = v /\ s.queue = r.queue
<1>1. ASSUME NEW v \in BOOLEAN
      PROVE  LET s == [r EXCEPT !.streaming = v]
             IN  /\ s \in Thread /\ SameMarks(s, r) /\ s.cwd = r.cwd /\ s.parent = r.parent
                 /\ s.streaming = v /\ s.begun = r.begun /\ s.turns = r.turns
                 /\ s.brief = r.brief /\ s.queue = r.queue
  BY DEF Thread, SameMarks
<1>2. ASSUME NEW v \in BOOLEAN
      PROVE  LET s == [r EXCEPT !.begun = v]
             IN  /\ s \in Thread /\ SameMarks(s, r) /\ s.cwd = r.cwd /\ s.parent = r.parent
                 /\ s.streaming = r.streaming /\ s.begun = v /\ s.turns = r.turns
                 /\ s.brief = r.brief /\ s.queue = r.queue
  BY DEF Thread, SameMarks
<1>3. ASSUME NEW v \in BOOLEAN
      PROVE  LET s == [r EXCEPT !.brief = v]
             IN  /\ s \in Thread /\ SameMarks(s, r) /\ s.cwd = r.cwd /\ s.parent = r.parent
                 /\ s.streaming = r.streaming /\ s.begun = r.begun /\ s.turns = r.turns
                 /\ s.brief = v /\ s.queue = r.queue
  BY DEF Thread, SameMarks
<1> QED BY <1>1, <1>2, <1>3

\* So is their number.
LEMMA TurnsSet ==
  ASSUME NEW r \in Thread, NEW v \in Nat
  PROVE  LET s == [r EXCEPT !.turns = v]
         IN  /\ s \in Thread /\ SameMarks(s, r) /\ s.cwd = r.cwd /\ s.parent = r.parent
             /\ s.streaming = r.streaming /\ s.begun = r.begun /\ s.turns = v
             /\ s.brief = r.brief /\ s.queue = r.queue
BY DEF Thread, SameMarks

\* A turn begins: the thread streams and has begun.
LEMMA StartTurnIs ==
  ASSUME NEW R \in [Ids -> Thread], NEW t \in Ids, NEW text \in Texts
  PROVE  LET S == StartTurn(R, t, text)
         IN  /\ S \in [Ids -> Thread]
             /\ \A c \in Ids \ {t} : S[c] = R[c]
             /\ S[t].cwd = R[t].cwd /\ S[t].parent = R[t].parent /\ S[t].brief = R[t].brief
             /\ S[t].streaming /\ S[t].begun /\ S[t].turns > 0
             /\ SameMarks(S[t], R[t])
             /\ S[t].queue = R[t].queue
<1>1. PICK a : a = [R[t] EXCEPT !.streaming = TRUE] OBVIOUS
<1>2. PICK b : b = [a EXCEPT !.stop = FALSE] OBVIOUS
<1>3. PICK c : c = [b EXCEPT !.begun = TRUE] OBVIOUS
<1>4. PICK n : n = R[t].turns + 1 OBVIOUS
<1>5. PICK d : d = [c EXCEPT !.turns = n] OBVIOUS
<1>6. PICK e : e = [d EXCEPT !.prompt = text] OBVIOUS
<1>7. StartTurn(R, t, text) = [R EXCEPT ![t] = e]
  <2>1. StartTurn(R, t, text) =
          [R EXCEPT ![t] = [[[[[R[t] EXCEPT !.streaming = TRUE] EXCEPT !.stop = FALSE]
                               EXCEPT !.begun = TRUE] EXCEPT !.turns = R[t].turns + 1]
                             EXCEPT !.prompt = text]]
    BY DEF StartTurn
  <2> QED BY <1>1, <1>2, <1>3, <1>4, <1>5, <1>6, <2>1
<1>8. R[t] \in Thread /\ n \in Nat /\ n > 0 BY <1>4 DEF Thread
<1>9. /\ a \in Thread /\ SameMarks(a, R[t]) /\ a.cwd = R[t].cwd /\ a.parent = R[t].parent
      /\ a.streaming /\ a.brief = R[t].brief /\ a.queue = R[t].queue
  BY <1>1, <1>8, TurnSet
<1>10. b \in Thread /\ SameRun(b, a) /\ SameMarks(b, a) /\ b.queue = a.queue
  BY <1>2, <1>9, WaitSet
<1>11. /\ c \in Thread /\ SameMarks(c, b) /\ c.cwd = b.cwd /\ c.parent = b.parent
       /\ c.streaming = b.streaming /\ c.begun /\ c.brief = b.brief /\ c.queue = b.queue
  BY <1>3, <1>10, TurnSet
<1>12. /\ d \in Thread /\ SameMarks(d, c) /\ d.cwd = c.cwd /\ d.parent = c.parent
       /\ d.streaming = c.streaming /\ d.begun = c.begun /\ d.turns = n
       /\ d.brief = c.brief /\ d.queue = c.queue
  BY <1>5, <1>8, <1>11, TurnsSet
<1>13. e \in Thread /\ SameRun(e, d) /\ SameMarks(e, d) /\ e.queue = d.queue
  BY <1>6, <1>12, TextSet
<1>14. PICK S : S = [R EXCEPT ![t] = e] OBVIOUS
<1>15. S \in [Ids -> Thread] /\ S[t] = e /\ \A u \in Ids \ {t} : S[u] = R[u]
  BY <1>13, <1>14, Writes1
<1>16. /\ e.cwd = R[t].cwd /\ e.parent = R[t].parent /\ e.brief = R[t].brief
       /\ e.streaming /\ e.begun /\ e.turns = n /\ SameMarks(e, R[t]) /\ e.queue = R[t].queue
  BY <1>9, <1>10, <1>11, <1>12, <1>13 DEF SameRun, SameMarks
<1> QED BY <1>7, <1>8, <1>14, <1>15, <1>16

\* A turn ends: the thread has the marks it had, and those it gets for an end
\* or a failure the user does not see.
LEMMA FinalizedIs ==
  ASSUME NEW R \in [Ids -> Thread], NEW t \in Ids, NEW bad \in BOOLEAN
  PROVE  LET S == Finalized(R, t, bad)
         IN  /\ S \in [Ids -> Thread]
             /\ \A c \in Ids \ {t} : S[c] = R[c]
             /\ S[t].cwd = R[t].cwd /\ S[t].parent = R[t].parent /\ S[t].brief = R[t].brief
             /\ ~S[t].streaming /\ S[t].begun = R[t].begun /\ S[t].turns = R[t].turns
             /\ S[t].unseen <=> R[t].unseen \/ (t # Active /\ R[t].parent = None /\ ~R[t].stop)
             /\ S[t].notice <=> R[t].notice \/ (bad /\ t # Active /\ R[t].parent # None)
             /\ S[t].queue = R[t].queue
<1>1. PICK a : a = [R[t] EXCEPT !.streaming = FALSE] OBVIOUS
<1>2. PICK b : b = [a EXCEPT !.stop = FALSE] OBVIOUS
<1>3. PICK c : c = [b EXCEPT !.prompt = None] OBVIOUS
<1>4. PICK u \in BOOLEAN :
        u = (R[t].unseen \/ (t # Active /\ R[t].parent = None /\ ~R[t].stop))
  OBVIOUS
<1>5. PICK d : d = [c EXCEPT !.unseen = u] OBVIOUS
<1>6. PICK n \in BOOLEAN : n = (R[t].notice \/ (bad /\ t # Active /\ R[t].parent # None))
  OBVIOUS
<1>7. PICK e : e = [d EXCEPT !.notice = n] OBVIOUS
<1>8. Finalized(R, t, bad) = [R EXCEPT ![t] = e]
  <2>1. Finalized(R, t, bad) =
          [R EXCEPT ![t] = [[[[[R[t] EXCEPT !.streaming = FALSE] EXCEPT !.stop = FALSE]
             EXCEPT !.prompt = None]
             EXCEPT !.unseen = R[t].unseen \/ (t # Active /\ R[t].parent = None /\ ~R[t].stop)]
             EXCEPT !.notice = R[t].notice \/ (bad /\ t # Active /\ R[t].parent # None)]]
    BY DEF Finalized
  <2> QED BY <1>1, <1>2, <1>3, <1>4, <1>5, <1>6, <1>7, <2>1
<1>9. R[t] \in Thread /\ None \in Texts BY DEF Texts
<1>10. /\ a \in Thread /\ SameMarks(a, R[t]) /\ a.cwd = R[t].cwd /\ a.parent = R[t].parent
       /\ ~a.streaming /\ a.begun = R[t].begun /\ a.turns = R[t].turns
       /\ a.brief = R[t].brief /\ a.queue = R[t].queue
  BY <1>1, <1>9, TurnSet
<1>11. b \in Thread /\ SameRun(b, a) /\ SameMarks(b, a) /\ b.queue = a.queue
  BY <1>2, <1>10, WaitSet
<1>12. c \in Thread /\ SameRun(c, b) /\ SameMarks(c, b) /\ c.queue = b.queue
  BY <1>3, <1>9, <1>11, TextSet
<1>13. d \in Thread /\ SameRun(d, c) /\ d.queue = c.queue /\ (d.unseen <=> u) /\ d.notice = c.notice
  BY <1>4, <1>5, <1>12 DEF Thread, SameRun
<1>14. e \in Thread /\ SameRun(e, d) /\ e.queue = d.queue /\ (e.notice <=> n) /\ e.unseen = d.unseen
  BY <1>6, <1>7, <1>13 DEF Thread, SameRun
<1>15. PICK S : S = [R EXCEPT ![t] = e] OBVIOUS
<1>16. S \in [Ids -> Thread] /\ S[t] = e /\ \A w \in Ids \ {t} : S[w] = R[w]
  BY <1>14, <1>15, Writes1
<1>17. /\ e.cwd = R[t].cwd /\ e.parent = R[t].parent /\ e.brief = R[t].brief
       /\ ~e.streaming /\ e.begun = R[t].begun /\ e.turns = R[t].turns /\ e.queue = R[t].queue
  BY <1>10, <1>11, <1>12, <1>13, <1>14 DEF SameRun
<1>18. (e.unseen <=> u) /\ (e.notice <=> n) BY <1>13, <1>14
<1> QED BY <1>4, <1>6, <1>8, <1>15, <1>16, <1>17, <1>18

\* A failure is put down with a thread that is not shown.
LEMMA FailedIs ==
  ASSUME NEW R \in [Ids -> Thread], NEW t \in Ids, NEW rollBack \in BOOLEAN,
         rollBack => R[t].turns > 0
  PROVE  LET S == Failed(R, t, rollBack)
         IN  /\ S \in [Ids -> Thread]
             /\ \A c \in Ids \ {t} : S[c] = R[c]
             /\ S[t].cwd = R[t].cwd /\ S[t].parent = R[t].parent /\ S[t].brief = R[t].brief
             /\ S[t].streaming = R[t].streaming /\ S[t].begun = R[t].begun
             /\ S[t].unseen = R[t].unseen
             /\ S[t].notice <=> R[t].notice \/ t # Active
             /\ S[t].queue = R[t].queue /\ S[t].stop = R[t].stop
             /\ ~rollBack => S[t].turns = R[t].turns
<1>1. PICK k : k = IF rollBack THEN R[t].turns - 1 ELSE R[t].turns OBVIOUS
<1>2. PICK a : a = [R[t] EXCEPT !.turns = k] OBVIOUS
<1>3. PICK n \in BOOLEAN : n = (R[t].notice \/ t # Active) OBVIOUS
<1>4. PICK b : b = [a EXCEPT !.notice = n] OBVIOUS
<1>5. PICK f : f = IF t = Active THEN R[t].failed ELSE IF rollBack THEN R[t].prompt ELSE None
  OBVIOUS
<1>6. PICK c : c = [b EXCEPT !.failed = f] OBVIOUS
<1>7. Failed(R, t, rollBack) = [R EXCEPT ![t] = c]
  <2>1. Failed(R, t, rollBack) =
          [R EXCEPT ![t] = [[[R[t]
             EXCEPT !.turns = IF rollBack THEN R[t].turns - 1 ELSE R[t].turns]
             EXCEPT !.notice = R[t].notice \/ t # Active]
             EXCEPT !.failed = IF t = Active THEN R[t].failed
                               ELSE IF rollBack THEN R[t].prompt ELSE None]]
    BY DEF Failed
  <2> QED BY <1>1, <1>2, <1>3, <1>4, <1>5, <1>6, <2>1
<1>8. R[t] \in Thread /\ k \in Nat BY <1>1 DEF Thread
<1>9. R[t].failed \in Texts /\ R[t].prompt \in Texts /\ None \in Texts
  BY <1>8 DEF Thread, Texts
<1>10. f \in Texts BY <1>5, <1>9
<1>11. a \in Thread /\ a.cwd = R[t].cwd /\ a.stop = R[t].stop /\ a.parent = R[t].parent
       /\ a.streaming = R[t].streaming /\ a.begun = R[t].begun /\ a.brief = R[t].brief
       /\ a.queue = R[t].queue /\ a.unseen = R[t].unseen
  BY <1>2, <1>8 DEF Thread
<1>12. /\ b \in Thread /\ SameRun(b, a) /\ b.queue = a.queue /\ (b.notice <=> n)
       /\ b.unseen = a.unseen
  BY <1>3, <1>4, <1>11 DEF Thread, SameRun
<1>13. c \in Thread /\ SameRun(c, b) /\ SameMarks(c, b) /\ c.queue = b.queue
  BY <1>6, <1>10, <1>12, TextSet
<1>14. PICK S : S = [R EXCEPT ![t] = c] OBVIOUS
<1>15. S \in [Ids -> Thread] /\ S[t] = c /\ \A w \in Ids \ {t} : S[w] = R[w]
  BY <1>13, <1>14, Writes1
<1>16. /\ c.cwd = R[t].cwd /\ c.parent = R[t].parent /\ c.brief = R[t].brief
       /\ c.streaming = R[t].streaming /\ c.begun = R[t].begun
       /\ c.unseen = R[t].unseen /\ c.queue = R[t].queue
  BY <1>11, <1>12, <1>13 DEF SameRun, SameMarks
<1>17. c.notice <=> n BY <1>12, <1>13 DEF SameMarks
<1>19. ASSUME ~rollBack PROVE c.turns = R[t].turns
  <2>1. k = R[t].turns BY <1>1, <1>19
  <2>2. a.turns = k BY <1>2, <1>8 DEF Thread
  <2>3. b.turns = a.turns /\ c.turns = b.turns BY <1>12, <1>13 DEF SameRun
  <2> QED BY <2>1, <2>2, <2>3
<1>18. c.stop = R[t].stop
  <2>1. b.stop = a.stop BY <1>4, <1>11 DEF Thread
  <2>2. c.stop = b.stop BY <1>6, <1>12 DEF Thread
  <2> QED BY <1>11, <2>1, <2>2
<1> QED BY <1>3, <1>7, <1>14, <1>15, <1>16, <1>17, <1>18, <1>19

\* The subagents that still run end as failed ones.
LEMMA ChildrenEndIs ==
  ASSUME NEW R \in [Ids -> Thread], NEW t \in Ids
  PROVE  LET S == ChildrenEnd(R, t)
         IN  /\ S \in [Ids -> Thread]
             /\ \A c \in Ids :
                  /\ c \notin Children(R, t) => S[c] = R[c]
                  /\ c \in Children(R, t) =>
                       /\ S[c].cwd = R[c].cwd /\ S[c].parent = R[c].parent
                       /\ S[c].brief = R[c].brief /\ ~S[c].streaming
                       /\ S[c].begun = R[c].begun /\ S[c].turns = R[c].turns
                       /\ S[c].unseen = R[c].unseen
                       /\ S[c].notice <=> R[c].notice \/ c # Active
<1>1. ASSUME NEW c \in Children(R, t), c \in Ids
      PROVE  LET s == Finalized(Failed(R, c, FALSE), c, TRUE)[c]
             IN  /\ s \in Thread
                 /\ s.cwd = R[c].cwd /\ s.parent = R[c].parent
                 /\ s.brief = R[c].brief /\ ~s.streaming
                 /\ s.begun = R[c].begun /\ s.turns = R[c].turns
                 /\ s.unseen = R[c].unseen
                 /\ s.notice <=> R[c].notice \/ c # Active
  <2>1. R[c].parent # None BY <1>1 DEF Children, None, Ids
  <2>2. PICK F : F = Failed(R, c, FALSE) OBVIOUS
  <2>3. /\ F \in [Ids -> Thread]
        /\ F[c].cwd = R[c].cwd /\ F[c].parent = R[c].parent /\ F[c].brief = R[c].brief
        /\ F[c].begun = R[c].begun /\ F[c].turns = R[c].turns
        /\ F[c].unseen = R[c].unseen
        /\ F[c].notice <=> R[c].notice \/ c # Active
    BY <1>1, <2>2, FailedIs
  <2>4. PICK G : G = Finalized(F, c, TRUE) OBVIOUS
  <2>5. /\ G \in [Ids -> Thread]
        /\ G[c].cwd = F[c].cwd /\ G[c].parent = F[c].parent /\ G[c].brief = F[c].brief
        /\ ~G[c].streaming /\ G[c].begun = F[c].begun /\ G[c].turns = F[c].turns
        /\ G[c].unseen <=> F[c].unseen \/ (c # Active /\ F[c].parent = None /\ ~F[c].stop)
        /\ G[c].notice <=> F[c].notice \/ (TRUE /\ c # Active /\ F[c].parent # None)
    BY <1>1, <2>3, <2>4, FinalizedIs, ZenonT(60)
  <2>6. G[c].notice <=> R[c].notice \/ c # Active BY <2>1, <2>3, <2>5
  <2>7. G[c].unseen = R[c].unseen
    <3>1. G[c].unseen \in BOOLEAN /\ R[c].unseen \in BOOLEAN BY <1>1, <2>5 DEF Thread
    <3>2. G[c].unseen <=> R[c].unseen BY <2>1, <2>3, <2>5
    <3> QED BY <3>1, <3>2
  <2>8. G[c] \in Thread BY <1>1, <2>5
  <2> QED BY <2>2, <2>3, <2>4, <2>5, <2>6, <2>7, <2>8
<1>2. \A c \in Ids : ChildrenEnd(R, t)[c] = IF c \in Children(R, t)
                     THEN Finalized(Failed(R, c, FALSE), c, TRUE)[c] ELSE R[c]
  BY DEF ChildrenEnd
<1>3. ChildrenEnd(R, t) \in [Ids -> Thread] BY <1>1 DEF ChildrenEnd
<1> QED BY <1>1, <1>2, <1>3

\* The thread that is left keeps its marks, the one that is shown loses them.
LEMMA ShowsIs ==
  ASSUME NEW T \in Seq(Ids), NEW R \in [Ids -> Thread], NEW i \in DOMAIN T,
         Active \in Ids, input \in Texts, images \in Texts, Shows(T, R, i)
  PROVE  /\ threads' = T /\ active' = i /\ Active' = T[i] /\ th' \in [Ids -> Thread]
         /\ input' \in Texts /\ images' \in Texts
         /\ \A c \in Ids : /\ SameRun(th'[c], R[c])
                           /\ c # T[i] => SameMarks(th'[c], R[c])
                           /\ th'[c].notice => R[c].notice
         /\ ~th'[T[i]].unseen
         /\ display' = RefreshSessionChoice(T, T[i], th')
         /\ owed' = [owed EXCEPT ![Active] = "nothing",
                                 ![T[i]] = IF @ = "failure" THEN @ ELSE "nothing"]
<1>1. PICK t : t = T[i] OBVIOUS
<1>2. t \in Ids /\ None \in Texts /\ R[Active] \in Thread BY <1>1 DEF Texts
<1>3. PICK l : l = [[R[Active] EXCEPT !.draft = input] EXCEPT !.pics = images] OBVIOUS
<1>4. l \in Thread /\ SameRun(l, R[Active]) /\ SameMarks(l, R[Active])
  <2>1. PICK d : d = [R[Active] EXCEPT !.draft = input] OBVIOUS
  <2>2. d \in Thread /\ SameRun(d, R[Active]) /\ SameMarks(d, R[Active]) BY <1>2, <2>1, TextSet
  <2>3. l = [d EXCEPT !.pics = images] BY <1>3, <2>1
  <2>4. l \in Thread /\ SameRun(l, d) /\ SameMarks(l, d) BY <2>2, <2>3, TextSet
  <2> QED BY <2>2, <2>4 DEF SameRun, SameMarks
<1>5. PICK L : L = Leave(R) OBVIOUS
<1>6. L = [R EXCEPT ![Active] = l] BY <1>3, <1>5 DEF Leave
<1>7. L \in [Ids -> Thread] /\ L[Active] = l /\ \A c \in Ids \ {Active} : L[c] = R[c]
  BY <1>4, <1>6, Writes1
<1>8. \A c \in Ids : SameRun(L[c], R[c]) /\ SameMarks(L[c], R[c])
  BY <1>4, <1>7 DEF SameRun, SameMarks
<1>9. PICK n \in BOOLEAN : n = (L[t].notice /\ t \in Large) OBVIOUS
<1>10. PICK a : a = [L[t] EXCEPT !.draft = None] OBVIOUS
<1>11. PICK b : b = [a EXCEPT !.pics = None] OBVIOUS
<1>12. PICK c : c = [b EXCEPT !.failed = None] OBVIOUS
<1>13. PICK d : d = [c EXCEPT !.unseen = FALSE] OBVIOUS
<1>14. PICK e : e = [d EXCEPT !.notice = n] OBVIOUS
<1>15. L[t] \in Thread BY <1>2, <1>7
<1>16. a \in Thread /\ SameRun(a, L[t]) /\ SameMarks(a, L[t]) BY <1>2, <1>10, <1>15, TextSet
<1>17. b \in Thread /\ SameRun(b, a) /\ SameMarks(b, a) BY <1>2, <1>11, <1>16, TextSet
<1>18. c \in Thread /\ SameRun(c, b) /\ SameMarks(c, b) BY <1>2, <1>12, <1>17, TextSet
<1>19. d \in Thread /\ SameRun(d, c) /\ ~d.unseen /\ d.notice = c.notice
  BY <1>13, <1>18 DEF Thread, SameRun
<1>20. e \in Thread /\ SameRun(e, d) /\ e.unseen = d.unseen /\ (e.notice <=> n)
  BY <1>9, <1>14, <1>19 DEF Thread, SameRun
<1>21. th' = [L EXCEPT ![t] = e]
  <2>1. PICK S : S = [Leave(R) EXCEPT ![t].draft = None, ![t].pics = None, ![t].failed = None,
                             ![t].unseen = FALSE, ![t].notice = @ /\ t \in Large]
    OBVIOUS
  <2>2. th' = S BY <1>1, <2>1 DEF Shows
  <2>3. S = [L EXCEPT ![t] = [[[[[L[t] EXCEPT !.draft = None] EXCEPT !.pics = None]
               EXCEPT !.failed = None] EXCEPT !.unseen = FALSE]
               EXCEPT !.notice = L[t].notice /\ t \in Large]]
    BY <1>2, <1>5, <1>15, <2>1 DEF Thread
  <2> QED BY <1>9, <1>10, <1>11, <1>12, <1>13, <1>14, <2>2, <2>3
<1>22. th' \in [Ids -> Thread] /\ th'[t] = e /\ \A k \in Ids \ {t} : th'[k] = L[k]
  BY <1>2, <1>7, <1>20, <1>21, Writes1
<1>23. SameRun(e, L[t]) /\ ~e.unseen /\ (e.notice => L[t].notice)
  BY <1>9, <1>16, <1>17, <1>18, <1>19, <1>20 DEF SameRun
<1>24. /\ threads' = T /\ active' = i
       /\ display' = RefreshSessionChoice(T, t, th')
       /\ owed' = [owed EXCEPT ![Active] = "nothing",
                               ![t] = IF @ = "failure" THEN @ ELSE "nothing"]
  BY <1>1 DEF Shows
<1>25. Active' = t BY <1>1, <1>24 DEF Active
<1>26. input' \in Texts /\ images' \in Texts
  <2>1. /\ input' = IF L[t].draft = None THEN L[t].failed ELSE L[t].draft
        /\ images' = L[t].pics
    BY <1>1, <1>5 DEF Shows
  <2>2. L[t].draft \in Texts /\ L[t].failed \in Texts /\ L[t].pics \in Texts
    BY <1>15 DEF Thread, Texts
  <2> QED BY <2>1, <2>2
<1>27. \A k \in Ids : /\ SameRun(th'[k], R[k])
                      /\ k # t => SameMarks(th'[k], R[k])
                      /\ th'[k].notice => R[k].notice
  <2> TAKE k \in Ids
  <2>1. CASE k = t
    <3>1. th'[k] = e BY <1>22, <2>1
    <3> QED BY <1>8, <1>23, <2>1, <3>1 DEF SameRun, SameMarks
  <2>2. CASE k # t BY <1>8, <1>22, <2>2 DEF SameMarks
  <2> QED BY <2>1, <2>2
<1> QED BY <1>1, <1>22, <1>23, <1>24, <1>25, <1>26, <1>27

\* A thread as it is opened is unmarked, with its folder's brief.
LEMMA OpenThreadIs ==
  ASSUME brief \in [Folders -> BOOLEAN], NEW id, NEW f \in Folders, NEW p \in Texts
  PROVE  LET o == OpenThread(id, f, p)
         IN  /\ o \in Thread /\ o.cwd = f /\ o.parent = p /\ o.brief = brief[o.cwd]
             /\ ~o.streaming /\ ~o.unseen /\ ~o.notice /\ Settled(o)
<1>1. PICK u : u = Unopened OBVIOUS
<1>2. /\ u \in Thread /\ u.turns = 0 /\ ~u.streaming /\ ~u.unseen /\ ~u.notice
  <2>1. None \in Texts /\ Home \in Folders /\ <<>> \in Seq(Texts)
    BY FrameAssumption DEF Texts
  <2> QED BY <1>1, <2>1 DEF Unopened, Thread
<1>3. PICK v, n, b : /\ v = brief[f] /\ n = (IF id = Old THEN 1 ELSE 0) /\ b = (id = Old)
  OBVIOUS
<1>4. v \in BOOLEAN /\ n \in Nat /\ b \in BOOLEAN BY <1>3
<1>5. PICK a : a = [[u EXCEPT !.cwd = f] EXCEPT !.parent = p] OBVIOUS
<1>6. /\ a \in Thread /\ a.cwd = f /\ a.parent = p /\ a.turns = 0
      /\ ~a.streaming /\ ~a.unseen /\ ~a.notice
  BY <1>2, <1>5 DEF Thread
<1>7. PICK c : c = [a EXCEPT !.brief = v] OBVIOUS
<1>8. /\ c \in Thread /\ c.cwd = f /\ c.parent = p /\ c.brief = v
      /\ ~c.streaming /\ ~c.unseen /\ ~c.notice
  BY <1>4, <1>6, <1>7 DEF Thread
<1>9. PICK d : d = [c EXCEPT !.turns = n] OBVIOUS
<1>10. /\ d \in Thread /\ d.cwd = f /\ d.parent = p /\ d.brief = v /\ d.turns = n
       /\ ~d.streaming /\ ~d.unseen /\ ~d.notice
  BY <1>4, <1>8, <1>9 DEF Thread
<1>11. PICK o : o = [d EXCEPT !.begun = b] OBVIOUS
<1>12. /\ o \in Thread /\ o.cwd = f /\ o.parent = p /\ o.brief = v /\ o.turns = n
       /\ ~o.streaming /\ ~o.unseen /\ ~o.notice /\ (o.begun <=> b)
  BY <1>4, <1>10, <1>11 DEF Thread
<1>13. OpenThread(id, f, p) = o
  BY <1>1, <1>3, <1>5, <1>7, <1>9, <1>11 DEF OpenThread
<1>14. Settled(o) BY <1>3, <1>12 DEF Settled
<1> QED BY <1>3, <1>12, <1>13, <1>14

\* What is told of a thread's folder and brief does not change, and what has
\* begun has begun.
Kept(r, s) ==
    /\ r.cwd = s.cwd /\ r.parent = s.parent /\ r.brief = s.brief
    /\ s.begun => r.begun

\* A queued message is taken by a turn of its own.
NextTurn(R, t) == [StartTurn(R, t, Head(R[t].queue)) EXCEPT ![t].queue = Tail(@)]

\* It streams, with the marks the thread had.
LEMMA NextIs ==
  ASSUME NEW R \in [Ids -> Thread], NEW t \in Ids, R[t].queue # <<>>
  PROVE  LET S == NextTurn(R, t)
         IN  /\ S \in [Ids -> Thread]
             /\ \A c \in Ids \ {t} : S[c] = R[c]
             /\ Kept(S[t], R[t]) /\ Settled(S[t]) /\ S[t].streaming /\ SameMarks(S[t], R[t])
<1>1. R[t].queue \in Seq(Texts) BY DEF Thread, Texts
<1>2. PICK text : text = Head(R[t].queue) OBVIOUS
<1>3. text \in Texts BY <1>1, <1>2
<1>4. PICK A : A = StartTurn(R, t, text) OBVIOUS
<1>5. /\ A \in [Ids -> Thread] /\ \A c \in Ids \ {t} : A[c] = R[c]
      /\ A[t].cwd = R[t].cwd /\ A[t].parent = R[t].parent /\ A[t].brief = R[t].brief
      /\ A[t].streaming /\ A[t].begun /\ A[t].turns > 0
      /\ SameMarks(A[t], R[t]) /\ A[t].queue = R[t].queue
  BY <1>3, <1>4, StartTurnIs
<1>6. PICK q : q = Tail(A[t].queue) OBVIOUS
<1>7. q \in Seq(Texts) BY <1>1, <1>5, <1>6
<1>8. PICK s : s = [A[t] EXCEPT !.queue = q] OBVIOUS
<1>9. s \in Thread /\ SameRun(s, A[t]) /\ SameMarks(s, A[t]) BY <1>5, <1>7, <1>8, WaitSet
<1>10. PICK S : S = [A EXCEPT ![t] = s] OBVIOUS
<1>11. S \in [Ids -> Thread] /\ S[t] = s /\ \A c \in Ids \ {t} : S[c] = A[c]
  BY <1>5, <1>9, <1>10, Writes1
<1>12. [A EXCEPT ![t].queue = Tail(@)] = S BY <1>5, <1>6, <1>8, <1>10
<1>13. Kept(s, R[t]) /\ Settled(s) /\ s.streaming /\ SameMarks(s, R[t])
  BY <1>5, <1>9 DEF Kept, Settled, SameRun, SameMarks
<1>14. NextTurn(R, t) = S BY <1>2, <1>4, <1>12 DEF NextTurn
<1> QED BY <1>5, <1>11, <1>13, <1>14

\* A turn ends. What is put down with a thread that is not shown stays, and
\* what is owed of it from now on is put down with it.
LEMMA TurnEndsIs ==
  ASSUME Shaped, Unbegun, owed \in [Ids -> {"nothing", "end", "failure"}],
         Active \in Ids, NEW t \in Ids, NEW how, TurnEnds(t, how)
  PROVE  /\ th' \in [Ids -> Thread]
         /\ \A c \in Ids : Kept(th'[c], th[c]) /\ Settled(th'[c])
         /\ th'[Active].unseen = th[Active].unseen
         /\ \A c \in Ids \ {Active} : /\ th[c].unseen => th'[c].unseen
                                      /\ th[c].notice => th'[c].notice
         /\ owed' \in [Ids -> {"nothing", "end", "failure"}]
         /\ \A c \in Ids \ Open : owed'[c] = owed[c]
         /\ \A c \in Ids \ {Active} :
              /\ owed'[c] = "failure" => th'[c].notice \/ owed[c] = "failure"
              /\ owed'[c] = "end" => th'[c].unseen \/ owed[c] = "end"
<1> DEFINE fails == how \in {"failed", "error"}
           bad   == how # "done"
<1>2. PICK P : P = IF how \in {"failed", "error"} THEN Failed(th, t, how = "failed") ELSE th
  OBVIOUS
<1>3. PICK Q : Q = Finalized(P, t, how # "done") OBVIOUS
<1>4. PICK E : E = ChildrenEnd(Q, t) OBVIOUS
<1>5. /\ t \in Open /\ th[t].streaming
      /\ \/ th' = E
         \/ /\ E[t].queue # <<>>
            /\ th' = [StartTurn(E, t, Head(E[t].queue)) EXCEPT ![t].queue = Tail(@)]
      /\ owed' = [c \in Ids |->
                    IF \/ c \in Children(th, t) \/ (c = t /\ fails)
                       \/ c = t /\ bad /\ th[t].parent # None /\ t # Active THEN "failure"
                    ELSE IF /\ c = t /\ t # Active /\ th[t].parent = None /\ ~th[t].stop
                            /\ owed[c] = "nothing" THEN "end"
                    ELSE owed[c]]
  BY <1>2, <1>3, <1>4, ZenonT(60) DEF TurnEnds
<1>6. th \in [Ids -> Thread] /\ th[t].turns > 0 /\ th[t].begun /\ th[t].parent # t
  BY <1>5 DEF Shaped, Unbegun
<1>7. /\ P \in [Ids -> Thread]
      /\ \A c \in Ids \ {t} : P[c] = th[c]
      /\ P[t].cwd = th[t].cwd /\ P[t].parent = th[t].parent /\ P[t].brief = th[t].brief
      /\ P[t].begun /\ P[t].unseen = th[t].unseen /\ P[t].stop = th[t].stop
      /\ P[t].notice <=> th[t].notice \/ (fails /\ t # Active)
  <2>1. CASE how = "failed"
    <3>1. P = Failed(th, t, TRUE) BY <1>2, <2>1 DEF Failed
    <3> QED BY <1>6, <2>1, <3>1, FailedIs, ZenonT(60)
  <2>2. CASE how = "error"
    <3>1. P = Failed(th, t, FALSE) BY <1>2, <2>2 DEF Failed
    <3> QED BY <1>6, <2>2, <3>1, FailedIs, ZenonT(60)
  <2>3. CASE ~fails BY <1>2, <1>6, <2>3
  <2> QED BY <2>1, <2>2, <2>3
<1>8. /\ Q \in [Ids -> Thread]
      /\ \A c \in Ids \ {t} : Q[c] = P[c]
      /\ Q[t].cwd = P[t].cwd /\ Q[t].parent = P[t].parent /\ Q[t].brief = P[t].brief
      /\ ~Q[t].streaming /\ Q[t].begun = P[t].begun
      /\ Q[t].unseen <=> P[t].unseen \/ (t # Active /\ P[t].parent = None /\ ~P[t].stop)
      /\ Q[t].notice <=> P[t].notice \/ (bad /\ t # Active /\ P[t].parent # None)
  <2>1. CASE bad
    <3>1. Q = Finalized(P, t, TRUE) BY <1>3, <2>1 DEF Finalized
    <3>2. /\ Q \in [Ids -> Thread]
          /\ \A c \in Ids \ {t} : Q[c] = P[c]
          /\ Q[t].cwd = P[t].cwd /\ Q[t].parent = P[t].parent /\ Q[t].brief = P[t].brief
          /\ ~Q[t].streaming /\ Q[t].begun = P[t].begun /\ Q[t].turns = P[t].turns
          /\ Q[t].unseen <=> P[t].unseen \/ (t # Active /\ P[t].parent = None /\ ~P[t].stop)
          /\ Q[t].notice <=> P[t].notice \/ (TRUE /\ t # Active /\ P[t].parent # None)
          /\ Q[t].queue = P[t].queue
      <4>1. P \in [Ids -> Thread] BY <1>7
      <4> QED BY <3>1, <4>1, FinalizedIs, ZenonT(60)
    <3> QED BY <2>1, <3>2
  <2>2. CASE ~bad
    <3>1. Q = Finalized(P, t, FALSE) BY <1>3, <2>2 DEF Finalized
    <3>2. /\ Q \in [Ids -> Thread]
          /\ \A c \in Ids \ {t} : Q[c] = P[c]
          /\ Q[t].cwd = P[t].cwd /\ Q[t].parent = P[t].parent /\ Q[t].brief = P[t].brief
          /\ ~Q[t].streaming /\ Q[t].begun = P[t].begun /\ Q[t].turns = P[t].turns
          /\ Q[t].unseen <=> P[t].unseen \/ (t # Active /\ P[t].parent = None /\ ~P[t].stop)
          /\ Q[t].notice <=> P[t].notice \/ (FALSE /\ t # Active /\ P[t].parent # None)
          /\ Q[t].queue = P[t].queue
      <4>1. P \in [Ids -> Thread] BY <1>7
      <4> QED BY <3>1, <4>1, FinalizedIs, ZenonT(60)
    <3> QED BY <2>2, <3>2
  <2> QED BY <2>1, <2>2
<1>9. Children(Q, t) = Children(th, t) /\ t \notin Children(Q, t)
  <2>1. \A c \in Open : c \in Ids BY DEF Shaped, Open
  <2>2. \A c \in Open \ {t} : Q[c] = th[c] BY <1>7, <1>8, <2>1
  <2>3. th[t].parent # t /\ Q[t].parent # t BY <1>6, <1>7, <1>8
  <2> QED BY <2>2, <2>3 DEF Children
<1>10. /\ E \in [Ids -> Thread]
       /\ \A c \in Ids :
            /\ c \notin Children(Q, t) => E[c] = Q[c]
            /\ c \in Children(Q, t) =>
                 /\ E[c].cwd = Q[c].cwd /\ E[c].parent = Q[c].parent
                 /\ E[c].brief = Q[c].brief /\ ~E[c].streaming
                 /\ E[c].begun = Q[c].begun /\ E[c].turns = Q[c].turns
                 /\ E[c].unseen = Q[c].unseen
                 /\ E[c].notice <=> Q[c].notice \/ c # Active
  BY <1>4, <1>8, ChildrenEndIs
<1>11. /\ th' \in [Ids -> Thread]
       /\ \A c \in Ids \ {t} : th'[c] = E[c]
       /\ Kept(th'[t], E[t]) /\ Settled(th'[t]) /\ SameMarks(th'[t], E[t])
  <2>1. CASE th' = E
    <3>1. E[t] = Q[t] BY <1>9, <1>10
    <3> QED BY <1>7, <1>8, <1>10, <2>1, <3>1 DEF Kept, Settled, SameMarks
  <2>2. CASE /\ E[t].queue # <<>>
             /\ th' = [StartTurn(E, t, Head(E[t].queue)) EXCEPT ![t].queue = Tail(@)]
    <3>1. PICK S : S = NextTurn(E, t) OBVIOUS
    <3>2. /\ S \in [Ids -> Thread]
          /\ \A c \in Ids \ {t} : S[c] = E[c]
          /\ Kept(S[t], E[t]) /\ Settled(S[t]) /\ S[t].streaming /\ SameMarks(S[t], E[t])
      <4>1. E \in [Ids -> Thread] BY <1>10
      <4>2. E[t].queue # <<>> BY <2>2
      <4> QED BY <3>1, <4>1, <4>2, NextIs
    <3> QED BY <2>2, <3>1, <3>2 DEF NextTurn
  <2> QED BY <1>5, <2>1, <2>2
<1>12. \A c \in Ids : Kept(th'[c], th[c]) /\ Settled(th'[c])
  <2> TAKE c \in Ids
  <2>1. CASE c = t
    <3>1. E[t] = Q[t] BY <1>9, <1>10
    <3> QED BY <1>7, <1>8, <1>11, <2>1, <3>1 DEF Kept
  <2>2. CASE c # t
    <3>1. th'[c] = E[c] /\ Q[c] = th[c] BY <1>7, <1>8, <1>11, <2>2
    <3>2. Kept(E[c], th[c]) BY <1>10, <3>1 DEF Kept
    <3>3. Settled(th[c]) BY DEF Unbegun, Settled
    <3>4. CASE c \in Children(Q, t)
      <4>1. th[c].begun BY <1>9, <3>3, <3>4 DEF Children, Settled
      <4> QED BY <1>10, <3>1, <3>2, <3>4, <4>1 DEF Settled
    <3>5. CASE c \notin Children(Q, t) BY <1>10, <3>1, <3>2, <3>3, <3>5
    <3> QED BY <3>1, <3>2, <3>4, <3>5
  <2> QED BY <2>1, <2>2
<1>13. /\ th'[t].unseen <=> th[t].unseen \/ (t # Active /\ th[t].parent = None /\ ~th[t].stop)
       /\ th'[t].notice <=> \/ th[t].notice \/ (fails /\ t # Active)
                            \/ (bad /\ t # Active /\ th[t].parent # None)
  <2>1. E[t] = Q[t] BY <1>9, <1>10
  <2> QED BY <1>7, <1>8, <1>11, <2>1 DEF SameMarks
<1>14. \A c \in Ids \ {t} :
         /\ th'[c].unseen = th[c].unseen
         /\ c \notin Children(th, t) => th'[c].notice = th[c].notice
         /\ c \in Children(th, t) => (th'[c].notice <=> th[c].notice \/ c # Active)
  <2> TAKE c \in Ids \ {t}
  <2>1. th'[c] = E[c] /\ Q[c] = th[c] BY <1>7, <1>8, <1>11
  <2> QED BY <1>9, <1>10, <2>1
<1>15. th'[Active].unseen = th[Active].unseen
  <2>1. CASE t = Active
    <3>1. th'[t].unseen <=> th[t].unseen BY <1>13, <2>1
    <3>2. th'[t].unseen \in BOOLEAN /\ th[t].unseen \in BOOLEAN BY <1>6, <1>11 DEF Thread
    <3> QED BY <2>1, <3>1, <3>2
  <2>2. CASE t # Active BY <1>14, <2>2
  <2> QED BY <2>1, <2>2
<1>16. \A c \in Ids \ {Active} : /\ th[c].unseen => th'[c].unseen
                                 /\ th[c].notice => th'[c].notice
  <2> TAKE c \in Ids \ {Active}
  <2>1. CASE c = t BY <1>13, <2>1
  <2>2. CASE c # t BY <1>14, <2>2
  <2> QED BY <2>1, <2>2
<1>17. owed' \in [Ids -> {"nothing", "end", "failure"}] BY <1>5
<1>18. \A c \in Ids \ Open : owed'[c] = owed[c]
  <2> TAKE c \in Ids \ Open
  <2>1. c # t /\ c \notin Children(th, t) BY <1>5 DEF Children
  <2> QED BY <1>5, <2>1
<1>19. \A c \in Ids \ {Active} :
         /\ owed'[c] = "failure" => th'[c].notice \/ owed[c] = "failure"
         /\ owed'[c] = "end" => th'[c].unseen \/ owed[c] = "end"
  <2> TAKE c \in Ids \ {Active}
  <2>1. CASE c = t
    <3>1. c \notin Children(th, t) BY <1>9, <2>1
    <3> QED BY <1>5, <1>13, <2>1, <3>1
  <2>2. CASE c # t BY <1>5, <1>14, <2>2
  <2> QED BY <2>1, <2>2
<1> QED BY <1>11, <1>12, <1>15, <1>16, <1>17, <1>18, <1>19

----------------------------------------------------------------------------
(* The steps are of three kinds: quiet ones, that change nothing that is   *)
(* drawn of the threads; the turns' ones, which draw the list again; and   *)
(* those that show a thread.                                               *)

InRange == th' \in [Ids -> Thread] /\ input' \in Texts /\ images' \in Texts

QuietStep ==
    /\ UNCHANGED << threads, active, used, dialogs, brief, display, owed >>
    /\ InRange
    /\ \A c \in Ids : /\ SameRun(th'[c], th[c]) /\ th'[c].unseen = th[c].unseen
                      /\ c # Active => th'[c].notice = th[c].notice

\* The step of a turn may open a subagent.
Opens ==
    \/ UNCHANGED << threads, used >>
    \/ /\ used + 1 \in Ids /\ used' = used + 1 /\ threads' = Append(threads, used')
       /\ OpensInDialog \/ ~InDialog
       /\ th'[used'].brief = brief[th'[used'].cwd]
       /\ owed' = owed

TurnStep ==
    /\ UNCHANGED << active, dialogs, brief >>
    /\ InRange /\ Opens
    /\ \A c \in Ids : /\ Settled(th'[c]) /\ th'[c].parent # c
                      /\ c <= used => Kept(th'[c], th[c])
    /\ th'[Active].unseen = th[Active].unseen
    /\ \A c \in Ids \ {Active} : /\ c <= used /\ th[c].unseen => th'[c].unseen
                                 /\ c <= used /\ th[c].notice => th'[c].notice
    /\ display' = RefreshSessionChoice(threads', Active, th')
    /\ owed' \in [Ids -> {"nothing", "end", "failure"}]
    /\ \A c \in Ids \ Open : owed'[c] = owed[c]
    /\ \A c \in Ids \ {Active} :
         /\ owed'[c] = "failure" => th'[c].notice \/ owed[c] = "failure"
         /\ owed'[c] = "end" => th'[c].unseen \/ owed[c] = "end"

Owing == owed \in [Ids -> {"nothing", "end", "failure"}]

\* Small facts of every state.
LEMMA ShownId == ASSUME Shaped, Exists PROVE Active \in Ids /\ Active \in Open /\ Active <= used
BY DEF Shaped, Exists, Active, Open

\* Changing the shown thread's record in its queue or its stop is quiet.
LEMMA QuietRecord ==
  ASSUME Shaped, NEW R, NEW t \in Ids, NEW s \in Thread, R = [th EXCEPT ![t] = s],
         SameRun(s, th[t]), SameMarks(s, th[t])
  PROVE  /\ R \in [Ids -> Thread]
         /\ \A c \in Ids : SameRun(R[c], th[c]) /\ SameMarks(R[c], th[c])
<1>1. th \in [Ids -> Thread] BY DEF Shaped
<1>2. R \in [Ids -> Thread] /\ R[t] = s /\ \A c \in Ids \ {t} : R[c] = th[c] BY <1>1, Writes1
<1> QED BY <1>2 DEF SameRun, SameMarks

\* A message that waits is quiet.
LEMMA EnqueueIs ==
  ASSUME Shaped, Owing, Exists, NEW text \in Texts, EnqueueMessage(text)
  PROVE  /\ th' \in [Ids -> Thread] /\ images' \in Texts
         /\ \A c \in Ids : SameRun(th'[c], th[c]) /\ SameMarks(th'[c], th[c])
         /\ UNCHANGED << display, owed >>
<1>1. Active \in Ids /\ th \in [Ids -> Thread] BY ShownId DEF Shaped
<1>2. PICK q : q = Append(th[Active].queue, text) OBVIOUS
<1>3. q \in Seq(Texts)
  <2>1. th[Active].queue \in Seq(Texts) BY <1>1 DEF Thread, Texts
  <2> QED BY <1>2, <2>1
<1>4. PICK s : s = [th[Active] EXCEPT !.queue = q] OBVIOUS
<1>5. s \in Thread /\ SameRun(s, th[Active]) /\ SameMarks(s, th[Active])
  BY <1>1, <1>3, <1>4, WaitSet
<1>6. th' = [th EXCEPT ![Active] = s] BY <1>1, <1>2, <1>4 DEF EnqueueMessage
<1>7. images' \in Texts /\ UNCHANGED << display, owed >> BY DEF EnqueueMessage, Texts
<1> QED BY <1>1, <1>5, <1>6, <1>7, QuietRecord

\* A turn of the shown thread that begins is a step of a turn.
LEMMA BeginIs ==
  ASSUME Shaped, Unbegun, Owing, Exists, NEW R \in [Ids -> Thread], NEW text \in Texts,
         NEW q \in Seq(Texts),
         R = StartTurn(th, Active, text) \/ R = [StartTurn(th, Active, text) EXCEPT ![Active].queue = q]
  PROVE  /\ \A c \in Ids : /\ Settled(R[c]) /\ R[c].parent # c
                           /\ Kept(R[c], th[c]) /\ SameMarks(R[c], th[c])
<1>1. Active \in Ids /\ th \in [Ids -> Thread] /\ \A t \in Ids : th[t].parent # t
  BY ShownId DEF Shaped
<1>2. PICK A : A = StartTurn(th, Active, text) OBVIOUS
<1>3. /\ A \in [Ids -> Thread] /\ \A c \in Ids \ {Active} : A[c] = th[c]
      /\ A[Active].cwd = th[Active].cwd /\ A[Active].parent = th[Active].parent
      /\ A[Active].brief = th[Active].brief
      /\ A[Active].streaming /\ A[Active].begun /\ A[Active].turns > 0
      /\ SameMarks(A[Active], th[Active])
  BY <1>1, <1>2, StartTurnIs
<1>4. \A c \in Ids : /\ Settled(A[c]) /\ A[c].parent # c
                     /\ Kept(A[c], th[c]) /\ SameMarks(A[c], th[c])
  BY <1>1, <1>3 DEF Unbegun, Settled, Kept, SameMarks
<1>5. CASE R = [A EXCEPT ![Active].queue = q]
  <2>1. PICK s : s = [A[Active] EXCEPT !.queue = q] OBVIOUS
  <2>2. s \in Thread /\ SameRun(s, A[Active]) /\ SameMarks(s, A[Active])
    BY <1>1, <1>3, <2>1, WaitSet
  <2>3. R = [A EXCEPT ![Active] = s] BY <1>1, <1>3, <1>5, <2>1
  <2>4. R[Active] = s /\ \A c \in Ids \ {Active} : R[c] = A[c]
    BY <1>1, <1>3, <2>2, <2>3, Writes1
  <2> QED BY <1>4, <2>2, <2>4 DEF Settled, Kept, SameRun, SameMarks
<1> QED BY <1>2, <1>4, <1>5

\* What the user and MCP clients do to the input, the images, the queue and
\* the editor is quiet, and so are requests to stop and the history's drawing.
LEMMA QuietActions ==
  ASSUME Shaped, Owing, Exists,
         \/ Type \/ Attach \/ OnClearQueue \/ EditFile \/ SetInput \/ McpSend \/ RestoreSession
         \/ \E t \in Ids : RequestCancel(t)
  PROVE  QuietStep
<1>1. /\ Active \in Ids /\ th \in [Ids -> Thread] /\ input \in Texts /\ images \in Texts
      /\ Active \in Texts /\ None \in Texts
  BY ShownId DEF Shaped, Texts
<1>2. ASSUME UNCHANGED << threads, active, used, th, dialogs, brief, display, owed >>,
             input' \in Texts, images' \in Texts
      PROVE  QuietStep
  BY <1>1, <1>2 DEF QuietStep, InRange, SameRun
<1>3. CASE Type BY <1>1, <1>2, <1>3 DEF Type
<1>4. CASE Attach BY <1>1, <1>2, <1>4 DEF Attach
<1>5. CASE EditFile BY <1>1, <1>2, <1>5 DEF EditFile
<1>6. CASE SetInput BY <1>1, <1>2, <1>6 DEF SetInput
<1>7. CASE McpSend
  <2>1. CASE EnqueueMessage(Active) /\ UNCHANGED << input, posted >>
    <3>1. /\ th' \in [Ids -> Thread] /\ images' \in Texts
          /\ \A c \in Ids : SameRun(th'[c], th[c]) /\ SameMarks(th'[c], th[c])
          /\ UNCHANGED << display, owed >>
      BY <1>1, <2>1, EnqueueIs
    <3>2. UNCHANGED << threads, active, used, dialogs, brief, input >> BY <1>7, <2>1 DEF McpSend
    <3> QED BY <1>1, <3>1, <3>2 DEF QuietStep, InRange, SameMarks
  <2>2. CASE ~(EnqueueMessage(Active) /\ UNCHANGED << input, posted >>)
    <3>1. /\ UNCHANGED << threads, active, used, th, dialogs, brief, display, owed, images >>
          /\ input' = Active
      BY <1>7, <2>2 DEF McpSend
    <3> QED BY <1>1, <1>2, <3>1
  <2> QED BY <2>1, <2>2
<1>8. CASE OnClearQueue
  <2>1. PICK s : s = [th[Active] EXCEPT !.queue = <<>>] OBVIOUS
  <2>2. <<>> \in Seq(Texts) OBVIOUS
  <2>3. s \in Thread /\ SameRun(s, th[Active]) /\ SameMarks(s, th[Active])
    BY <1>1, <2>1, <2>2, WaitSet
  <2>4. th' = [th EXCEPT ![Active] = s] BY <1>1, <1>8, <2>1 DEF OnClearQueue
  <2>5. /\ th' \in [Ids -> Thread]
        /\ \A c \in Ids : SameRun(th'[c], th[c]) /\ SameMarks(th'[c], th[c])
    BY <1>1, <2>3, <2>4, QuietRecord
  <2> QED BY <1>1, <1>8, <2>5 DEF OnClearQueue, QuietStep, InRange, SameMarks
<1>9. CASE RestoreSession
  <2>1. PICK s : s = [th[Active] EXCEPT !.notice = FALSE] OBVIOUS
  <2>2. s \in Thread /\ SameRun(s, th[Active]) /\ s.unseen = th[Active].unseen
    BY <1>1, <2>1 DEF Thread, SameRun
  <2>3. th' = [th EXCEPT ![Active] = s] BY <1>1, <1>9, <2>1 DEF RestoreSession
  <2>4. th' \in [Ids -> Thread] /\ th'[Active] = s /\ \A c \in Ids \ {Active} : th'[c] = th[c]
    BY <1>1, <2>2, <2>3, Writes1
  <2>5. \A c \in Ids : SameRun(th'[c], th[c]) /\ th'[c].unseen = th[c].unseen
    BY <2>2, <2>4 DEF SameRun
  <2> QED BY <1>1, <1>9, <2>4, <2>5 DEF RestoreSession, QuietStep, InRange
<1>10. ASSUME NEW t \in Ids, RequestCancel(t) PROVE QuietStep
  <2>1. PICK top \in {t, th[t].parent} \ {None} :
          th' = [c \in Ids |-> IF c = top \/ (c \in Open /\ th[c].parent = top)
                               THEN [th[c] EXCEPT !.stop = @ \/ th[c].streaming] ELSE th[c]]
    BY <1>10 DEF RequestCancel
  <2>2. ASSUME NEW c \in Ids
        PROVE  th'[c] \in Thread /\ SameRun(th'[c], th[c]) /\ SameMarks(th'[c], th[c])
    <3>1. PICK v \in BOOLEAN : v = (th[c].stop \/ th[c].streaming) OBVIOUS
    <3>2. PICK s : s = [th[c] EXCEPT !.stop = v] OBVIOUS
    <3>3. s \in Thread /\ SameRun(s, th[c]) /\ SameMarks(s, th[c])
      BY <1>1, <3>1, <3>2 DEF Thread, SameRun, SameMarks
    <3>4. th'[c] = s \/ th'[c] = th[c] BY <2>1, <3>1, <3>2
    <3> QED BY <1>1, <3>3, <3>4 DEF SameRun, SameMarks
  <2>3. th' \in [Ids -> Thread] BY <2>1, <2>2
  <2> QED BY <1>1, <1>10, <2>2, <2>3 DEF RequestCancel, QuietStep, InRange, SameMarks
<1> QED BY <1>3, <1>4, <1>5, <1>6, <1>7, <1>8, <1>9, <1>10

\* So it is for the whole step.
LEMMA BeginStep ==
  ASSUME Shaped, Owing, Exists, InRange, UNCHANGED << threads, active, used, dialogs, brief >>,
         \A c \in Ids : /\ Settled(th'[c]) /\ th'[c].parent # c
                        /\ Kept(th'[c], th[c]) /\ SameMarks(th'[c], th[c]),
         display' = RefreshSessionChoice(threads, Active, th'),
         owed' = [owed EXCEPT ![Active] = "nothing"]
  PROVE  TurnStep
<1>1. Active \in Ids BY ShownId
<1>2. Opens BY DEF Opens
<1>3. /\ owed' \in [Ids -> {"nothing", "end", "failure"}]
      /\ \A c \in Ids \ {Active} : owed'[c] = owed[c]
  BY <1>1 DEF Owing
<1>4. \A c \in Ids \ Open : owed'[c] = owed[c] BY <1>3, ShownId
<1>5. \A c \in Ids : /\ Settled(th'[c]) /\ th'[c].parent # c
                     /\ c <= used => Kept(th'[c], th[c])
  OBVIOUS
<1>6. \A c \in Ids : th'[c].unseen = th[c].unseen /\ th'[c].notice = th[c].notice
  BY DEF SameMarks
<1>7. display' = RefreshSessionChoice(threads', Active, th') OBVIOUS
<1> QED BY <1>1, <1>2, <1>3, <1>4, <1>5, <1>6, <1>7 DEF TurnStep

\* Sending is one of both.
LEMMA SendIs ==
  ASSUME Shaped, Unbegun, Owing, Exists, OnSend
  PROVE  QuietStep \/ TurnStep
<1>1. /\ Active \in Ids /\ th \in [Ids -> Thread] /\ input \in Texts /\ images \in Texts
      /\ None \in Texts
  BY ShownId DEF Shaped, Texts
<1>2. UNCHANGED << threads, active, used, dialogs, brief >> /\ input' = None
  BY DEF OnSend
<1>3. CASE EnqueueMessage(input)
  <2>1. /\ th' \in [Ids -> Thread] /\ images' \in Texts
        /\ \A c \in Ids : SameRun(th'[c], th[c]) /\ SameMarks(th'[c], th[c])
        /\ UNCHANGED << display, owed >>
    BY <1>1, <1>3, EnqueueIs
  <2> QED BY <1>1, <1>2, <2>1 DEF QuietStep, InRange, SameMarks
<1>4. CASE ~EnqueueMessage(input)
  <2>1. /\ th' = StartTurn(th, Active, input) /\ images' = None
        /\ display' = RefreshSessionChoice(threads, Active, th')
        /\ owed' = [owed EXCEPT ![Active] = "nothing"]
    BY <1>4 DEF OnSend
  <2>2. th' \in [Ids -> Thread] BY <1>1, <2>1, StartTurnIs
  <2>3. \A c \in Ids : /\ Settled(th'[c]) /\ th'[c].parent # c
                       /\ Kept(th'[c], th[c]) /\ SameMarks(th'[c], th[c])
    <3>1. <<>> \in Seq(Texts) OBVIOUS
    <3> QED BY <1>1, <2>1, <2>2, <3>1, BeginIs
  <2> QED BY <1>1, <1>2, <2>1, <2>2, <2>3, BeginStep DEF InRange
<1> QED BY <1>3, <1>4

\* The other steps of turns: one that begins by the run button, the queue's
\* next, one that ends, and a subagent's.
LEMMA TurnActions ==
  ASSUME Shaped, Unbegun, Owing, Exists,
         \/ OnContinueQueue \/ OnPlay
         \/ \E t \in Ids : OpenChild(t)
         \/ \E t \in Ids : \E how \in {"done", "stopped", "failed", "error"} : TurnEnds(t, how)
  PROVE  TurnStep
<1>1. /\ Active \in Ids /\ th \in [Ids -> Thread] /\ input \in Texts /\ images \in Texts
      /\ Active \in Texts /\ used \in Ids
  BY ShownId DEF Shaped, Texts
<1>2. CASE OnContinueQueue
  <2>1. PICK text, q : text = Head(th[Active].queue) /\ q = Tail(th[Active].queue) OBVIOUS
  <2>2. th[Active].queue \in Seq(Texts) BY <1>1 DEF Thread, Texts
  <2>3. th[Active].queue # <<>> BY <1>2 DEF OnContinueQueue, Hidden
  <2>4. text \in Texts /\ q \in Seq(Texts) BY <2>1, <2>2, <2>3
  <2>5. th' = NextTurn(th, Active) BY <1>2 DEF OnContinueQueue, NextTurn
  <2>6. th' \in [Ids -> Thread]
    <3>1. PICK S : S = NextTurn(th, Active) OBVIOUS
    <3>2. S \in [Ids -> Thread] BY <1>1, <2>3, <3>1, NextIs
    <3> QED BY <2>5, <3>1, <3>2
  <2>7. \A c \in Ids : /\ Settled(th'[c]) /\ th'[c].parent # c
                       /\ Kept(th'[c], th[c]) /\ SameMarks(th'[c], th[c])
    <3>1. PICK S : S = NextTurn(th, Active) OBVIOUS
    <3>2. /\ \A c \in Ids \ {Active} : S[c] = th[c]
          /\ Kept(S[Active], th[Active]) /\ Settled(S[Active])
          /\ SameMarks(S[Active], th[Active])
      BY <1>1, <2>3, <3>1, NextIs
    <3>3. \A c \in Ids : th[c].parent # c /\ Settled(th[c]) BY DEF Shaped, Unbegun, Settled
    <3> QED BY <1>1, <2>5, <3>1, <3>2, <3>3 DEF Kept, SameMarks
  <2> QED BY <1>1, <1>2, <2>6, <2>7, BeginStep DEF OnContinueQueue, InRange
<1>3. CASE OnPlay
  <2>1. th' = StartTurn(th, Active, Active) BY <1>3 DEF OnPlay
  <2>2. th' \in [Ids -> Thread] BY <1>1, <2>1, StartTurnIs
  <2>3. \A c \in Ids : /\ Settled(th'[c]) /\ th'[c].parent # c
                       /\ Kept(th'[c], th[c]) /\ SameMarks(th'[c], th[c])
    <3>1. <<>> \in Seq(Texts) OBVIOUS
    <3> QED BY <1>1, <2>1, <2>2, <3>1, BeginIs
  <2> QED BY <1>1, <1>3, <2>2, <2>3, BeginStep DEF OnPlay, InRange
<1>4. ASSUME NEW t \in Ids, NEW how, TurnEnds(t, how) PROVE TurnStep
  <2>1. /\ th' \in [Ids -> Thread]
        /\ \A c \in Ids : Kept(th'[c], th[c]) /\ Settled(th'[c])
        /\ th'[Active].unseen = th[Active].unseen
        /\ \A c \in Ids \ {Active} : /\ th[c].unseen => th'[c].unseen
                                     /\ th[c].notice => th'[c].notice
        /\ owed' \in [Ids -> {"nothing", "end", "failure"}]
        /\ \A c \in Ids \ Open : owed'[c] = owed[c]
        /\ \A c \in Ids \ {Active} :
             /\ owed'[c] = "failure" => th'[c].notice \/ owed[c] = "failure"
             /\ owed'[c] = "end" => th'[c].unseen \/ owed[c] = "end"
    BY <1>1, <1>4, TurnEndsIs DEF Owing
  <2>2. \A c \in Ids : th'[c].parent # c BY <2>1 DEF Shaped, Kept
  <2>3. /\ UNCHANGED << threads, active, used, dialogs, brief, input, images >>
        /\ display' = RefreshSessionChoice(threads, Active, th')
    BY <1>4 DEF TurnEnds
  <2>4. Opens /\ InRange BY <1>1, <2>1, <2>3 DEF Opens, InRange
  <2> QED BY <2>1, <2>2, <2>3, <2>4 DEF TurnStep
<1>5. ASSUME NEW t \in Ids, OpenChild(t) PROVE TurnStep
  <2>1. PICK id : id = used + 1 OBVIOUS
  <2>2. /\ id \in Ids /\ id > used /\ used' = id /\ threads' = Append(threads, id)
        /\ OpensInDialog \/ ~InDialog
        /\ t <= used
    <3>1. t <= used BY <1>5 DEF OpenChild, Open, Shaped
    <3>2. MayOpen /\ used' = used + 1 /\ threads' = Append(threads, used')
      BY <1>5 DEF OpenChild
    <3>3. used + 1 \in Ids BY <1>1, <3>2, FrameAssumption DEF MayOpen, Ids
    <3> QED BY <1>1, <2>1, <3>1, <3>2, <3>3 DEF MayOpen, Ids
  <2>3. id # Old /\ t # id /\ t \in Texts /\ id \in Texts /\ th[t].cwd \in Folders
    <3>1. th[t].cwd \in Folders BY <1>1 DEF Thread
    <3> QED BY <1>1, <2>2, <3>1 DEF Shaped, Texts, Ids, Old
  <2>4. PICK o : o = OpenThread(id, th[t].cwd, t) OBVIOUS
  <2>5. o \in Thread /\ o.parent = t /\ o.brief = brief[o.cwd]
    BY <2>3, <2>4, OpenThreadIs DEF Shaped
  <2>6. PICK R : R = [th EXCEPT ![id] = o] OBVIOUS
  <2>7. R \in [Ids -> Thread] /\ R[id] = o /\ \A c \in Ids \ {id} : R[c] = th[c]
    BY <1>1, <2>2, <2>5, <2>6, Writes1
  <2>8. th' = StartTurn(R, id, id) BY <1>5, <2>2, <2>4, <2>6 DEF OpenChild
  <2>9. /\ th' \in [Ids -> Thread]
        /\ \A c \in Ids \ {id} : th'[c] = R[c]
        /\ th'[id].cwd = R[id].cwd /\ th'[id].parent = R[id].parent
        /\ th'[id].brief = R[id].brief
        /\ th'[id].streaming /\ th'[id].begun /\ th'[id].turns > 0
    BY <2>2, <2>3, <2>7, <2>8, StartTurnIs
  <2>10. /\ UNCHANGED << active, dialogs, brief, input, images, owed >>
         /\ display' = RefreshSessionChoice(threads', Active, th')
    BY <1>5 DEF OpenChild
  <2>11. Opens
    <3>1. th'[used'].brief = brief[th'[used'].cwd] BY <2>2, <2>5, <2>7, <2>9
    <3> QED BY <2>1, <2>2, <2>10, <3>1 DEF Opens
  <2>12. InRange BY <1>1, <2>9, <2>10 DEF InRange
  <2>13. ASSUME NEW c \in Ids
         PROVE  /\ Settled(th'[c]) /\ th'[c].parent # c
                /\ c <= used => th'[c] = th[c]
    <3>1. CASE c = id BY <1>1, <2>2, <2>3, <2>5, <2>7, <2>9, <3>1 DEF Settled, Ids
    <3>2. CASE c # id
      <4>1. th'[c] = th[c] BY <2>7, <2>9, <3>2
      <4> QED BY <4>1 DEF Shaped, Unbegun, Settled
    <3> QED BY <3>1, <3>2
  <2>14. \A c \in Ids : c <= used => Kept(th'[c], th[c]) BY <2>13 DEF Kept
  <2>15. th'[Active] = th[Active] BY <1>1, <2>13, ShownId
  <2> QED BY <2>10, <2>11, <2>12, <2>13, <2>14, <2>15 DEF TurnStep, Owing
<1> QED BY <1>2, <1>3, <1>4, <1>5

----------------------------------------------------------------------------
(* Showing a thread, of the list as it is or of a longer one.              *)

Longer(T, R, id, f) ==
    /\ T = Append(threads, id)
    /\ R = [th EXCEPT ![id] = OpenThread(id, f, None)]
    /\ OpensInDialog \/ ~InDialog

Listed(T, R, new) ==
    \/ T = threads /\ R = th /\ used' = used /\ ~new
    \/ \E id \in Ids, f \in Folders :
         /\ Longer(T, R, id, f)
         /\ \/ id = Old /\ Old \notin Open /\ used' = used /\ ~new
            \/ id = used + 1 /\ used' = id

\* NewThread, SelectThread and SwitchToCwd all come to showing a thread of such
\* a list.
LEMMA ShowIs ==
  ASSUME Shaped, Exists, Show
  PROVE  \E T, R, i, new : /\ Listed(T, R, new) /\ i \in DOMAIN T /\ ShowThread(T, R, i, new)
                           /\ brief' = brief /\ new \in BOOLEAN
                           /\ new => i = Len(T) /\ Len(T) = Len(threads) + 1 /\ T[i] = used + 1
<1>1. used \in Ids /\ threads \in Seq(Ids) BY DEF Shaped
<1>2. MayOpen => used + 1 \in Ids BY <1>1, FrameAssumption DEF MayOpen, Ids
<1>3. ASSUME NEW f \in Folders, NEW new \in BOOLEAN, MayOpen, used' = used + 1, brief' = brief,
             ShowThread(Append(threads, used'), [th EXCEPT ![used'] = OpenThread(used', f, None)],
                        Len(threads) + 1, new)
      PROVE  \E T, R, i, n : /\ Listed(T, R, n) /\ i \in DOMAIN T /\ ShowThread(T, R, i, n)
                             /\ brief' = brief /\ n \in BOOLEAN
                             /\ n => i = Len(T) /\ Len(T) = Len(threads) + 1 /\ T[i] = used + 1
  <2>1. PICK id : id = used + 1 OBVIOUS
  <2>2. PICK T, R, i : /\ T = Append(threads, id)
                       /\ R = [th EXCEPT ![id] = OpenThread(id, f, None)]
                       /\ i = Len(threads) + 1
    OBVIOUS
  <2>3. id \in Ids /\ used' = id BY <1>2, <1>3, <2>1
  <2>4. Longer(T, R, id, f) BY <1>3, <2>2 DEF Longer, MayOpen
  <2>5. Listed(T, R, new) BY <2>1, <2>3, <2>4 DEF Listed
  <2>6. i \in DOMAIN T /\ i = Len(T) /\ Len(T) = Len(threads) + 1 /\ T[i] = used + 1
    BY <1>1, <2>1, <2>2, <2>3
  <2>7. ShowThread(T, R, i, new) BY <1>3, <2>2, <2>3
  <2> QED BY <1>3, <2>5, <2>6, <2>7
<1>4. ASSUME NEW id \in Ids, SelectThread(id)
      PROVE  \E T, R, i, n : /\ Listed(T, R, n) /\ i \in DOMAIN T /\ ShowThread(T, R, i, n)
                             /\ brief' = brief /\ n \in BOOLEAN
                             /\ n => i = Len(T) /\ Len(T) = Len(threads) + 1 /\ T[i] = used + 1
  <2>1. used' = used /\ brief' = brief BY <1>4 DEF SelectThread
  <2>2. CASE \E i \in DOMAIN threads : threads[i] = id /\ ShowThread(threads, th, i, FALSE)
    <3>1. Listed(threads, th, FALSE) BY <2>1 DEF Listed
    <3> QED BY <2>1, <2>2, <3>1
  <2>3. CASE /\ id = Old /\ id \notin Open
             /\ OpensInDialog \/ ~InDialog
             /\ ShowThread(Append(threads, id), [th EXCEPT ![id] = OpenThread(id, Away, None)],
                           Len(threads) + 1, FALSE)
    <3>1. PICK T, R, i : /\ T = Append(threads, id)
                         /\ R = [th EXCEPT ![id] = OpenThread(id, Away, None)]
                         /\ i = Len(threads) + 1
      OBVIOUS
    <3>2. Longer(T, R, id, Away) /\ Away \in Folders
      BY <2>3, <3>1, FrameAssumption DEF Longer
    <3>3. Listed(T, R, FALSE) BY <2>1, <2>3, <3>2 DEF Listed
    <3>4. i \in DOMAIN T BY <1>1, <3>1
    <3> QED BY <2>1, <2>3, <3>1, <3>3, <3>4
  <2> QED BY <1>4, <2>2, <2>3 DEF SelectThread
<1>5. ASSUME NEW f \in Folders, NewThread(f)
      PROVE  \E T, R, i, n : /\ Listed(T, R, n) /\ i \in DOMAIN T /\ ShowThread(T, R, i, n)
                             /\ brief' = brief /\ n \in BOOLEAN
                             /\ n => i = Len(T) /\ Len(T) = Len(threads) + 1 /\ T[i] = used + 1
  BY <1>3, <1>5 DEF NewThread
<1>6. ASSUME NEW f \in Folders, SwitchToCwd(f)
      PROVE  \E T, R, i, n : /\ Listed(T, R, n) /\ i \in DOMAIN T /\ ShowThread(T, R, i, n)
                             /\ brief' = brief /\ n \in BOOLEAN
                             /\ n => i = Len(T) /\ Len(T) = Len(threads) + 1 /\ T[i] = used + 1
  <2>1. PICK mine : mine = {t \in Open \cup {Old} :
                   (IF t \in Open THEN th[t].cwd = f ELSE f = Away) /\ th[t].parent = None}
    OBVIOUS
  <2>2. mine \subseteq Ids
    <3>1. Old \in Ids BY <1>1, FrameAssumption DEF Shaped, Ids, Old
    <3> QED BY <1>1, <2>1, <3>1 DEF Open
  <2>3. CASE mine # {} BY <1>4, <1>6, <2>1, <2>2, <2>3 DEF SwitchToCwd
  <2>4. CASE mine = {} BY <1>3, <1>6, <2>1, <2>4 DEF SwitchToCwd
  <2> QED BY <2>3, <2>4
<1> QED BY <1>4, <1>5, <1>6 DEF Show

\* What a longer list's data have in common with the list's.
LEMMA ListedIs ==
  ASSUME Shaped, Unbegun, Exists, NEW T, NEW R, NEW new, Listed(T, R, new)
  PROVE  /\ T \in Seq(Ids) /\ R \in [Ids -> Thread] /\ used' \in Ids /\ used <= used'
         /\ \A j \in DOMAIN T : T[j] <= used'
         /\ active \in DOMAIN T /\ T[active] = Active
         /\ \A j \in DOMAIN threads : j \in DOMAIN T /\ T[j] = threads[j]
         /\ \A c \in Ids : Settled(R[c]) /\ R[c].parent # c
         /\ \A c \in Open : R[c] = th[c]
         /\ \A j \in DOMAIN T : \/ T[j] \in Open
                                \/ /\ R[T[j]].brief = brief[R[T[j]].cwd]
                                   /\ ~R[T[j]].unseen /\ ~R[T[j]].notice
                                   /\ T[j] > used \/ T[j] = Old
<1>1. /\ threads \in Seq(Ids) /\ used \in Ids /\ th \in [Ids -> Thread] /\ Old <= used
      /\ \A c \in Ids : Settled(th[c]) /\ th[c].parent # c
      /\ \A j \in DOMAIN threads : threads[j] <= used
      /\ brief \in [Folders -> BOOLEAN]
  BY DEF Shaped, Unbegun, Settled
<1>2. CASE T = threads /\ R = th /\ used' = used
  BY <1>1, <1>2 DEF Exists, Active, Open, Ids
<1>3. ASSUME NEW id \in Ids, NEW f \in Folders, Longer(T, R, id, f),
             \/ id = Old /\ Old \notin Open /\ used' = used
             \/ id = used + 1 /\ used' = id
      PROVE  /\ T \in Seq(Ids) /\ R \in [Ids -> Thread] /\ used' \in Ids /\ used <= used'
             /\ \A j \in DOMAIN T : T[j] <= used'
             /\ active \in DOMAIN T /\ T[active] = Active
             /\ \A j \in DOMAIN threads : j \in DOMAIN T /\ T[j] = threads[j]
             /\ \A c \in Ids : Settled(R[c]) /\ R[c].parent # c
             /\ \A c \in Open : R[c] = th[c]
             /\ \A j \in DOMAIN T : \/ T[j] \in Open
                                    \/ /\ R[T[j]].brief = brief[R[T[j]].cwd]
                                       /\ ~R[T[j]].unseen /\ ~R[T[j]].notice
                                       /\ T[j] > used \/ T[j] = Old
  <2>1. PICK o : o = OpenThread(id, f, None) OBVIOUS
  <2>2. None \in Texts /\ None # id BY DEF Texts, None, Ids
  <2>3. /\ o \in Thread /\ o.cwd = f /\ o.parent = None /\ o.brief = brief[o.cwd]
        /\ ~o.unseen /\ ~o.notice /\ Settled(o)
    BY <1>1, <2>1, <2>2, OpenThreadIs
  <2>4. T = Append(threads, id) /\ R = [th EXCEPT ![id] = o] BY <1>3, <2>1 DEF Longer
  <2>5. R \in [Ids -> Thread] /\ R[id] = o /\ \A c \in Ids \ {id} : R[c] = th[c]
    BY <1>1, <2>3, <2>4, Writes1
  <2>6. /\ T \in Seq(Ids) /\ DOMAIN T = 1 .. Len(threads) + 1 /\ DOMAIN threads = 1 .. Len(threads)
        /\ Len(threads) \in Nat
        /\ T[Len(threads) + 1] = id
        /\ \A j \in DOMAIN threads : T[j] = threads[j]
    BY <1>1, <2>4
  <2>7. used' \in Ids /\ used <= used' /\ id <= used' BY <1>1, <1>3 DEF Ids
  <2>8. \A j \in DOMAIN T : T[j] \in Open \/ T[j] = id BY <2>6 DEF Open
  <2>9. \A c \in Open : c \in Ids /\ c <= used BY <1>1 DEF Open
  <2>10. id \notin Open BY <1>1, <1>3, <2>9 DEF Ids
  <2>11. \A j \in DOMAIN T : T[j] <= used' BY <1>1, <2>7, <2>8, <2>9 DEF Ids
  <2>12. \A c \in Open : R[c] = th[c] BY <2>5, <2>9, <2>10
  <2>13. \A c \in Ids : Settled(R[c]) /\ R[c].parent # c BY <1>1, <2>2, <2>3, <2>5
  <2>14. active \in DOMAIN T /\ T[active] = Active BY <2>6 DEF Exists, Active
  <2>15. \A j \in DOMAIN threads : j \in DOMAIN T /\ T[j] = threads[j] BY <2>6
  <2>16. \A j \in DOMAIN T : \/ T[j] \in Open
                             \/ /\ R[T[j]].brief = brief[R[T[j]].cwd]
                                /\ ~R[T[j]].unseen /\ ~R[T[j]].notice
                                /\ T[j] > used \/ T[j] = Old
    <3>1. id > used \/ id = Old BY <1>1, <1>3 DEF Ids
    <3> QED BY <2>3, <2>5, <2>8, <3>1
  <2> QED BY <2>5, <2>6, <2>7, <2>11, <2>12, <2>13, <2>14, <2>15, <2>16
<1> QED BY <1>2, <1>3 DEF Listed

----------------------------------------------------------------------------
(* A brief reaches every thread that has not begun.                        *)

\* What keeps Base: threads that stay open keep what they are told, and those
\* that come have their folder's brief.
LEMMA BaseKept ==
  ASSUME Base, InRange, threads' \in Seq(Ids), used' \in Ids, used <= used',
         \A j \in DOMAIN threads' : threads'[j] <= used',
         active' \in Nat, brief' = brief,
         \A c \in Ids : Settled(th'[c]) /\ th'[c].parent # c,
         \A j \in DOMAIN threads' :
           \/ threads'[j] \in Open /\ Kept(th'[threads'[j]], th[threads'[j]])
           \/ th'[threads'[j]].brief = brief[th'[threads'[j]].cwd]
  PROVE  Base'
<1>1. /\ Old <= used /\ used \in Ids /\ brief \in [Folders -> BOOLEAN]
  BY DEF Base, Shaped
<1>2. Shaped' BY <1>1 DEF Shaped, InRange, Ids, Old
<1>3. Unbegun' BY DEF Unbegun, Settled
<1>4. BriefReachesNew'
  <2>1. ASSUME NEW j \in DOMAIN threads', brief[th'[threads'[j]].cwd], ~th'[threads'[j]].begun
        PROVE  th'[threads'[j]].brief
    <3>1. PICK t : t = threads'[j] OBVIOUS
    <3>2. CASE t \in Open /\ Kept(th'[t], th[t])
      <4>1. brief[th[t].cwd] /\ ~th[t].begun BY <2>1, <3>1, <3>2 DEF Kept
      <4>2. th[t].brief BY <3>2, <4>1 DEF Base, BriefReachesNew
      <4> QED BY <3>1, <3>2, <4>2 DEF Kept
    <3>3. CASE th'[t].brief = brief[th'[t].cwd] BY <2>1, <3>1, <3>3
    <3> QED BY <3>1, <3>2, <3>3
  <2> QED BY <2>1 DEF BriefReachesNew, Open
<1> QED BY <1>2, <1>3, <1>4 DEF Base

\* A quiet step keeps it.
LEMMA BaseQuiet ==
  ASSUME Base, QuietStep
  PROVE  Base'
<1>1. /\ threads \in Seq(Ids) /\ used \in Ids /\ active \in Nat
      /\ \A j \in DOMAIN threads : threads[j] <= used /\ threads[j] \in Ids
      /\ \A c \in Ids : Settled(th[c]) /\ th[c].parent # c
  BY DEF Base, Shaped, Unbegun, Settled
<1>2. \A c \in Ids : Settled(th'[c]) /\ th'[c].parent # c /\ Kept(th'[c], th[c])
  BY <1>1 DEF QuietStep, SameRun, Settled, Kept
<1>3. \A j \in DOMAIN threads : threads[j] \in Open BY DEF Open
<1>4. /\ threads' = threads /\ used' = used /\ active' = active /\ brief' = brief /\ InRange
      /\ used <= used
  BY <1>1 DEF QuietStep, Ids
<1> QED BY <1>1, <1>2, <1>3, <1>4, BaseKept

\* The step of a turn keeps it.
LEMMA BaseTurn ==
  ASSUME Base, TurnStep
  PROVE  Base'
<1>1. /\ threads \in Seq(Ids) /\ used \in Ids /\ active \in Nat
      /\ \A j \in DOMAIN threads : threads[j] <= used /\ threads[j] \in Ids
  BY DEF Base, Shaped
<1>2. /\ \A c \in Ids : Settled(th'[c]) /\ th'[c].parent # c
      /\ \A c \in Ids : c <= used => Kept(th'[c], th[c])
      /\ active' = active /\ brief' = brief /\ InRange
  BY DEF TurnStep
<1>3. \A j \in DOMAIN threads : threads[j] \in Open /\ Kept(th'[threads[j]], th[threads[j]])
  BY <1>1, <1>2 DEF Open
<1>4. CASE UNCHANGED << threads, used >>
  <2>1. used <= used BY <1>1 DEF Ids
  <2> QED BY <1>1, <1>2, <1>3, <1>4, <2>1, BaseKept
<1>5. CASE /\ used + 1 \in Ids /\ used' = used + 1 /\ threads' = Append(threads, used')
           /\ th'[used'].brief = brief[th'[used'].cwd]
  <2>1. /\ threads' \in Seq(Ids) /\ used' \in Ids /\ used <= used'
        /\ DOMAIN threads' = 1 .. Len(threads) + 1 /\ DOMAIN threads = 1 .. Len(threads)
        /\ Len(threads) \in Nat
        /\ \A j \in DOMAIN threads : threads'[j] = threads[j]
        /\ threads'[Len(threads) + 1] = used'
    BY <1>1, <1>5 DEF Ids
  <2>2. \A j \in DOMAIN threads' : j \in DOMAIN threads \/ threads'[j] = used' BY <2>1
  <2>3. \A j \in DOMAIN threads' : threads'[j] <= used' BY <1>1, <2>1, <2>2 DEF Ids
  <2>4. \A j \in DOMAIN threads' :
          \/ threads'[j] \in Open /\ Kept(th'[threads'[j]], th[threads'[j]])
          \/ th'[threads'[j]].brief = brief[th'[threads'[j]].cwd]
    BY <1>3, <1>5, <2>1, <2>2
  <2> QED BY <1>1, <1>2, <2>1, <2>3, <2>4, BaseKept
<1> QED BY <1>4, <1>5 DEF TurnStep, Opens

\* What showing a thread does to the threads' data.
LEMMA ShowThreadIs ==
  ASSUME Shaped, Unbegun, Exists, NEW T, NEW R, NEW i, NEW new, Listed(T, R, new),
         i \in DOMAIN T, ShowThread(T, R, i, new)
  PROVE  /\ threads' = T /\ InRange /\ active' \in Nat
         /\ \A c \in Ids : SameRun(th'[c], R[c])
         /\ \/ /\ ~(R[T[i]].cwd # R[Active].cwd /\ dirty) /\ Shows(T, R, i)
               /\ dialogs' = dialogs
            \/ /\ th' = R /\ UNCHANGED << active, display, owed >>
               /\ \/ dialogs' = dialogs /\ i = active
                  \/ i # active /\ dialogs' = Append(dialogs, [new |-> new, index |-> i])
<1>1. /\ T \in Seq(Ids) /\ R \in [Ids -> Thread] /\ Active \in Ids
      /\ input \in Texts /\ images \in Texts /\ active \in Nat
  BY ShownId, ListedIs DEF Shaped
<1>2. CASE /\ i # active /\ ~(R[T[i]].cwd # R[Active].cwd /\ dirty)
           /\ Shows(T, R, i) /\ dialogs' = dialogs
  <2>1. i \in Nat BY <1>1
  <2>2. /\ threads' = T /\ active' = i /\ th' \in [Ids -> Thread]
        /\ input' \in Texts /\ images' \in Texts
        /\ \A c \in Ids : SameRun(th'[c], R[c])
    BY <1>1, <1>2, ShowsIs
  <2> QED BY <1>2, <2>1, <2>2 DEF InRange
<1>3. CASE /\ threads' = T /\ th' = R
           /\ UNCHANGED << active, input, images, display, owed >>
           /\ \/ dialogs' = dialogs /\ i = active
              \/ i # active /\ dialogs' = Append(dialogs, [new |-> new, index |-> i])
  BY <1>1, <1>3 DEF InRange, SameRun
<1> QED BY <1>2, <1>3 DEF ShowThread

\* Showing a thread keeps it.
LEMMA BaseShow ==
  ASSUME Base, Exists, Show
  PROVE  Base'
<1>1. Shaped /\ Unbegun BY DEF Base
<1>2. PICK T, R, i, new : /\ Listed(T, R, new) /\ i \in DOMAIN T /\ ShowThread(T, R, i, new)
                          /\ brief' = brief
  BY <1>1, ShowIs
<1>3. /\ T \in Seq(Ids) /\ R \in [Ids -> Thread] /\ used' \in Ids /\ used <= used'
      /\ \A j \in DOMAIN T : T[j] <= used'
      /\ \A c \in Ids : Settled(R[c]) /\ R[c].parent # c
      /\ \A c \in Open : R[c] = th[c]
      /\ \A j \in DOMAIN T : T[j] \in Open \/ R[T[j]].brief = brief[R[T[j]].cwd]
  BY <1>1, <1>2, ListedIs
<1>4. /\ threads' = T /\ InRange /\ active' \in Nat
      /\ \A c \in Ids : SameRun(th'[c], R[c])
  BY <1>1, <1>2, ShowThreadIs
<1>5. \A c \in Ids : Settled(th'[c]) /\ th'[c].parent # c
  BY <1>3, <1>4 DEF SameRun, Settled
<1>6. \A j \in DOMAIN T : \/ T[j] \in Open /\ Kept(th'[T[j]], th[T[j]])
                          \/ th'[T[j]].brief = brief[th'[T[j]].cwd]
  <2> TAKE j \in DOMAIN T
  <2>1. T[j] \in Ids BY <1>3
  <2> QED BY <1>3, <1>4, <2>1 DEF SameRun, Kept
<1> QED BY <1>2, <1>3, <1>4, <1>5, <1>6, BaseKept

\* An answered dialog keeps it.
LEMMA BaseAnswer ==
  ASSUME Base, Exists, NEW go \in BOOLEAN, Answer(go)
  PROVE  Base'
<1>1. /\ threads \in Seq(Ids) /\ used \in Ids /\ active \in Nat /\ th \in [Ids -> Thread]
      /\ input \in Texts /\ images \in Texts /\ Active \in Ids
      /\ \A j \in DOMAIN threads : threads[j] <= used /\ threads[j] \in Ids
      /\ \A c \in Ids : Settled(th[c]) /\ th[c].parent # c
  BY ShownId DEF Base, Shaped, Unbegun, Settled
<1>2. used' = used /\ brief' = brief /\ used <= used BY <1>1 DEF Answer, Ids
<1>3. PICK d : d = dialogs[Len(dialogs)] OBVIOUS
<1>4. CASE d.index \in DOMAIN threads /\ Shows(threads, th, d.index)
  <2>1. /\ threads' = threads /\ active' = d.index /\ th' \in [Ids -> Thread]
        /\ input' \in Texts /\ images' \in Texts
        /\ \A c \in Ids : SameRun(th'[c], th[c])
    BY <1>1, <1>4, ShowsIs
  <2>2. InRange /\ active' \in Nat BY <1>1, <1>4, <2>1 DEF InRange
  <2>3. \A c \in Ids : Settled(th'[c]) /\ th'[c].parent # c /\ Kept(th'[c], th[c])
    BY <1>1, <2>1 DEF SameRun, Settled, Kept
  <2>4. \A j \in DOMAIN threads : threads[j] \in Open BY DEF Open
  <2> QED BY <1>1, <1>2, <2>1, <2>2, <2>3, <2>4, BaseKept
<1>5. CASE /\ threads' = IF d.new THEN SubSeq(threads, 1, Len(threads) - 1) ELSE threads
           /\ UNCHANGED << active, th, input, images >>
  <2>1. /\ threads' \in Seq(Ids)
        /\ \A j \in DOMAIN threads' : j \in DOMAIN threads /\ threads'[j] = threads[j]
    <3>1. CASE ~d.new BY <1>1, <1>5, <3>1
    <3>2. CASE d.new
      <4>1. Len(threads) \in Nat /\ Len(threads) > 0 BY <1>1 DEF Exists
      <4>2. threads' = SubSeq(threads, 1, Len(threads) - 1) BY <1>5, <3>2
      <4> QED BY <1>1, <4>1, <4>2
    <3> QED BY <3>1, <3>2
  <2>2. InRange BY <1>1, <1>5 DEF InRange
  <2>3. \A j \in DOMAIN threads' :
          /\ threads'[j] \in Open /\ Kept(th'[threads'[j]], th[threads'[j]])
          /\ threads'[j] <= used'
    BY <1>1, <1>2, <1>5, <2>1 DEF Open, Kept
  <2>4. active' \in Nat /\ \A c \in Ids : Settled(th'[c]) /\ th'[c].parent # c BY <1>1, <1>5
  <2> QED BY <1>1, <1>2, <2>1, <2>2, <2>3, <2>4, BaseKept
<1> QED BY <1>3, <1>4, <1>5 DEF Answer

\* What a written brief does to the threads' data: it reaches those of its
\* folder that have no turn.
LEMMA BriefWritten ==
  ASSUME Shaped, Exists, NEW f \in Folders, NEW ok \in BOOLEAN, OnBriefWritten(f, ok)
  PROVE  /\ th' \in [Ids -> Thread]
         /\ \A c \in Ids :
              LET r == th'[c]
                  s == th[c]
              IN  /\ r.cwd = s.cwd /\ r.parent = s.parent /\ r.streaming = s.streaming
                  /\ r.begun = s.begun /\ r.turns = s.turns /\ r.unseen = s.unseen
                  /\ c # Active => r.notice = s.notice
                  /\ r.brief = (IF ok /\ c \in Open /\ s.cwd = f /\ ~Started(c)
                                THEN TRUE ELSE s.brief)
         /\ brief' = [brief EXCEPT ![f] = brief[f] \/ ok]
         /\ UNCHANGED << threads, active, used, input, images, dialogs, display, owed >>
<1>1. th \in [Ids -> Thread] /\ Active \in Ids BY ShownId DEF Shaped
<1>2. PICK With : With = IF ok THEN Given(f) ELSE th OBVIOUS
<1>3. /\ With \in [Ids -> Thread]
      /\ \A c \in Ids :
           LET r == With[c]
               s == th[c]
           IN  /\ r.cwd = s.cwd /\ r.parent = s.parent /\ r.streaming = s.streaming
               /\ r.begun = s.begun /\ r.turns = s.turns /\ r.unseen = s.unseen
               /\ r.notice = s.notice
               /\ r.brief = (IF ok /\ c \in Open /\ s.cwd = f /\ ~Started(c)
                             THEN TRUE ELSE s.brief)
  <2>1. CASE ok
    <3>1. With = [t \in Ids |-> IF t \in Open /\ th[t].cwd = f /\ ~Started(t)
                                THEN [th[t] EXCEPT !.brief = TRUE] ELSE th[t]]
      BY <1>2, <2>1 DEF Given
    <3>2. ASSUME NEW c \in Ids
          PROVE  LET r == With[c]
                     s == th[c]
                 IN  /\ r \in Thread
                     /\ r.cwd = s.cwd /\ r.parent = s.parent /\ r.streaming = s.streaming
                     /\ r.begun = s.begun /\ r.turns = s.turns /\ r.unseen = s.unseen
                     /\ r.notice = s.notice
                     /\ r.brief = (IF ok /\ c \in Open /\ s.cwd = f /\ ~Started(c)
                                   THEN TRUE ELSE s.brief)
      <4>1. th[c] \in Thread BY <1>1
      <4>2. CASE c \in Open /\ th[c].cwd = f /\ ~Started(c)
        <5>1. PICK s : s = [th[c] EXCEPT !.brief = TRUE] OBVIOUS
        <5>2. /\ s \in Thread /\ SameMarks(s, th[c]) /\ s.cwd = th[c].cwd
              /\ s.parent = th[c].parent /\ s.streaming = th[c].streaming
              /\ s.begun = th[c].begun /\ s.turns = th[c].turns /\ s.brief = TRUE
          BY <4>1, <5>1 DEF Thread, SameMarks
        <5>3. With[c] = s BY <3>1, <4>2, <5>1
        <5> QED BY <2>1, <4>2, <5>2, <5>3 DEF SameMarks
      <4>3. CASE ~(c \in Open /\ th[c].cwd = f /\ ~Started(c))
        <5>1. With[c] = th[c] BY <3>1, <4>3
        <5> QED BY <4>1, <4>3, <5>1
      <4> QED BY <4>2, <4>3
    <3> QED BY <3>1, <3>2
  <2>2. CASE ~ok BY <1>1, <1>2, <2>2
  <2> QED BY <2>1, <2>2
<1>4. th' = With \/ th' = [With EXCEPT ![Active].notice = FALSE]
  BY <1>2, Zenon DEF OnBriefWritten
<1>5. /\ th' \in [Ids -> Thread]
      /\ \A c \in Ids : /\ SameRun(th'[c], With[c]) /\ th'[c].unseen = With[c].unseen
                        /\ c # Active => th'[c].notice = With[c].notice
  <2>1. CASE th' = With BY <1>3, <2>1 DEF SameRun
  <2>2. CASE th' = [With EXCEPT ![Active].notice = FALSE]
    <3>1. PICK s : s = [With[Active] EXCEPT !.notice = FALSE] OBVIOUS
    <3>2. s \in Thread /\ SameRun(s, With[Active]) /\ s.unseen = With[Active].unseen
      <4>1. With[Active] \in Thread BY <1>1, <1>3
      <4> QED BY <3>1, <4>1 DEF Thread, SameRun
    <3>3. th' = [With EXCEPT ![Active] = s] BY <1>1, <1>3, <2>2, <3>1
    <3>4. th' \in [Ids -> Thread] /\ th'[Active] = s /\ \A c \in Ids \ {Active} : th'[c] = With[c]
      BY <1>1, <1>3, <3>2, <3>3, Writes1
    <3> QED BY <3>2, <3>4 DEF SameRun
  <2> QED BY <1>4, <2>1, <2>2
<1>6. /\ brief' = [brief EXCEPT ![f] = brief[f] \/ ok]
      /\ UNCHANGED << threads, active, used, input, images, dialogs, display, owed >>
  BY DEF OnBriefWritten
<1>7. ASSUME NEW c \in Ids
      PROVE  LET r == th'[c]
                 s == th[c]
             IN  /\ r.cwd = s.cwd /\ r.parent = s.parent /\ r.streaming = s.streaming
                 /\ r.begun = s.begun /\ r.turns = s.turns /\ r.unseen = s.unseen
                 /\ c # Active => r.notice = s.notice
                 /\ r.brief = (IF ok /\ c \in Open /\ s.cwd = f /\ ~Started(c)
                               THEN TRUE ELSE s.brief)
  <2>1. /\ SameRun(th'[c], With[c]) /\ th'[c].unseen = With[c].unseen
        /\ c # Active => th'[c].notice = With[c].notice
    BY <1>5
  <2> QED BY <1>3, <2>1 DEF SameRun
<1> QED BY <1>5, <1>6, <1>7

\* A written brief keeps it: the threads that have no turn are given it.
LEMMA BaseBrief ==
  ASSUME Base, Exists, NEW f \in Folders, NEW ok \in BOOLEAN, OnBriefWritten(f, ok)
  PROVE  Base'
<1>1. Shaped /\ Unbegun /\ BriefReachesNew BY DEF Base
<1>2. /\ th' \in [Ids -> Thread]
      /\ \A c \in Ids :
           LET r == th'[c]
               s == th[c]
           IN  /\ r.cwd = s.cwd /\ r.parent = s.parent /\ r.streaming = s.streaming
               /\ r.begun = s.begun /\ r.turns = s.turns
               /\ r.brief = (IF ok /\ c \in Open /\ s.cwd = f /\ ~Started(c)
                             THEN TRUE ELSE s.brief)
      /\ brief' = [brief EXCEPT ![f] = brief[f] \/ ok]
      /\ UNCHANGED << threads, active, used, input, images >>
  BY <1>1, BriefWritten
<1>3. \A j \in DOMAIN threads : threads[j] \in Ids BY <1>1 DEF Shaped
<1>4. brief' \in [Folders -> BOOLEAN]
  <2>1. brief \in [Folders -> BOOLEAN] BY <1>1 DEF Shaped
  <2>2. (brief[f] \/ ok) \in BOOLEAN OBVIOUS
  <2> QED BY <1>2, <2>1, <2>2
<1>5. Shaped' BY <1>1, <1>2, <1>4 DEF Shaped
<1>6. Unbegun' BY <1>1, <1>2 DEF Unbegun
<1>7. BriefReachesNew'
  <2>1. ASSUME NEW t \in Open, brief'[th'[t].cwd], ~th'[t].begun PROVE th'[t].brief
    <3>1. t \in Ids BY <1>3 DEF Open
    <3>2. PICK g : g = th[t].cwd OBVIOUS
    <3>3. th'[t].cwd = g /\ ~th[t].begun /\ g \in Folders
      <4>1. th[t].cwd \in Folders BY <1>1, <3>1 DEF Shaped, Thread
      <4> QED BY <1>2, <2>1, <3>1, <3>2, <4>1
    <3>4. ~Started(t) BY <1>1, <3>1, <3>3 DEF Unbegun, Started
    <3>5. CASE ok /\ g = f BY <1>2, <3>1, <3>2, <3>4, <3>5
    <3>6. CASE ~(ok /\ g = f)
      <4>1. brief[g]
        <5>1. brief \in [Folders -> BOOLEAN] BY <1>1 DEF Shaped
        <5>2. brief'[g] BY <2>1, <3>3
        <5>3. CASE g = f
          <6>1. brief'[g] = (brief[f] \/ ok) BY <1>2, <5>1, <5>3
          <6> QED BY <3>6, <5>2, <5>3, <6>1
        <5>4. CASE g # f
          <6>1. brief'[g] = brief[g] BY <1>2, <3>3, <5>1, <5>4
          <6> QED BY <5>2, <6>1
        <5> QED BY <5>3, <5>4
      <4>2. th[t].brief BY <1>1, <3>2, <3>3, <4>1 DEF BriefReachesNew
      <4> QED BY <1>2, <3>1, <3>2, <3>6, <4>2
    <3> QED BY <3>5, <3>6
  <2>2. Open' = Open BY <1>2 DEF Open
  <2> QED BY <2>1, <2>2 DEF BriefReachesNew
<1> QED BY <1>5, <1>6, <1>7 DEF Base

\* The sorts of steps there are.
LEMMA StepIs ==
  ASSUME Shaped, Unbegun, Owing, Exists, Next
  PROVE  \/ QuietStep \/ TurnStep \/ Show
         \/ \E go \in BOOLEAN : Answer(go)
         \/ PaneTick
         \/ \E f \in Folders, ok \in BOOLEAN : OnBriefWritten(f, ok)
<1>1. CASE Send BY <1>1, SendIs DEF Send
<1>2. CASE PostedSend
  <2>1. CASE OnSend BY <2>1, SendIs
  <2>2. CASE UNCHANGED << threads, active, used, th, input, images, sent, loading, dirty,
                          dialogs, job, brief, display, owed >>
    BY <2>2 DEF QuietStep, InRange, SameRun, Shaped
  <2> QED BY <1>2, <2>1, <2>2 DEF PostedSend
<1>3. CASE \/ Type \/ Attach \/ OnClearQueue \/ EditFile \/ SetInput \/ McpSend \/ RestoreSession
           \/ \E t \in Ids : RequestCancel(t)
  BY <1>3, QuietActions
<1>4. CASE \/ OnContinueQueue \/ OnPlay
           \/ \E t \in Ids : OpenChild(t)
           \/ \E t \in Ids : \E how \in {"done", "stopped", "failed", "error"} : TurnEnds(t, how)
  BY <1>4, TurnActions
<1> QED BY <1>1, <1>2, <1>3, <1>4 DEF Next, UserNext, EventNext

\* What is owed stays in range.
LEMMA OwingKept ==
  ASSUME Shaped, Unbegun, Owing, [Next]_vars
  PROVE  Owing'
<1>1. CASE UNCHANGED vars BY <1>1 DEF vars, Owing
<1>2. CASE Next
  <2>1. Exists BY <1>2 DEF Next
  <2>2. CASE QuietStep BY <2>2 DEF QuietStep, Owing
  <2>3. CASE TurnStep BY <2>3 DEF TurnStep, Owing
  <2>4. ASSUME NEW o, NEW u, owed' = [owed EXCEPT ![o] = "nothing",
                                                 ![u] = IF @ = "failure" THEN @ ELSE "nothing"]
        PROVE  Owing'
    BY <2>4 DEF Owing
  <2>5. CASE Show
    <3>1. PICK T, R, i, new : ShowThread(T, R, i, new) BY <2>1, <2>5, ShowIs
    <3>2. CASE owed' = owed BY <3>2 DEF Owing
    <3>3. CASE Shows(T, R, i) BY <2>4, <3>3 DEF Shows
    <3> QED BY <3>1, <3>2, <3>3 DEF ShowThread
  <2>6. CASE \E go \in BOOLEAN : Answer(go)
    <3>1. CASE owed' = owed BY <3>1 DEF Owing
    <3>2. ASSUME NEW i, Shows(threads, th, i) PROVE Owing' BY <2>4, <3>2 DEF Shows
    <3> QED BY <2>6, <3>1, <3>2 DEF Answer
  <2>7. CASE PaneTick BY <2>7 DEF PaneTick, Owing
  <2>8. CASE \E f \in Folders, ok \in BOOLEAN : OnBriefWritten(f, ok)
    BY <2>8 DEF OnBriefWritten, Owing
  <2> QED BY <1>2, <2>1, <2>2, <2>3, <2>5, <2>6, <2>7, <2>8, StepIs
<1> QED BY <1>1, <1>2

\* Every step keeps Base.
LEMMA BaseNext ==
  ASSUME Base, Owing, [Next]_vars
  PROVE  Base'
<1>1. CASE UNCHANGED vars
  BY <1>1 DEF vars, Base, Shaped, Unbegun, BriefReachesNew, Open
<1>2. CASE Next
  <2>1. Exists /\ Shaped /\ Unbegun BY <1>2 DEF Next, Base
  <2>2. CASE PaneTick
    BY <2>2 DEF PaneTick, Base, Shaped, Unbegun, BriefReachesNew, Open
  <2> QED BY <1>2, <2>1, <2>2, BaseQuiet, BaseTurn, BaseShow, BaseAnswer, BaseBrief, StepIs
<1> QED BY <1>1, <1>2

\* The start: one thread, with its folder's brief.
LEMMA BaseInit ==
  ASSUME Init
  PROVE  Base /\ Owing
<1>1. PICK u : u = Unopened OBVIOUS
<1>2. /\ u \in Thread /\ u.turns = 0 /\ ~u.streaming /\ u.cwd = Home /\ u.parent = None
      /\ ~u.unseen /\ ~u.notice
  <2>1. None \in Texts /\ Home \in Folders /\ <<>> \in Seq(Texts)
    BY FrameAssumption DEF Texts
  <2> QED BY <1>1, <2>1 DEF Unopened, Thread
<1>3. (Home \in Briefed) \in BOOLEAN OBVIOUS
<1>4. PICK o : o = [u EXCEPT !.brief = (Home \in Briefed)] OBVIOUS
<1>5. /\ o \in Thread /\ o.turns = 0 /\ ~o.streaming /\ o.cwd = Home /\ o.parent = None
      /\ (o.brief <=> Home \in Briefed)
  BY <1>2, <1>3, <1>4 DEF Thread
<1>6. 1 \in Ids /\ Old \in Ids /\ None \notin Ids /\ None \in Texts /\ 1 <= Old
  BY FrameAssumption DEF Ids, Old, None, Texts
<1>7. th = [[t \in Ids |-> u] EXCEPT ![1] = o] BY <1>1, <1>3, <1>4, <1>6 DEF Init
<1>8. th \in [Ids -> Thread] /\ th[1] = o /\ \A c \in Ids \ {1} : th[c] = u
  <2>1. [t \in Ids |-> u] \in [Ids -> Thread] BY <1>2
  <2> QED BY <1>5, <1>6, <1>7, <2>1, Writes1
<1>9. Open = {1} /\ threads = <<1>> BY DEF Init, Open
<1>10. Shaped
  <2>1. \A t \in Ids : th[t].parent # t BY <1>2, <1>5, <1>6, <1>8
  <2>2. /\ threads \in Seq(Ids) /\ used = Old /\ input \in Texts /\ images \in Texts
        /\ active \in Nat /\ brief \in [Folders -> BOOLEAN]
    BY <1>6 DEF Init
  <2>3. \A i \in DOMAIN threads : threads[i] <= used BY <1>6, <1>9, <2>2
  <2> QED BY <1>6, <1>8, <2>1, <2>2, <2>3 DEF Shaped, Old
<1>11. Unbegun BY <1>2, <1>5, <1>6, <1>8 DEF Unbegun
<1>12. BriefReachesNew
  <2>1. brief[Home] => Home \in Briefed BY FrameAssumption DEF Init
  <2> QED BY <1>5, <1>8, <1>9, <2>1 DEF BriefReachesNew
<1>13. Owing BY DEF Init, Owing
<1> QED BY <1>10, <1>11, <1>12, <1>13 DEF Base

\* BriefReachesNew holds: a thread whose first turn has not begun has its
\* folder's brief, however the briefs, the dialogs and the turns interleave.
THEOREM BriefReachesNewCorrect == Spec => []BriefReachesNew
<1>1. Init => Base /\ Owing BY BaseInit
<1>2. Base /\ Owing /\ [Next]_vars => (Base /\ Owing)'
  BY BaseNext, OwingKept DEF Base
<1>3. Base => BriefReachesNew BY DEF Base
<1> QED BY <1>1, <1>2, <1>3, PTL DEF Spec

----------------------------------------------------------------------------
(* What ends behind the user's back is marked.                             *)

\* The rows and the marks of a list that is drawn again tell all of it.
LEMMA RowsTell ==
  ASSUME NEW T, NEW R, NEW a, NEW t \in {T[i] : i \in DOMAIN T}, t # a,
         R[t].cwd = R[a].cwd, ~R[t].streaming
  PROVE  /\ R[t].notice => [id |-> t, state |-> "failed"] \in FolderRows(T, a, R)
         /\ R[t].unseen /\ ~R[t].notice => [id |-> t, state |-> "unseen"] \in FolderRows(T, a, R)
<1>1. PICK i \in DOMAIN T : T[i] = t OBVIOUS
<1>2. [id |-> t, state |-> RowState(R, a, t)] \in FolderRows(T, a, R)
  BY <1>1 DEF FolderRows
<1> QED BY <1>2 DEF RowState

\* The shown thread's row has no mark.
LEMMA RowShown ==
  ASSUME NEW T, NEW R, NEW a, ~R[a].unseen, NEW r \in FolderRows(T, a, R), r.id = a
  PROVE  r.state \in {"running", "done"}
<1>1. PICK i \in DOMAIN T : r = [id |-> T[i], state |-> RowState(R, a, T[i])] BY DEF FolderRows
<1>2. T[i] = a /\ r.state = RowState(R, a, a) BY <1>1
<1> QED BY <1>2 DEF RowState

\* The folders' marks.
LEMMA MarksTell ==
  ASSUME NEW T, NEW R, NEW a, NEW t \in {T[i] : i \in DOMAIN T}, t # a, R[t].parent = None,
         NEW f, R[t].cwd = f
  PROVE  /\ R[t].notice => Mark(T, a, R, f) = "failed"
         /\ R[t].unseen => Mark(T, a, R, f) # "none"
<1>1. t \in {u \in {T[i] : i \in DOMAIN T} : u # a /\ R[u].parent = None /\ R[u].cwd = f}
  OBVIOUS
<1> QED BY <1>1, ZenonT(30) DEF Mark

\* A list that is drawn again.
LEMMA Redrawn ==
  ASSUME th' \in [Ids -> Thread], threads' \in Seq(Ids),
         Exists' => /\ display' = RefreshSessionChoice(threads', Active', th')
                    /\ ~th'[Active'].unseen
  PROVE  Drawn' /\ ShownSeen'
<1> SUFFICES ASSUME Exists' PROVE Drawn' /\ ShownSeen' BY DEF Drawn, ShownSeen
<1>1. PICK T, R, a : T = threads' /\ R = th' /\ a = Active' OBVIOUS
<1>2. display' = [rows |-> FolderRows(T, a, R), marks |-> [f \in Folders |-> Mark(T, a, R, f)]]
  BY <1>1 DEF RefreshSessionChoice
<1>3. ~R[a].unseen BY <1>1
<1>4. Open' = {T[i] : i \in DOMAIN T} BY <1>1 DEF Open
<1>5. ASSUME NEW t \in Open' \ {a}
      PROVE  /\ R[t].cwd = R[a].cwd /\ ~R[t].streaming =>
                  /\ R[t].notice => [id |-> t, state |-> "failed"] \in display'.rows
                  /\ R[t].unseen /\ ~R[t].notice => [id |-> t, state |-> "unseen"] \in display'.rows
             /\ R[t].parent = None =>
                  /\ R[t].notice => display'.marks[R[t].cwd] = "failed"
                  /\ R[t].unseen => display'.marks[R[t].cwd] # "none"
  <2>1. t \in {T[i] : i \in DOMAIN T} /\ t # a BY <1>4
  <2>2. R[t].cwd \in Folders
    <3>1. t \in Ids BY <1>1, <2>1
    <3>2. R[t] \in Thread BY <1>1, <3>1
    <3> QED BY <3>2 DEF Thread
  <2>3. display'.rows = FolderRows(T, a, R) /\ display'.marks[R[t].cwd] = Mark(T, a, R, R[t].cwd)
    BY <1>2, <2>2
  <2>4. R[t].cwd = R[a].cwd /\ ~R[t].streaming =>
          /\ R[t].notice => [id |-> t, state |-> "failed"] \in FolderRows(T, a, R)
          /\ R[t].unseen /\ ~R[t].notice => [id |-> t, state |-> "unseen"] \in FolderRows(T, a, R)
    BY <2>1, RowsTell
  <2>5. R[t].parent = None =>
          /\ R[t].notice => Mark(T, a, R, R[t].cwd) = "failed"
          /\ R[t].unseen => Mark(T, a, R, R[t].cwd) # "none"
    BY <2>1, MarksTell
  <2> QED BY <2>3, <2>4, <2>5
<1>6. Drawn' BY <1>1, <1>5 DEF Drawn
<1>7. \A r \in display'.rows : r.id = a => r.state \in {"running", "done"}
  <2>1. display'.rows = FolderRows(T, a, R) BY <1>2
  <2> QED BY <1>3, <2>1, RowShown
<1>8. ShownSeen' BY <1>1, <1>3, <1>7 DEF ShownSeen
<1> QED BY <1>6, <1>8

\* What is told of a thread in the list.
Alike(r, s) ==
    /\ r.cwd = s.cwd /\ r.parent = s.parent /\ r.streaming = s.streaming
    /\ r.unseen = s.unseen /\ r.notice = s.notice

\* A list that is not drawn again, and in which nothing has changed but that
\* unmarked threads came and others went.
LEMMA NotRedrawn ==
  ASSUME Marked, Exists, display' = display, owed' = owed,
         Exists' => /\ Active' = Active
                    /\ th'[Active].cwd = th[Active].cwd /\ th'[Active].unseen = th[Active].unseen,
         \A t \in Open' \ {Active} :
           \/ t \in Open /\ Alike(th'[t], th[t])
           \/ owed[t] = "nothing" /\ ~th'[t].unseen /\ ~th'[t].notice
  PROVE  Marked'
<1> SUFFICES ASSUME Exists' PROVE Marked' BY DEF Marked, Noted, Drawn, ShownSeen
<1>1. PICK R, a, S : R = th' /\ a = Active /\ S = Open' OBVIOUS
<1>2. Active' = a /\ R[a].cwd = th[a].cwd /\ R[a].unseen = th[a].unseen BY <1>1
<1>3. ASSUME NEW t \in S \ {a}
      PROVE  /\ owed[t] = "end" => R[t].unseen \/ R[t].notice
             /\ owed[t] = "failure" => R[t].notice
             /\ R[t].cwd = R[a].cwd /\ ~R[t].streaming =>
                  /\ R[t].notice => [id |-> t, state |-> "failed"] \in display.rows
                  /\ R[t].unseen /\ ~R[t].notice => [id |-> t, state |-> "unseen"] \in display.rows
             /\ R[t].parent = None =>
                  /\ R[t].notice => display.marks[R[t].cwd] = "failed"
                  /\ R[t].unseen => display.marks[R[t].cwd] # "none"
  <2>1. CASE t \in Open /\ Alike(R[t], th[t])
    <3>1. t \in Open \ {Active} BY <1>1, <2>1
    <3>2. /\ owed[t] = "end" => th[t].unseen \/ th[t].notice
          /\ owed[t] = "failure" => th[t].notice
      BY <3>1 DEF Marked, Noted
    <3>3. /\ th[t].cwd = th[a].cwd /\ ~th[t].streaming =>
               /\ th[t].notice => [id |-> t, state |-> "failed"] \in display.rows
               /\ th[t].unseen /\ ~th[t].notice => [id |-> t, state |-> "unseen"] \in display.rows
          /\ th[t].parent = None =>
               /\ th[t].notice => display.marks[th[t].cwd] = "failed"
               /\ th[t].unseen => display.marks[th[t].cwd] # "none"
      BY <1>1, <3>1 DEF Marked, Drawn
    <3> QED BY <1>2, <2>1, <3>2, <3>3 DEF Alike
  <2>2. CASE owed[t] = "nothing" /\ ~R[t].unseen /\ ~R[t].notice BY <2>2
  <2> QED BY <1>1, <2>1, <2>2
<1>4. Noted' BY <1>1, <1>2, <1>3 DEF Noted
<1>5. Drawn' BY <1>1, <1>2, <1>3 DEF Drawn
<1>6. ShownSeen' BY <1>1, <1>2 DEF Marked, ShownSeen
<1> QED BY <1>4, <1>5, <1>6 DEF Marked

\* A quiet step keeps it all.
LEMMA ToldQuiet ==
  ASSUME Shaped, Exists, Told, QuietStep
  PROVE  Told'
<1>1. /\ UNCHANGED << threads, active, used, dialogs, display, owed >>
      /\ \A c \in Ids : /\ SameRun(th'[c], th[c]) /\ th'[c].unseen = th[c].unseen
                        /\ c # Active => th'[c].notice = th[c].notice
  BY DEF QuietStep
<1>2. Open' = Open /\ Active' = Active BY <1>1 DEF Open, Active
<1>3. LastIsNew' /\ OwedOpen' BY <1>1, <1>2 DEF Told, LastIsNew, OwedOpen
<1>4. \A t \in Open : t \in Ids BY DEF Shaped, Open
<1>5. \A t \in Open' \ {Active} : t \in Open /\ Alike(th'[t], th[t])
  BY <1>1, <1>2, <1>4 DEF Alike, SameRun
<1>6. th'[Active].cwd = th[Active].cwd /\ th'[Active].unseen = th[Active].unseen
  BY <1>1, ShownId DEF SameRun
<1>7. Marked' BY <1>1, <1>2, <1>5, <1>6, NotRedrawn DEF Told
<1> QED BY <1>3, <1>7 DEF Told

\* So does a written brief, which takes at most the shown thread's notice away.
LEMMA ToldBrief ==
  ASSUME Shaped, Exists, Told, NEW f \in Folders, NEW ok \in BOOLEAN, OnBriefWritten(f, ok)
  PROVE  Told'
<1>1. /\ UNCHANGED << threads, active, used, dialogs, display, owed >>
      /\ \A c \in Ids :
              LET r == th'[c]
                  s == th[c]
              IN  /\ r.cwd = s.cwd /\ r.parent = s.parent /\ r.streaming = s.streaming
                  /\ r.unseen = s.unseen
                  /\ c # Active => r.notice = s.notice
  BY BriefWritten
<1>2. Open' = Open /\ Active' = Active BY <1>1 DEF Open, Active
<1>3. LastIsNew' /\ OwedOpen' BY <1>1, <1>2 DEF Told, LastIsNew, OwedOpen
<1>4. \A t \in Open : t \in Ids BY DEF Shaped, Open
<1>5. \A t \in Open' \ {Active} : t \in Open /\ Alike(th'[t], th[t])
  BY <1>1, <1>2, <1>4 DEF Alike
<1>6. th'[Active].cwd = th[Active].cwd /\ th'[Active].unseen = th[Active].unseen
  BY <1>1, ShownId
<1>7. Marked' BY <1>1, <1>2, <1>5, <1>6, NotRedrawn DEF Told
<1> QED BY <1>3, <1>7 DEF Told

\* The timer draws the rows of the list again.
LEMMA ToldTick ==
  ASSUME Shaped, Exists, Told, PaneTick
  PROVE  Told'
<1>1. /\ UNCHANGED << threads, active, used, th, dialogs, owed >>
      /\ display' = [display EXCEPT !.rows = FolderRows(threads, Active, th)]
  BY DEF PaneTick
<1>2. Open' = Open /\ Active' = Active BY <1>1 DEF Open, Active
<1>3. LastIsNew' /\ OwedOpen' /\ Noted' BY <1>1, <1>2 DEF Told, LastIsNew, OwedOpen, Marked, Noted, Exists
<1>4. PICK rows, marks : rows = FolderRows(threads, Active, th) /\ marks = display.marks OBVIOUS
<1>5. display'.marks = marks /\ (display'.rows = rows \/ display'.rows = display.rows)
  BY <1>1, <1>4
<1>6. ASSUME NEW t \in Open \ {Active}
      PROVE  /\ th[t].cwd = th[Active].cwd /\ ~th[t].streaming =>
                  /\ th[t].notice => [id |-> t, state |-> "failed"] \in rows
                  /\ th[t].unseen /\ ~th[t].notice => [id |-> t, state |-> "unseen"] \in rows
             /\ th[t].parent = None =>
                  /\ th[t].notice => marks[th[t].cwd] = "failed"
                  /\ th[t].unseen => marks[th[t].cwd] # "none"
  <2>1. PICK a : a = Active OBVIOUS
  <2>2. t \in {threads[i] : i \in DOMAIN threads} /\ t # a BY <2>1 DEF Open
  <2>3. th[t].cwd = th[a].cwd /\ ~th[t].streaming =>
          /\ th[t].notice => [id |-> t, state |-> "failed"] \in FolderRows(threads, a, th)
          /\ th[t].unseen /\ ~th[t].notice =>
               [id |-> t, state |-> "unseen"] \in FolderRows(threads, a, th)
    BY <2>2, RowsTell
  <2>4. th[t].parent = None =>
          /\ th[t].notice => marks[th[t].cwd] = "failed"
          /\ th[t].unseen => marks[th[t].cwd] # "none"
    BY <1>4 DEF Told, Marked, Drawn
  <2> QED BY <1>4, <2>1, <2>3, <2>4
<1>7. Drawn'
  <2>1. ASSUME NEW t \in Open \ {Active}
        PROVE  /\ th[t].cwd = th[Active].cwd /\ ~th[t].streaming =>
                    /\ th[t].notice => [id |-> t, state |-> "failed"] \in display'.rows
                    /\ th[t].unseen /\ ~th[t].notice =>
                         [id |-> t, state |-> "unseen"] \in display'.rows
               /\ th[t].parent = None =>
                    /\ th[t].notice => display'.marks[th[t].cwd] = "failed"
                    /\ th[t].unseen => display'.marks[th[t].cwd] # "none"
    <3>1. CASE display'.rows = rows BY <1>5, <1>6, <3>1
    <3>2. CASE display'.rows = display.rows BY <1>4, <1>5, <3>2 DEF Told, Marked, Drawn
    <3> QED BY <1>5, <3>1, <3>2
  <2> QED BY <1>1, <1>2, <2>1 DEF Drawn
<1>8. ShownSeen'
  <2>1. ~th[Active].unseen BY DEF Told, Marked, ShownSeen
  <2>2. \A r \in rows : r.id = Active => r.state \in {"running", "done"}
    BY <1>4, <2>1, RowShown
  <2>3. \A r \in display'.rows : r.id = Active => r.state \in {"running", "done"}
    BY <1>5, <2>2 DEF Told, Marked, ShownSeen
  <2> QED BY <1>1, <1>2, <2>1, <2>3 DEF ShownSeen
<1> QED BY <1>3, <1>7, <1>8 DEF Told, Marked

\* The step of a turn, which draws the list again.
LEMMA ToldTurn ==
  ASSUME ~OpensInDialog, Shaped, Shaped', Exists, Told, TurnStep
  PROVE  Told'
<1>1. /\ active' = active /\ dialogs' = dialogs /\ InRange /\ Opens
      /\ \A c \in Ids \ {Active} : /\ c <= used /\ th[c].unseen => th'[c].unseen
                                   /\ c <= used /\ th[c].notice => th'[c].notice
      /\ th'[Active].unseen = th[Active].unseen
      /\ display' = RefreshSessionChoice(threads', Active, th')
      /\ \A c \in Ids \ Open : owed'[c] = owed[c]
      /\ \A c \in Ids \ {Active} :
           /\ owed'[c] = "failure" => th'[c].notice \/ owed[c] = "failure"
           /\ owed'[c] = "end" => th'[c].unseen \/ owed[c] = "end"
  BY DEF TurnStep
<1>2. /\ threads \in Seq(Ids) /\ threads' \in Seq(Ids) /\ used \in Ids /\ used' \in Ids
      /\ \A j \in DOMAIN threads : threads[j] <= used
  BY DEF Shaped
<1>3. /\ used <= used' /\ Active' = Active
      /\ \A c \in Open : c \in Open' /\ c <= used /\ c \in Ids
      /\ \A c \in Open' : c \in Open \/ c > used
      /\ dialogs = <<>> \/ threads' = threads \/ OpensInDialog
  <2>1. \A c \in Open : c <= used /\ c \in Ids BY <1>2 DEF Open
  <2>2. CASE UNCHANGED << threads, used >>
    <3>1. Active' = Active /\ Open' = Open BY <1>1, <2>2 DEF Active, Open
    <3> QED BY <1>2, <2>1, <2>2, <3>1 DEF Ids
  <2>3. CASE /\ used + 1 \in Ids /\ used' = used + 1 /\ threads' = Append(threads, used')
             /\ OpensInDialog \/ ~InDialog
    <3>1. /\ DOMAIN threads' = 1 .. Len(threads) + 1 /\ DOMAIN threads = 1 .. Len(threads)
          /\ Len(threads) \in Nat
          /\ \A j \in DOMAIN threads : threads'[j] = threads[j]
          /\ threads'[Len(threads) + 1] = used'
      BY <1>2, <2>3
    <3>2. Active' = Active BY <1>1, <3>1 DEF Active, Exists
    <3>3. \A c \in Open : c \in Open' BY <3>1 DEF Open
    <3>4. \A c \in Open' : c \in Open \/ c = used' BY <3>1 DEF Open
    <3>5. used <= used' /\ used' > used BY <1>2, <2>3 DEF Ids
    <3> QED BY <2>1, <2>3, <3>2, <3>3, <3>4, <3>5 DEF InDialog
  <2> QED BY <1>1, <2>2, <2>3 DEF Opens
<1>4. OwedOpen'
  <2>1. ASSUME NEW t \in Ids, t > used' \/ (t = Old /\ t \notin Open') PROVE owed'[t] = "nothing"
    <3>1. t > used \/ (t = Old /\ t \notin Open) BY <1>2, <1>3, <2>1 DEF Ids
    <3>2. t \notin Open BY <1>2, <1>3, <3>1 DEF Ids
    <3> QED BY <1>1, <3>1, <3>2 DEF Told, OwedOpen
  <2> QED BY <2>1 DEF OwedOpen
<1>5. Noted'
  <2>1. ASSUME NEW t \in Open', t # Active
        PROVE  /\ owed'[t] = "end" => th'[t].unseen \/ th'[t].notice
               /\ owed'[t] = "failure" => th'[t].notice
    <3>1. CASE t \in Open
      <4>1. /\ owed[t] = "end" => th[t].unseen \/ th[t].notice
            /\ owed[t] = "failure" => th[t].notice
        BY <2>1, <3>1 DEF Told, Marked, Noted
      <4> QED BY <1>1, <1>3, <2>1, <3>1, <4>1
    <3>2. CASE t \notin Open
      <4>1. t \in Ids BY <1>2 DEF Open
      <4>2. t > used BY <1>3, <3>2
      <4>3. owed'[t] = "nothing" BY <1>1, <3>2, <4>1, <4>2 DEF Told, OwedOpen
      <4> QED BY <4>3
    <3> QED BY <3>1, <3>2
  <2> QED BY <1>3, <2>1 DEF Noted
<1>6. LastIsNew'
  <2>1. CASE dialogs = <<>> BY <1>1, <2>1 DEF LastIsNew, Told
  <2>2. CASE threads' = threads BY <1>1, <2>2 DEF LastIsNew, Told
  <2> QED BY <1>3, <2>1, <2>2
<1>7. Drawn' /\ ShownSeen'
  <2>1. ~th'[Active'].unseen BY <1>1, <1>3 DEF Told, Marked, ShownSeen
  <2> QED BY <1>1, <1>2, <1>3, <2>1, Redrawn DEF InRange
<1> QED BY <1>4, <1>5, <1>6, <1>7 DEF Told, Marked

\* Showing the i-th of a list keeps what is told, and the list is drawn again.
LEMMA MarkedShows ==
  ASSUME Shaped, Exists, Owing, Told, NEW T \in Seq(Ids), NEW R \in [Ids -> Thread],
         NEW i \in DOMAIN T, Shows(T, R, i),
         \A c \in Open : R[c] = th[c],
         \A j \in DOMAIN T : T[j] \in Open \/ owed[T[j]] = "nothing"
  PROVE  /\ Marked' /\ Open' = {T[j] : j \in DOMAIN T}
         /\ \A c \in Ids : owed[c] = "nothing" => owed'[c] = "nothing"
<1>1. Active \in Ids /\ input \in Texts /\ images \in Texts BY ShownId DEF Shaped
<1>2. PICK t : t = T[i] OBVIOUS
<1>3. /\ threads' = T /\ active' = i /\ Active' = t /\ th' \in [Ids -> Thread]
      /\ \A c \in Ids : c # t => SameMarks(th'[c], R[c])
      /\ ~th'[t].unseen
      /\ display' = RefreshSessionChoice(T, t, th')
      /\ owed' = [owed EXCEPT ![Active] = "nothing",
                              ![t] = IF @ = "failure" THEN @ ELSE "nothing"]
  BY <1>1, <1>2, ShowsIs
<1>4. Open' = {T[j] : j \in DOMAIN T} /\ t \in Ids BY <1>2, <1>3 DEF Open
<1>5. \A c \in Ids : /\ owed[c] = "nothing" => owed'[c] = "nothing"
                     /\ c # t => owed'[c] = owed[c] \/ owed'[c] = "nothing"
                     /\ c = Active /\ c # t => owed'[c] = "nothing"
  BY <1>1, <1>3, <1>4 DEF Owing
<1>6. Noted'
  <2>1. ASSUME NEW c \in Open', c # t
        PROVE  /\ owed'[c] = "end" => th'[c].unseen \/ th'[c].notice
               /\ owed'[c] = "failure" => th'[c].notice
    <3>1. c \in Ids BY <1>4
    <3>2. CASE c = Active BY <1>5, <2>1, <3>1, <3>2
    <3>3. CASE c \in Open /\ c # Active
      <4>1. /\ owed[c] = "end" => th[c].unseen \/ th[c].notice
            /\ owed[c] = "failure" => th[c].notice
        BY <3>3 DEF Told, Marked, Noted
      <4>2. SameMarks(th'[c], th[c]) BY <1>3, <2>1, <3>1, <3>3
      <4> QED BY <1>5, <2>1, <3>1, <4>1, <4>2 DEF SameMarks
    <3>4. CASE c \notin Open
      <4>1. owed[c] = "nothing" BY <1>4, <3>4
      <4>2. owed'[c] = "nothing" BY <1>5, <3>1, <4>1
      <4> QED BY <4>2
    <3> QED BY <3>2, <3>3, <3>4
  <2> QED BY <1>3, <2>1 DEF Noted
<1>7. Drawn' /\ ShownSeen' BY <1>3, Redrawn
<1> QED BY <1>4, <1>5, <1>6, <1>7 DEF Marked

\* A thread of a list is shown, or a dialog opens before it.
LEMMA ToldShow ==
  ASSUME ~OpensInDialog, Shaped, Shaped', Unbegun, Owing, Exists, Told, Show
  PROVE  Told'
<1>1. PICK T, R, i, new : /\ Listed(T, R, new) /\ i \in DOMAIN T /\ ShowThread(T, R, i, new)
                          /\ new \in BOOLEAN
                          /\ new => i = Len(T) /\ Len(T) = Len(threads) + 1 /\ T[i] = used + 1
  BY ShowIs
<1>2. /\ T \in Seq(Ids) /\ R \in [Ids -> Thread] /\ used' \in Ids /\ used <= used'
      /\ active \in DOMAIN T /\ T[active] = Active
      /\ \A j \in DOMAIN threads : j \in DOMAIN T /\ T[j] = threads[j]
      /\ \A c \in Open : R[c] = th[c]
      /\ \A j \in DOMAIN T : \/ T[j] \in Open
                             \/ /\ ~R[T[j]].unseen /\ ~R[T[j]].notice
                                /\ T[j] > used \/ T[j] = Old
  BY <1>1, ListedIs
<1>3. /\ threads' = T /\ InRange
      /\ \A c \in Ids : SameRun(th'[c], R[c])
      /\ \/ Shows(T, R, i) /\ dialogs' = dialogs
         \/ /\ th' = R /\ UNCHANGED << active, display, owed >>
            /\ \/ dialogs' = dialogs
               \/ dialogs' = Append(dialogs, [new |-> new, index |-> i])
  BY <1>1, ShowThreadIs
<1>4. /\ threads \in Seq(Ids) /\ used \in Ids /\ Old \in Ids /\ Old <= used
      /\ Len(threads) \in Nat /\ Len(T) \in Nat
      /\ \A c \in Open : c \in Ids /\ c <= used
  <2>1. /\ threads \in Seq(Ids) /\ used \in Ids /\ Old <= used
        /\ \A j \in DOMAIN threads : threads[j] <= used
    BY DEF Shaped
  <2>2. Old \in Ids BY <2>1, FrameAssumption DEF Ids, Old
  <2>3. \A c \in Open : c \in Ids /\ c <= used BY <2>1 DEF Open
  <2>4. Len(threads) \in Nat /\ Len(T) \in Nat BY <1>2, <2>1
  <2> QED BY <2>1, <2>2, <2>3, <2>4
<1>5. Open' = {T[j] : j \in DOMAIN T} /\ \A c \in Open : c \in Open'
  BY <1>2, <1>3 DEF Open
<1>6. \A j \in DOMAIN T : T[j] \in Open \/ owed[T[j]] = "nothing"
  <2> SUFFICES ASSUME NEW j \in DOMAIN T, T[j] \notin Open PROVE owed[T[j]] = "nothing" OBVIOUS
  <2>1. T[j] \in Ids /\ (T[j] > used \/ T[j] = Old) BY <1>2
  <2> QED BY <2>1 DEF Told, OwedOpen
<1>7. dialogs = <<>> \/ (T = threads /\ ~new)
  <2>1. CASE T = threads BY <1>1, <1>4, <2>1
  <2>2. CASE T # threads
    <3>1. PICK id, f : Longer(T, R, id, f) BY <1>1, <2>2 DEF Listed
    <3> QED BY <3>1 DEF Longer, InDialog
  <2> QED BY <2>1, <2>2
<1>8. Marked' /\ \A c \in Ids : owed[c] = "nothing" => owed'[c] = "nothing"
  <2>1. CASE Shows(T, R, i) BY <1>1, <1>2, <1>6, <2>1, MarkedShows
  <2>2. CASE th' = R /\ UNCHANGED << active, display, owed >>
    <3>1. Active' = Active BY <1>2, <1>3, <2>2 DEF Active
    <3>2. \A t \in Open' : \/ t \in Open /\ Alike(th'[t], th[t])
                           \/ owed[t] = "nothing" /\ ~th'[t].unseen /\ ~th'[t].notice
      BY <1>2, <1>5, <1>6, <2>2 DEF Alike
    <3>3. th'[Active] = th[Active] BY <1>2, <2>2, ShownId
    <3> QED BY <2>2, <3>1, <3>2, <3>3, NotRedrawn DEF Told
  <2> QED BY <1>3, <2>1, <2>2
<1>9. OwedOpen'
  <2>1. ASSUME NEW t \in Ids, t > used' \/ (t = Old /\ t \notin Open') PROVE owed'[t] = "nothing"
    <3>1. t > used \/ (t = Old /\ t \notin Open) BY <1>2, <1>4, <1>5, <2>1 DEF Ids
    <3>2. owed[t] = "nothing" BY <3>1 DEF Told, OwedOpen
    <3> QED BY <1>8, <3>2
  <2> QED BY <2>1 DEF OwedOpen
<1>10. LastIsNew'
  <2>1. LastIsNew BY DEF Told
  <2>2. CASE dialogs' = dialogs
    <3>1. CASE dialogs = <<>> BY <2>1, <2>2, <3>1 DEF LastIsNew
    <3>2. CASE T = threads BY <1>3, <2>1, <2>2, <3>2 DEF LastIsNew
    <3> QED BY <1>7, <3>1, <3>2
  <2>3. CASE dialogs' = Append(dialogs, [new |-> new, index |-> i])
    <3>1. new \in BOOLEAN BY <1>1
    <3>2. [new |-> new, index |-> i] \in [new : BOOLEAN, index : Nat] BY <1>1, <1>2, <3>1
    <3>3. dialogs' \in Seq([new : BOOLEAN, index : Nat]) BY <2>1, <2>3, <3>2 DEF LastIsNew
    <3>4. ASSUME NEW k \in DOMAIN dialogs', dialogs'[k].new
          PROVE  k = 1 /\ Len(T) > 0 /\ T[Len(T)] # Old
      <4>1. CASE dialogs = <<>>
        <5>1. k = 1 /\ dialogs'[k] = [new |-> new, index |-> i] BY <2>3, <4>1
        <5>2. new BY <3>4, <5>1
        <5> QED BY <1>1, <1>4, <5>1, <5>2 DEF Ids
      <4>2. CASE dialogs # <<>>
        <5>1. T = threads /\ ~new BY <1>7, <4>2
        <5>2. dialogs \in Seq([new : BOOLEAN, index : Nat]) BY <2>1 DEF LastIsNew
        <5>3. k \in DOMAIN dialogs /\ dialogs'[k] = dialogs[k]
          <6>1. k \in 1 .. Len(dialogs) + 1 BY <2>3, <5>2
          <6>2. k # Len(dialogs) + 1
            <7>1. dialogs'[Len(dialogs) + 1] = [new |-> new, index |-> i] BY <2>3, <5>2
            <7> QED BY <3>4, <5>1, <7>1
          <6> QED BY <2>3, <5>2, <6>1, <6>2
        <5> QED BY <2>1, <3>4, <5>1, <5>3 DEF LastIsNew
      <4> QED BY <4>1, <4>2
    <3> QED BY <1>3, <3>3, <3>4 DEF LastIsNew
  <2> QED BY <1>3, <2>2, <2>3
<1> QED BY <1>8, <1>9, <1>10 DEF Told

\* A dialog is answered: the thread is shown, or the list loses a new one.
LEMMA ToldAnswer ==
  ASSUME ~OpensInDialog, Shaped, Shaped', Owing, Exists, Told, NEW go \in BOOLEAN, Answer(go)
  PROVE  Told'
<1>1. /\ threads \in Seq(Ids) /\ used \in Ids /\ th \in [Ids -> Thread]
      /\ dialogs \in Seq([new : BOOLEAN, index : Nat])
      /\ Len(threads) \in Nat /\ Len(dialogs) \in Nat
  BY DEF Shaped, Told, LastIsNew
<1>2. PICK d : d = dialogs[Len(dialogs)] OBVIOUS
<1>3. /\ dialogs # <<>> /\ used' = used /\ dialogs' = SubSeq(dialogs, 1, Len(dialogs) - 1)
      /\ \/ d.index \in DOMAIN threads /\ Shows(threads, th, d.index)
         \/ /\ threads' = IF d.new THEN SubSeq(threads, 1, Len(threads) - 1) ELSE threads
            /\ UNCHANGED << active, th, display, owed >>
  BY <1>2 DEF Answer, InDialog
<1>4. /\ dialogs' \in Seq([new : BOOLEAN, index : Nat])
      /\ \A k \in DOMAIN dialogs' : k \in DOMAIN dialogs /\ dialogs'[k] = dialogs[k]
      /\ Len(dialogs) = 1 => dialogs' = <<>>
      /\ Len(dialogs) \in DOMAIN dialogs
  <2>1. Len(dialogs) > 0 /\ Len(dialogs) \in DOMAIN dialogs BY <1>1, <1>3
  <2>2. PICK D : D = [new : BOOLEAN, index : Nat] OBVIOUS
  <2>3. dialogs \in Seq(D) BY <1>1, <2>2
  <2>4. /\ dialogs' \in Seq(D) /\ Len(dialogs') = Len(dialogs) - 1
        /\ \A k \in 1 .. Len(dialogs) - 1 : dialogs'[k] = dialogs[k]
    <3>1. PICK m : m = Len(dialogs) - 1 OBVIOUS
    <3>2. m \in 0 .. Len(dialogs) /\ m \in Nat BY <1>1, <2>1, <3>1
    <3>3. dialogs' = SubSeq(dialogs, 1, m) BY <1>3, <3>1
    <3>4. /\ SubSeq(dialogs, 1, m) \in Seq(D) /\ Len(SubSeq(dialogs, 1, m)) = m
          /\ \A k \in 1 .. m : SubSeq(dialogs, 1, m)[k] = dialogs[k]
      BY <1>1, <2>3, <3>2
    <3> QED BY <3>1, <3>3, <3>4
  <2>5. \A k \in DOMAIN dialogs' : k \in DOMAIN dialogs /\ dialogs'[k] = dialogs[k]
    BY <1>1, <2>3, <2>4
  <2>6. Len(dialogs) = 1 => dialogs' = <<>> BY <1>1, <2>4
  <2> QED BY <2>1, <2>2, <2>4, <2>5, <2>6
<1>5. CASE threads' = threads
  <2>1. LastIsNew' BY <1>4, <1>5 DEF Told, LastIsNew
  <2>2. Open' = Open BY <1>5 DEF Open
  <2>3. CASE d.index \in DOMAIN threads /\ Shows(threads, th, d.index)
    <3>1. Marked' /\ \A c \in Ids : owed[c] = "nothing" => owed'[c] = "nothing"
      <4>1. \A j \in DOMAIN threads : threads[j] \in Open BY DEF Open
      <4> QED BY <1>1, <2>3, <4>1, MarkedShows
    <3>2. OwedOpen' BY <1>3, <2>2, <3>1 DEF Told, OwedOpen
    <3> QED BY <2>1, <3>1, <3>2 DEF Told
  <2>4. CASE UNCHANGED << active, th, display, owed >>
    BY <1>3, <1>5, <2>1, <2>2, <2>4
       DEF Told, OwedOpen, Marked, Noted, Drawn, ShownSeen, Exists, Active
  <2> QED BY <1>3, <2>3, <2>4 DEF Shows
<1>6. CASE d.new /\ threads' = SubSeq(threads, 1, Len(threads) - 1)
           /\ UNCHANGED << active, th, display, owed >>
  <2>1. Len(dialogs) = 1 /\ Len(threads) > 0 /\ threads[Len(threads)] # Old
    BY <1>2, <1>4, <1>6 DEF Told, LastIsNew
  <2>2. LastIsNew' BY <1>4, <2>1 DEF LastIsNew
  <2>3. /\ DOMAIN threads' = 1 .. Len(threads) - 1 /\ DOMAIN threads = 1 .. Len(threads)
        /\ \A j \in DOMAIN threads' : threads'[j] = threads[j]
    BY <1>1, <1>6, <2>1
  <2>4. \A c \in Open' : c \in Open BY <1>1, <2>3 DEF Open
  <2>5. Old \in Open => Old \in Open' BY <1>1, <2>1, <2>3 DEF Open
  <2>6. OwedOpen' BY <1>3, <1>6, <2>5 DEF Told, OwedOpen
  <2>7. Exists' => Active' = Active BY <1>6, <2>3 DEF Exists, Active
  <2>8. Marked'
    <3>1. \A t \in Open' \ {Active} : t \in Open /\ Alike(th'[t], th[t])
      BY <1>6, <2>4 DEF Alike
    <3>2. Exists' => th'[Active].cwd = th[Active].cwd /\ th'[Active].unseen = th[Active].unseen
      BY <1>6
    <3> QED BY <1>6, <2>7, <3>1, <3>2, NotRedrawn DEF Told
  <2> QED BY <2>2, <2>6, <2>8 DEF Told
<1> QED BY <1>3, <1>5, <1>6 DEF Shows

\* Every step keeps it all.
LEMMA ToldNext ==
  ASSUME ~OpensInDialog, Shaped, Shaped', Unbegun, Owing, Told, [Next]_vars
  PROVE  Told'
<1>1. CASE UNCHANGED vars
  BY <1>1 DEF vars, Told, LastIsNew, OwedOpen, Marked, Noted, Drawn, ShownSeen, Open, Exists, Active
<1>2. CASE Next
  <2>1. Exists BY <1>2 DEF Next
  <2> QED BY <1>2, <2>1, StepIs, ToldQuiet, ToldTurn, ToldShow, ToldAnswer, ToldTick, ToldBrief
<1> QED BY <1>1, <1>2

\* At the start one thread is shown and nothing is owed.
LEMMA ToldInit ==
  ASSUME Init
  PROVE  Told
<1>1. threads = <<1>> /\ active = 1 /\ dialogs = <<>> /\ Open = {1} /\ Active = 1
  BY DEF Init, Open, Active
<1>2. LastIsNew BY <1>1 DEF LastIsNew
<1>3. OwedOpen BY DEF OwedOpen, Init
<1>4. Noted /\ Drawn BY <1>1 DEF Noted, Drawn
<1>5. ShownSeen
  <2>1. ~th[1].unseen
    <3>1. PICK u : u = Unopened OBVIOUS
    <3>2. ~u.unseen /\ DOMAIN u = DOMAIN u BY <3>1 DEF Unopened
    <3>3. 1 \in Ids BY FrameAssumption DEF Ids
    <3>4. th[1] = [u EXCEPT !.brief = (Home \in Briefed)] BY <3>1, <3>3 DEF Init
    <3> QED BY <3>1, <3>2, <3>4 DEF Unopened
  <2>2. PICK T, R, a : T = threads /\ R = th /\ a = 1 OBVIOUS
  <2>3. display.rows = FolderRows(T, a, R)
    BY <1>1, <2>2 DEF Init, RefreshSessionChoice
  <2>4. \A r \in display.rows : r.id = 1 => r.state \in {"running", "done"}
    BY <2>1, <2>2, <2>3, RowShown
  <2> QED BY <1>1, <2>1, <2>4 DEF ShownSeen
<1> QED BY <1>2, <1>3, <1>4, <1>5 DEF Told, Marked

\* What is put down and drawn is what the user is to be told.
LEMMA ToldAttention ==
  ASSUME Shaped, Owing, Told
  PROVE  Attention
<1> SUFFICES ASSUME Exists PROVE Attention BY DEF Attention
<1>1. ASSUME NEW t \in Open \ {Active}, owed[t] # "nothing", ~th[t].streaming
      PROVE  /\ th[t].cwd = th[Active].cwd =>
                  \E r \in display.rows : /\ r.id = t
                                          /\ r.state \in {"failed"} \cup
                                               (IF owed[t] = "end" THEN {"unseen"} ELSE {})
             /\ th[t].parent = None => display.marks[th[t].cwd] # "none"
             /\ th[t].parent = None /\ owed[t] = "failure" => display.marks[th[t].cwd] = "failed"
  <2>1. t \in Ids BY DEF Shaped, Open
  <2>2. owed[t] = "end" \/ owed[t] = "failure" BY <1>1, <2>1 DEF Owing
  <2>3. /\ owed[t] = "end" => th[t].unseen \/ th[t].notice
        /\ owed[t] = "failure" => th[t].notice
    BY <1>1 DEF Told, Marked, Noted
  <2>4. /\ th[t].cwd = th[Active].cwd =>
             /\ th[t].notice => [id |-> t, state |-> "failed"] \in display.rows
             /\ th[t].unseen /\ ~th[t].notice => [id |-> t, state |-> "unseen"] \in display.rows
        /\ th[t].parent = None =>
             /\ th[t].notice => display.marks[th[t].cwd] = "failed"
             /\ th[t].unseen => display.marks[th[t].cwd] # "none"
    BY <1>1 DEF Told, Marked, Drawn
  <2>5. CASE th[t].notice
    <3>1. th[t].cwd = th[Active].cwd => [id |-> t, state |-> "failed"] \in display.rows
      BY <2>4, <2>5
    <3> QED BY <2>4, <2>5, <3>1
  <2>6. CASE ~th[t].notice
    <3>1. owed[t] = "end" /\ th[t].unseen BY <2>2, <2>3, <2>6
    <3>2. th[t].cwd = th[Active].cwd => [id |-> t, state |-> "unseen"] \in display.rows
      BY <2>4, <2>6, <3>1
    <3> QED BY <2>4, <3>1, <3>2
  <2> QED BY <2>5, <2>6
<1>2. \A r \in display.rows : r.id = Active => r.state \in {"running", "done"}
  BY DEF Told, Marked, ShownSeen
<1> QED BY <1>1, <1>2 DEF Attention

\* Attention holds where no thread is opened while a save dialog is up: what
\* ended or failed behind the user's back is marked in what is drawn.
THEOREM AttentionCorrect ==
  ASSUME ~OpensInDialog
  PROVE  Spec => []Attention
<1>1. Init => Base /\ Owing /\ Told BY BaseInit, ToldInit
<1>2. Base /\ Owing /\ Told /\ [Next]_vars => (Base /\ Owing /\ Told)'
  <2> SUFFICES ASSUME Base, Owing, Told, [Next]_vars PROVE (Base /\ Owing /\ Told)' OBVIOUS
  <2>1. Base' BY BaseNext
  <2>2. Shaped /\ Unbegun /\ Shaped' BY <2>1 DEF Base
  <2>3. Owing' BY <2>2, OwingKept
  <2>4. Told' BY <2>2, ToldNext
  <2> QED BY <2>1, <2>3, <2>4
<1>3. Base /\ Owing /\ Told => Attention BY ToldAttention DEF Base
<1> QED BY <1>1, <1>2, <1>3, PTL DEF Spec
=============================================================================
