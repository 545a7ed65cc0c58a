------------------------ MODULE ConversationProofs ------------------------
(***************************************************************************)
(* RollBack, HandsOver, WellFormed and Remembered of Conversation, proved  *)
(* for every budget, every number of messages and every set of sessions;   *)
(* and, at the end, AllRead and Graceful of ClaudeProcess, the CLI a turn  *)
(* on Claude Code talks to, for every payload, pipe size and delay.  The   *)
(* two modules share nothing.                                              *)
(***************************************************************************)
EXTENDS Conversation, ClaudeProcess, FiniteSetTheorems, WellFoundedInduction,
        SequenceTheorems, TLAPS

Phases == {"idle", "request", "summary", "tools", "claude"}

RunType ==
  [resumes : Session \cup {NoSession}, session : Session \cup {NoSession},
   told : SUBSET Id, pending : Seq(Message), start : Nat, retried : BOOLEAN]

\* What the proofs need of the types: TypeOK but for how deep a split lies.
Shaped ==
  /\ hist \in Seq(Message)
  /\ phase \in Phases
  /\ split \in 0 .. Len(hist) /\ (phase # "summary" => split = 0)
  /\ phase = "tools" => Len(hist) > 0 /\ ids + Last(hist).calls <= MaxIds
  /\ run \in RunType
  /\ before \in Seq(Message)
  /\ ids \in 0 .. MaxIds
  /\ knows \in [Session -> SUBSET Id]
  /\ gone \subseteq Session
  /\ lost \subseteq Id

Bare(m) == [m EXCEPT !.hidden = FALSE]

\* h continues b with a prompt: what b recorded stays, but for the marks.
Grown(b, h) ==
  /\ Len(b) < Len(h)
  /\ \A i \in 1 .. Len(b) : Bare(h[i]) = Bare(b[i])
  /\ h[Len(b) + 1].role = "user" /\ h[Len(b) + 1].session = NoSession

\* ... and with what an API model and its tools said to it.
Answered(b, h) ==
  \A i \in Len(b) + 2 .. Len(h) :
    h[i].role \in {"assistant", "tool"} /\ h[i].session = NoSession

\* ... and with what Claude Code said to it.
Followed(b, h) ==
  /\ \A i \in 1 .. Len(b) : h[i] = b[i]
  /\ \A i \in Len(b) + 2 .. Len(h) : h[i].claude

Turn ==
  /\ phase # "idle" => Grown(before, hist)
  /\ phase \in {"request", "summary", "tools"} => Answered(before, hist)
  /\ phase = "claude" =>
       /\ Followed(before, hist)
       /\ run.start = Len(before) + 1
       /\ \A i \in DOMAIN run.pending : run.pending[i].claude
       /\ run.session = NoSession => Len(hist) = run.start /\ run.pending = <<>>

\* What is hidden is told by what is seen, or lost.
Covered(h, l) == Told(h) \subseteq l \cup Seen(h)

\* The newest session of a history.
Newest(h, pos) ==
  /\ pos \in DOMAIN h /\ h[pos].session # NoSession
  /\ \A j \in pos + 1 .. Len(h) : h[j].session = NoSession

\* It knows what was said up to its last message, and by Claude Code after.
Informed(h, l, kn, g) ==
  \A pos \in DOMAIN h :
    Newest(h, pos) /\ h[pos].session \notin g =>
      \A j \in DOMAIN h :
        j <= pos \/ h[j].claude => h[j].tells \subseteq l \cup kn[h[pos].session]

\* A system prompt tells nothing.
Mute(h) == \A i \in DOMAIN h : h[i].role = "system" => h[i].tells = {}

Sound(h, l, kn, g) == Covered(h, l) /\ Mute(h) /\ Informed(h, l, kn, g)

\* What a run was given, with what the session it resumes knows, is all.
Briefed ==
  /\ run.resumes = NoSession => Told(hist) \subseteq run.told \cup lost
  /\ run.resumes # NoSession /\ run.resumes \notin gone =>
       Told(hist) \subseteq run.told \cup lost \cup knows[run.resumes]
  /\ \A pos \in DOMAIN hist :
       Newest(hist, pos) => hist[pos].session \in gone \cup {run.resumes}

\* And once it has its session, the session knows it.
Running ==
  /\ Told(hist) \subseteq knows[run.session] \cup lost
  /\ Len(run.pending) <= 1
  /\ \A i \in DOMAIN run.pending :
       /\ run.pending[i].tells \subseteq knows[run.session]
       /\ run.pending[i].session = run.session
       /\ ~run.pending[i].hidden /\ run.pending[i].role # "system"
  /\ \A pos \in DOMAIN hist :
       Newest(hist, pos) => hist[pos].session \in gone \cup {run.session}

Knowledge ==
  /\ phase # "claude" => Sound(hist, lost, knows, gone)
  /\ phase = "claude" =>
       /\ Covered(hist, lost) /\ Mute(hist)
       /\ Sound(before, lost, knows, gone)
       /\ run.session = NoSession => Briefed
       /\ run.session # NoSession => Running

\* While a cancelled Claude Code lives until it has its session, histories are
\* covered and sessions informed; whatever it does, turns have their shape.
IInv == Shaped /\ Turn /\ (~EarlyCancel => Knowledge)

\* What RollBack says of a step.
Rolls ==
  phase # "idle" /\ phase' = "idle" =>
    /\ IsPrefix(Unmarked(before), Unmarked(hist'))
    /\ failed' => \/ Len(hist') = Len(before)
                  \/ \E i \in Len(before) + 2 .. Len(hist') : hist'[i].claude

-----------------------------------------------------------------------------
(* Numbers.                                                                *)

\* Of numbers one is the least: the ranges 0 .. n up to them have a smallest.
LEMMA Least ==
  ASSUME NEW S \in SUBSET Nat, S # {}
  PROVE  \E x \in S : \A y \in S : x <= y
<1> DEFINE T == {0 .. n : n \in S}
<1>1. T \subseteq FiniteSubsetsOf(Nat) /\ T # {}
  <2>1. \A n \in Nat : IsFiniteSet(0 .. n) /\ 0 .. n \in SUBSET Nat BY FS_Interval
  <2>2. T \subseteq FiniteSubsetsOf(Nat) BY <2>1 DEF FiniteSubsetsOf
  <2>3. PICK n \in S : TRUE OBVIOUS
  <2>4. 0 .. n \in T BY <2>3
  <2> QED BY <2>2, <2>4
<1>2. IsWellFoundedOn(StrictSubsetOrdering(Nat), FiniteSubsetsOf(Nat))
  BY FS_StrictSubsetOrderingWellFounded
<1>3. PICK X \in T : \A Y \in T : ~ (<<Y, X>> \in StrictSubsetOrdering(Nat))
  <2> HIDE DEF T
  <2> QED BY <1>1, <1>2, WFMin
<1>4. PICK n \in S : X = 0 .. n OBVIOUS
<1> SUFFICES ASSUME NEW y \in S, y < n PROVE FALSE OBVIOUS
<1>5. <<0 .. y, X>> \in StrictSubsetOrdering(Nat)
  <2>1. 0 .. y \in SUBSET Nat /\ X \in SUBSET Nat BY <1>4
  <2>2. 0 .. y \subseteq X BY <1>4
  <2>3. n \in X /\ n \notin 0 .. y BY <1>4
  <2> QED BY <2>1, <2>2, <2>3 DEF StrictSubsetOrdering
<1> QED BY <1>3, <1>5

\* Of numbers within a bound one is the greatest.
LEMMA Greatest ==
  ASSUME NEW n \in Nat, NEW S \in SUBSET (0 .. n), S # {}
  PROVE  \E x \in S : \A y \in S : x >= y
<1> DEFINE R == {n - x : x \in S}
<1>1. R \in SUBSET Nat /\ R # {}
  <2>1. \A x \in S : n - x \in Nat OBVIOUS
  <2> QED BY <2>1
<1>2. PICK r \in R : \A q \in R : r <= q
  <2> HIDE DEF R
  <2> QED BY <1>1, Least
<1>3. PICK x \in S : r = n - x OBVIOUS
<1> SUFFICES ASSUME NEW y \in S PROVE x >= y OBVIOUS
<1>4. n - y \in R OBVIOUS
<1>5. n - x <= n - y BY <1>2, <1>3, <1>4
<1>6. x \in Nat /\ y \in Nat OBVIOUS
<1> QED BY <1>5, <1>6

\* The least of numbers, and the greatest of those within a bound.
LEMMA MinOf ==
  ASSUME NEW S \in SUBSET Nat, S # {}
  PROVE  Min(S) \in S /\ \A y \in S : Min(S) <= y
BY Least DEF Min

LEMMA MaxOf ==
  ASSUME NEW n \in Nat, NEW S \in SUBSET (0 .. n), S # {}
  PROVE  Max(S) \in S /\ \A y \in S : Max(S) >= y
BY Greatest DEF Max

-----------------------------------------------------------------------------
(* Messages and histories.                                                 *)

\* The fields of a message.
LEMMA Fields ==
  ASSUME NEW m \in Message
  PROVE  /\ m.role \in {"system", "user", "assistant", "tool"}
         /\ m.claude \in BOOLEAN /\ m.calls \in 0 .. MaxCalls /\ m.size \in Nat
         /\ m.hidden \in BOOLEAN /\ m.summary \in BOOLEAN
         /\ m.session \in Session \cup {NoSession} /\ m.tells \subseteq Id
BY DEF Message

\* A marked message is one, and differs in its mark alone.
LEMMA Marking ==
  ASSUME NEW m \in Message, NEW x \in BOOLEAN
  PROVE  LET n == [m EXCEPT !.hidden = x]
         IN  /\ n \in Message /\ n.hidden = x /\ Bare(n) = Bare(m)
             /\ n.role = m.role /\ n.claude = m.claude /\ n.calls = m.calls
             /\ n.size = m.size /\ n.summary = m.summary
             /\ n.session = m.session /\ n.tells = m.tells
BY DEF Message, Bare

\* Messages that are one but for their marks.
LEMMA Alike ==
  ASSUME NEW m \in Message, NEW n \in Message, Bare(m) = Bare(n)
  PROVE  /\ n.role = m.role /\ n.claude = m.claude /\ n.calls = m.calls
         /\ n.size = m.size /\ n.summary = m.summary
         /\ n.session = m.session /\ n.tells = m.tells
<1>1. /\ Bare(m).role = m.role /\ Bare(m).claude = m.claude /\ Bare(m).calls = m.calls
      /\ Bare(m).size = m.size /\ Bare(m).summary = m.summary
      /\ Bare(m).session = m.session /\ Bare(m).tells = m.tells
  BY DEF Bare, Message
<1>2. /\ Bare(n).role = n.role /\ Bare(n).claude = n.claude /\ Bare(n).calls = n.calls
      /\ Bare(n).size = n.size /\ Bare(n).summary = n.summary
      /\ Bare(n).session = n.session /\ Bare(n).tells = n.tells
  BY DEF Bare, Message
<1> QED BY <1>1, <1>2

\* A plain message.
IsPlain(m, role, claude, tells) ==
  /\ m \in Message
  /\ m.role = role /\ m.claude = claude /\ m.calls = 0 /\ m.size = 1
  /\ ~m.hidden /\ ~m.summary /\ m.session = NoSession /\ m.tells = tells

LEMMA PlainMessage ==
  ASSUME NEW role \in {"system", "user", "assistant", "tool"}, NEW claude \in BOOLEAN,
         NEW tells \in SUBSET Id
  PROVE  IsPlain(Plain(role, claude, tells), role, claude, tells)
BY ConversationAssumption DEF IsPlain, Plain, Message

\* g continues h.
Continues(h, g) ==
  /\ g \in Seq(Message) /\ Len(h) <= Len(g)
  /\ \A i \in 1 .. Len(h) : g[i] = h[i]

\* ... but for the marks compaction puts on h.
Keeps(h, g) ==
  /\ g \in Seq(Message) /\ Len(h) <= Len(g)
  /\ \A i \in 1 .. Len(h) : Bare(g[i]) = Bare(h[i])

\* ... with what API turns record.
Quiet(h, g) ==
  /\ Keeps(h, g)
  /\ \A i \in Len(h) + 1 .. Len(g) : g[i].session = NoSession /\ ~g[i].claude

\* ... without a prompt.
Replies(h, g) ==
  \A i \in Len(h) + 1 .. Len(g) : g[i].role \in {"assistant", "tool"}

\* One message more.
OneMore(h, m, g) ==
  /\ Continues(h, g) /\ Len(g) = Len(h) + 1 /\ g[Len(h) + 1] = m
  /\ \A i \in Len(h) + 1 .. Len(g) : g[i] = m

LEMMA Appended ==
  ASSUME NEW h \in Seq(Message), NEW m \in Message
  PROVE  OneMore(h, m, Append(h, m))
<1>0. Append(h, m) \in Seq(Message) OBVIOUS
<1> PICK g \in Seq(Message) : g = Append(h, m) BY <1>0
<1>1. Len(g) = Len(h) + 1 /\ g[Len(h) + 1] = m OBVIOUS
<1>2. \A i \in 1 .. Len(h) : g[i] = h[i] OBVIOUS
<1>3. \A i \in Len(h) + 1 .. Len(g) : i = Len(h) + 1 BY <1>1
<1>4. Continues(h, g) BY <1>1, <1>2 DEF Continues
<1>5. OneMore(h, m, g) BY <1>1, <1>3, <1>4 DEF OneMore
<1> QED BY <1>5

\* Several.
More(h, s, g) ==
  /\ Continues(h, g) /\ Len(g) = Len(h) + Len(s)
  /\ \A i \in Len(h) + 1 .. Len(g) : i - Len(h) \in DOMAIN s /\ g[i] = s[i - Len(h)]

LEMMA Joined ==
  ASSUME NEW h \in Seq(Message), NEW s \in Seq(Message)
  PROVE  More(h, s, h \o s)
<1>0. h \o s \in Seq(Message) OBVIOUS
<1> PICK g \in Seq(Message) : g = h \o s BY <1>0
<1>1. Len(g) = Len(h) + Len(s) OBVIOUS
<1>2. \A i \in 1 .. Len(h) : g[i] = h[i] OBVIOUS
<1>3. \A i \in Len(h) + 1 .. Len(g) : i - Len(h) \in DOMAIN s /\ g[i] = s[i - Len(h)]
  BY <1>1
<1>4. Continues(h, g) BY <1>1, <1>2 DEF Continues
<1>5. More(h, s, g) BY <1>1, <1>3, <1>4 DEF More
<1> QED BY <1>5

\* To continue is to keep; what is kept is alike.
LEMMA Kept ==
  ASSUME NEW h \in Seq(Message), NEW g, Continues(h, g)
  PROVE  Keeps(h, g)
BY DEF Continues, Keeps

LEMMA KeptAlike ==
  ASSUME NEW h \in Seq(Message), NEW g, Keeps(h, g)
  PROVE  \A i \in 1 .. Len(h) :
           /\ h[i] \in Message /\ g[i] \in Message
           /\ g[i].role = h[i].role /\ g[i].claude = h[i].claude
           /\ g[i].session = h[i].session /\ g[i].tells = h[i].tells
<1> PICK k \in Nat : k = Len(h) OBVIOUS
<1> PICK j \in Nat : j = Len(g) BY DEF Keeps
<1> SUFFICES ASSUME NEW i \in 1 .. k
             PROVE  /\ h[i] \in Message /\ g[i] \in Message
                    /\ g[i].role = h[i].role /\ g[i].claude = h[i].claude
                    /\ g[i].session = h[i].session /\ g[i].tells = h[i].tells
  OBVIOUS
<1>1. h[i] \in Message /\ g[i] \in Message /\ Bare(h[i]) = Bare(g[i]) BY DEF Keeps
<1> QED BY <1>1, Alike

\* A turn goes on when replies are recorded.
LEMMA GrownOn ==
  ASSUME NEW b \in Seq(Message), NEW h \in Seq(Message), NEW g,
         Keeps(h, g), Grown(b, h)
  PROVE  Grown(b, g)
<1> PICK n \in Nat : n = Len(b) OBVIOUS
<1> PICK k \in Nat : k = Len(h) OBVIOUS
<1> PICK j \in Nat : j = Len(g) BY DEF Keeps
<1>1. n < k /\ k <= j BY DEF Grown, Keeps
<1>2. \A i \in 1 .. n + 1 :
        Bare(g[i]) = Bare(h[i]) /\ g[i].role = h[i].role /\ g[i].session = h[i].session
  <2>1. \A i \in 1 .. k : Bare(g[i]) = Bare(h[i]) BY DEF Keeps
  <2>2. \A i \in 1 .. k : g[i].role = h[i].role /\ g[i].session = h[i].session
    BY KeptAlike
  <2>3. 1 .. n + 1 \subseteq 1 .. k BY <1>1
  <2> QED BY <2>1, <2>2, <2>3
<1>3. n + 1 \in 1 .. n + 1 /\ 1 .. n \subseteq 1 .. n + 1 OBVIOUS
<1> QED BY <1>1, <1>2, <1>3 DEF Grown

\* ... and with them only.
LEMMA AnsweredOn ==
  ASSUME NEW b \in Seq(Message), NEW h \in Seq(Message), NEW g,
         Quiet(h, g), Replies(h, g), Answered(b, h)
  PROVE  Answered(b, g)
<1> PICK n \in Nat : n = Len(b) OBVIOUS
<1> PICK k \in Nat : k = Len(h) OBVIOUS
<1> PICK j \in Nat : j = Len(g) BY DEF Keeps, Quiet
<1> SUFFICES ASSUME NEW i \in n + 2 .. j
             PROVE  g[i].role \in {"assistant", "tool"} /\ g[i].session = NoSession
  BY DEF Answered
<1>1. CASE i <= k
  <2>1. i \in 1 .. k /\ i \in n + 2 .. k BY <1>1
  <2>2. h[i].role \in {"assistant", "tool"} /\ h[i].session = NoSession
    BY <2>1 DEF Answered
  <2>3. g[i].role = h[i].role /\ g[i].session = h[i].session BY <2>1, KeptAlike DEF Quiet
  <2> QED BY <2>2, <2>3
<1>2. CASE i > k
  <2>1. i \in k + 1 .. j BY <1>2
  <2> QED BY <2>1 DEF Quiet, Replies
<1> QED BY <1>1, <1>2

\* What is recorded is seen.
LEMMA CoveredOn ==
  ASSUME NEW h \in Seq(Message), NEW g, NEW l, Continues(h, g), Covered(h, l),
         \A i \in Len(h) + 1 .. Len(g) : ~g[i].hidden
  PROVE  Covered(g, l)
<1> PICK k \in Nat : k = Len(h) OBVIOUS
<1> PICK j \in Nat : j = Len(g) BY DEF Continues
<1>0. DOMAIN h = 1 .. k /\ DOMAIN g = 1 .. j /\ k <= j BY DEF Continues
<1>1. \A i \in 1 .. k : i \in 1 .. j /\ g[i] = h[i] BY <1>0 DEF Continues
<1> SUFFICES ASSUME NEW i \in 1 .. j, NEW x \in g[i].tells, x \notin l
             PROVE  \E n \in 1 .. j : ~g[n].hidden /\ x \in g[n].tells
  BY <1>0 DEF Covered, Told, Seen
<1>2. CASE i \in 1 .. k
  <2>1. x \in Told(h) BY <1>0, <1>1, <1>2 DEF Told
  <2>2. PICK n \in 1 .. k : ~h[n].hidden /\ x \in h[n].tells
    BY <2>1, <1>0 DEF Covered, Seen
  <2> QED BY <2>2, <1>1
<1>3. CASE i \notin 1 .. k
  <2>1. i \in k + 1 .. j BY <1>3
  <2> QED BY <2>1
<1> QED BY <1>2, <1>3

\* What is lost stays lost, what is known known, and pruned sessions pruned.
LEMMA CoveredMore ==
  ASSUME NEW h, NEW l, NEW l2, Covered(h, l), l \subseteq l2
  PROVE  Covered(h, l2)
BY DEF Covered

LEMMA InformedMore ==
  ASSUME NEW h \in Seq(Message), NEW l, NEW l2, NEW kn, NEW kn2, NEW g, NEW g2,
         Informed(h, l, kn, g), l \subseteq l2, g \subseteq g2,
         \A s \in Session : kn[s] \subseteq kn2[s]
  PROVE  Informed(h, l2, kn2, g2)
<1> SUFFICES ASSUME NEW pos \in DOMAIN h, Newest(h, pos), h[pos].session \notin g2,
                    NEW j \in DOMAIN h, j <= pos \/ h[j].claude
             PROVE  h[j].tells \subseteq l2 \cup kn2[h[pos].session]
  BY DEF Informed
<1>1. h[j].tells \subseteq l \cup kn[h[pos].session] BY DEF Informed
<1>2. h[pos] \in Message OBVIOUS
<1>3. h[pos].session \in Session BY <1>2, Fields DEF Newest
<1> QED BY <1>1, <1>3

\* What API turns record leaves the newest session where it is.
LEMMA InformedOn ==
  ASSUME NEW h \in Seq(Message), NEW g, NEW l, NEW kn, NEW gn,
         Quiet(h, g), Informed(h, l, kn, gn)
  PROVE  Informed(g, l, kn, gn)
<1> PICK k \in Nat : k = Len(h) OBVIOUS
<1> PICK m \in Nat : m = Len(g) BY DEF Keeps, Quiet
<1>0. DOMAIN h = 1 .. k /\ DOMAIN g = 1 .. m /\ k <= m BY DEF Keeps, Quiet
<1>1. \A i \in 1 .. k : /\ i \in 1 .. m /\ g[i].session = h[i].session
                        /\ g[i].claude = h[i].claude /\ g[i].tells = h[i].tells
  BY <1>0, KeptAlike DEF Quiet
<1>2. \A i \in 1 .. m : i \in 1 .. k \/ (g[i].session = NoSession /\ ~g[i].claude)
  <2> SUFFICES ASSUME NEW i \in 1 .. m, i \notin 1 .. k
               PROVE  g[i].session = NoSession /\ ~g[i].claude
    OBVIOUS
  <2>1. i \in k + 1 .. m OBVIOUS
  <2> QED BY <2>1 DEF Quiet
<1> SUFFICES ASSUME NEW pos \in 1 .. m, Newest(g, pos), g[pos].session \notin gn,
                    NEW j \in 1 .. m, j <= pos \/ g[j].claude
             PROVE  g[j].tells \subseteq l \cup kn[g[pos].session]
  BY <1>0 DEF Informed
<1>3. pos \in 1 .. k BY <1>2 DEF Newest
<1>4. j \in 1 .. k BY <1>2, <1>3
<1>5. Newest(h, pos)
  <2>1. \A i \in pos + 1 .. k : i \in pos + 1 .. m /\ g[i].session = h[i].session
    BY <1>0, <1>1, <1>3
  <2> QED BY <2>1, <1>0, <1>1, <1>3 DEF Newest
<1>6. h[j].tells \subseteq l \cup kn[h[pos].session]
  BY <1>0, <1>1, <1>3, <1>4, <1>5 DEF Informed
<1> QED BY <1>6, <1>1, <1>3, <1>4

\* A system prompt stays mute.
LEMMA MuteOn ==
  ASSUME NEW h \in Seq(Message), NEW g, Keeps(h, g), Mute(h),
         \A i \in Len(h) + 1 .. Len(g) : g[i].role # "system"
  PROVE  Mute(g)
<1> PICK k \in Nat : k = Len(h) OBVIOUS
<1> PICK m \in Nat : m = Len(g) BY DEF Keeps
<1>0. DOMAIN h = 1 .. k /\ DOMAIN g = 1 .. m /\ k <= m BY DEF Keeps
<1> SUFFICES ASSUME NEW i \in 1 .. m, g[i].role = "system" PROVE g[i].tells = {}
  BY <1>0 DEF Mute
<1>1. i \in 1 .. k
  <2> SUFFICES ASSUME i \notin 1 .. k PROVE FALSE OBVIOUS
  <2>1. i \in k + 1 .. m OBVIOUS
  <2> QED BY <2>1
<1>2. g[i].role = h[i].role /\ g[i].tells = h[i].tells BY <1>1, KeptAlike
<1> QED BY <1>0, <1>1, <1>2 DEF Mute

\* A prefix that leaves out no session.
LEMMA InformedBack ==
  ASSUME NEW h \in Seq(Message), NEW n \in 0 .. Len(h), NEW l, NEW kn, NEW gn,
         Informed(h, l, kn, gn), \A i \in n + 1 .. Len(h) : h[i].session = NoSession
  PROVE  Informed(SubSeq(h, 1, n), l, kn, gn)
<1> PICK k \in Nat : k = Len(h) OBVIOUS
<1>00. SubSeq(h, 1, n) \in Seq(Message) OBVIOUS
<1> PICK g \in Seq(Message) : g = SubSeq(h, 1, n) BY <1>00
<1>0. DOMAIN h = 1 .. k /\ DOMAIN g = 1 .. n /\ Len(g) = n OBVIOUS
<1>1. \A i \in 1 .. n : i \in 1 .. k /\ g[i] = h[i] BY <1>0
<1> SUFFICES ASSUME NEW pos \in 1 .. n, Newest(g, pos), g[pos].session \notin gn,
                    NEW j \in 1 .. n, j <= pos \/ g[j].claude
             PROVE  g[j].tells \subseteq l \cup kn[g[pos].session]
  BY <1>0 DEF Informed
<1>2. Newest(h, pos)
  <2>1. h[pos].session # NoSession BY <1>1 DEF Newest
  <2> SUFFICES ASSUME NEW i \in pos + 1 .. k PROVE h[i].session = NoSession
    BY <2>1, <1>0, <1>1 DEF Newest
  <2>2. CASE i <= n
    <3>1. i \in pos + 1 .. n /\ i \in 1 .. n BY <2>2
    <3> QED BY <3>1, <1>0, <1>1 DEF Newest
  <2>3. CASE i > n
    <3>1. i \in n + 1 .. k BY <2>3
    <3> QED BY <3>1
  <2> QED BY <2>2, <2>3
<1>3. h[j].tells \subseteq l \cup kn[h[pos].session] BY <1>0, <1>1, <1>2 DEF Informed
<1> QED BY <1>1, <1>3

-----------------------------------------------------------------------------
(* Rolling a turn back.                                                    *)

\* The greatest of numbers.
LEMMA MaxIs ==
  ASSUME NEW S \in SUBSET Nat, NEW x \in S, \A y \in S : x >= y
  PROVE  Max(S) = x
<1>1. Max(S) \in S /\ \A y \in S : Max(S) >= y BY DEF Max
<1>2. Max(S) >= x /\ x >= Max(S) BY <1>1
<1>3. Max(S) \in Nat /\ x \in Nat BY <1>1
<1> QED BY <1>2, <1>3

\* What is left of a turn that failed is what there was before it.
LEMMA Back ==
  ASSUME NEW b \in Seq(Message), NEW h \in Seq(Message), Grown(b, h), Answered(b, h)
  PROVE  RolledBack(h) = SubSeq(h, 1, Len(b))
<1> PICK n \in Nat : n = Len(b) OBVIOUS
<1> PICK k \in Nat : k = Len(h) OBVIOUS
<1> DEFINE S == {i \in DOMAIN h : h[i].role \in {"system", "user"}}
<1>1. n + 1 \in S BY DEF Grown
<1>2. \A y \in S : n + 1 >= y
  <2> SUFFICES ASSUME NEW y \in S, n + 2 <= y PROVE FALSE OBVIOUS
  <2>1. y \in n + 2 .. k OBVIOUS
  <2>2. h[y].role \in {"assistant", "tool"} BY <2>1 DEF Answered
  <2> QED BY <2>2
<1>3. Max(S) = n + 1
  <2>1. S \in SUBSET Nat OBVIOUS
  <2> HIDE DEF S
  <2> QED BY <1>1, <1>2, <2>1, MaxIs
<1>4. h[n + 1].role = "user" /\ (n + 1) - 1 = n BY DEF Grown
<1> QED BY <1>3, <1>4 DEF RolledBack

-----------------------------------------------------------------------------
(* The folds of the view, as functions.                                    *)

\* Of the numbers outside S one would be the least, but the one before is smaller.
LEMMA SetInduction ==
  ASSUME NEW S \in SUBSET Nat, 0 \in S, \A n \in S : n + 1 \in S
  PROVE  S = Nat
<1> SUFFICES ASSUME S # Nat PROVE FALSE OBVIOUS
<1> DEFINE T == Nat \ S
<1>1. PICK x \in T : \A y \in T : x <= y
  <2>1. T \in SUBSET Nat /\ T # {} OBVIOUS
  <2> HIDE DEF T
  <2> QED BY <2>1, Least
<1>2. x # 0 /\ x - 1 \in Nat OBVIOUS
<1>3. x - 1 \in S BY <1>1, <1>2
<1>4. (x - 1) + 1 = x OBVIOUS
<1> QED BY <1>3, <1>4

\* ... and from a to b.
LEMMA RangeInduction ==
  ASSUME NEW a \in Int, NEW b \in Int, NEW S,
         a \in S, \A i \in a .. b - 1 : i \in S => i + 1 \in S
  PROVE  a .. b \subseteq S
<1> DEFINE R == {n \in Nat : a + n > b \/ a + n \in S}
<1>1. 0 \in R OBVIOUS
<1>2. \A n \in R : n + 1 \in R
  <2> SUFFICES ASSUME NEW n \in R, a + (n + 1) <= b PROVE a + (n + 1) \in S OBVIOUS
  <2>1. a + n \in a .. b - 1 /\ a + n \in S OBVIOUS
  <2>2. (a + n) + 1 = a + (n + 1) OBVIOUS
  <2> QED BY <2>1, <2>2
<1>3. R = Nat
  <2>1. R \in SUBSET Nat OBVIOUS
  <2> HIDE DEF R
  <2> QED BY <1>1, <1>2, <2>1, SetInduction
<1> SUFFICES ASSUME NEW i \in a .. b PROVE i \in S OBVIOUS
<1>4. i - a \in R
  <2>1. i - a \in Nat OBVIOUS
  <2> HIDE DEF R
  <2> QED BY <1>3, <2>1
<1>5. a + (i - a) = i OBVIOUS
<1> QED BY <1>4, <1>5

\* g folds i steps by the table G, whatever the steps.
Solves(g, i, D, e, G) ==
  /\ g \in [SUBSET (1 .. i) -> D]
  /\ \A s \in SUBSET (1 .. i) :
       g[s] = IF s = {} THEN e ELSE G[Max(s)][g[s \ {Max(s)}]]

\* There is such a fold.
LEMMA FoldSolved ==
  ASSUME NEW n \in Nat, NEW D, NEW e \in D, NEW G \in [1 .. n -> [D -> D]]
  PROVE  \E g : Solves(g, n, D, e, G)
<1> DEFINE S == {i \in Nat : i <= n => \E g : Solves(g, i, D, e, G)}
<1>1. 0 \in S
  <2> DEFINE g == [s \in SUBSET (1 .. 0) |-> e]
  <2>1. g \in [SUBSET (1 .. 0) -> D] OBVIOUS
  <2>2. \A s \in SUBSET (1 .. 0) : s = {} /\ g[s] = e OBVIOUS
  <2> HIDE DEF g
  <2>3. Solves(g, 0, D, e, G) BY <2>1, <2>2 DEF Solves
  <2> QED BY <2>3
<1>2. ASSUME NEW i \in Nat, i \in S, i + 1 <= n
      PROVE  \E g : Solves(g, i + 1, D, e, G)
  <2>0. i + 1 \in 1 .. n BY <1>2
  <2>1. PICK f : Solves(f, i, D, e, G) BY <1>2
  <2> DEFINE g == [s \in SUBSET (1 .. i + 1) |->
                     IF i + 1 \in s THEN G[i + 1][f[s \ {i + 1}]] ELSE f[s]]
  <2>2. \A s \in SUBSET (1 .. i + 1) : s \ {i + 1} \in SUBSET (1 .. i) BY <2>0
  <2>3. g \in [SUBSET (1 .. i + 1) -> D]
    <3> SUFFICES ASSUME NEW s \in SUBSET (1 .. i + 1) PROVE g[s] \in D OBVIOUS
    <3>1. CASE i + 1 \in s
      <4>1. f[s \ {i + 1}] \in D BY <2>1, <2>2 DEF Solves
      <4>2. G[i + 1] \in [D -> D] BY <2>0
      <4> QED BY <3>1, <4>1, <4>2
    <3>2. CASE i + 1 \notin s
      <4>1. s \in SUBSET (1 .. i) BY <2>2, <3>2
      <4> QED BY <2>1, <3>2, <4>1 DEF Solves
    <3> QED BY <3>1, <3>2
  <2>4. \A s \in SUBSET (1 .. i + 1) : i + 1 \in s => g[s] = G[i + 1][f[s \ {i + 1}]]
    OBVIOUS
  <2>5. \A s \in SUBSET (1 .. i + 1) : i + 1 \notin s => g[s] = f[s] OBVIOUS
  <2> HIDE DEF g
  <2>6. ASSUME NEW s \in SUBSET (1 .. i + 1)
        PROVE  g[s] = IF s = {} THEN e ELSE G[Max(s)][g[s \ {Max(s)}]]
    <3>1. CASE i + 1 \in s
      <4>1. Max(s) = i + 1
        <5>1. s \in SUBSET Nat /\ \A y \in s : i + 1 >= y BY <1>2
        <5> QED BY <3>1, <5>1, MaxIs
      <4>2. s \ {i + 1} \in SUBSET (1 .. i + 1) /\ i + 1 \notin s \ {i + 1} OBVIOUS
      <4>3. g[s \ {i + 1}] = f[s \ {i + 1}] BY <2>5, <4>2
      <4> QED BY <2>4, <3>1, <4>1, <4>3
    <3>2. CASE i + 1 \notin s
      <4>1. s \in SUBSET (1 .. i) BY <2>2, <3>2
      <4>2. f[s] = IF s = {} THEN e ELSE G[Max(s)][f[s \ {Max(s)}]]
        BY <2>1, <4>1 DEF Solves
      <4>3. s \ {Max(s)} \in SUBSET (1 .. i + 1) /\ i + 1 \notin s \ {Max(s)}
        BY <3>2
      <4>4. g[s \ {Max(s)}] = f[s \ {Max(s)}] BY <2>5, <4>3
      <4>5. g[s] = f[s] BY <2>5, <3>2
      <4> QED BY <4>2, <4>4, <4>5
    <3> QED BY <3>1, <3>2
  <2>7. Solves(g, i + 1, D, e, G) BY <2>3, <2>6 DEF Solves
  <2> QED BY <2>7
<1>3. S = Nat
  <2>1. \A i \in S : i + 1 \in S
    <3> SUFFICES ASSUME NEW i \in S, i + 1 <= n PROVE \E g : Solves(g, i + 1, D, e, G)
      OBVIOUS
    <3>1. i \in Nat OBVIOUS
    <3> HIDE DEF S
    <3> QED BY <1>2, <3>1
  <2>2. S \in SUBSET Nat OBVIOUS
  <2> HIDE DEF S
  <2> QED BY <1>1, <2>1, <2>2, SetInduction
<1>4. n \in S
  <2> HIDE DEF S
  <2> QED BY <1>3
<1> QED BY <1>4

\* The last step of i ones.
LEMMA LastStep ==
  ASSUME NEW n \in Nat, NEW i \in 1 .. n
  PROVE  /\ Max(1 .. i) = i /\ 1 .. i \in SUBSET (1 .. n) /\ 1 .. i # {}
         /\ (1 .. i) \ {i} = 1 .. i - 1 /\ i \in 0 .. n /\ i - 1 \in 0 .. n
<1>1. 1 .. i \in SUBSET Nat /\ i \in 1 .. i /\ \A y \in 1 .. i : i >= y OBVIOUS
<1>2. Max(1 .. i) = i BY <1>1, MaxIs
<1>3. (1 .. i) \ {i} = 1 .. i - 1 OBVIOUS
<1>4. 1 .. i \in SUBSET (1 .. n) OBVIOUS
<1>5. i \in 0 .. n /\ i - 1 \in 0 .. n OBVIOUS
<1> QED BY <1>1, <1>2, <1>3, <1>4, <1>5

\* F has the results of the first steps of flattening v.
Flattens(v, F) ==
  /\ F \in [0 .. Len(v) -> Seq(Message)]
  /\ F[0] = <<>>
  /\ \A i \in 1 .. Len(v) : F[i] = Folded(F[i - 1], v[i])
  /\ FlattenClaudeTurns(v) = F[Len(v)]

\* Flattening a step.
LEMMA FoldedType ==
  ASSUME NEW out \in Seq(Message), NEW m \in Message
  PROVE  Folded(out, m) \in Seq(Message)
<1>1. CASE ~FromClaude(m) BY <1>1 DEF Folded
<1>2. CASE FromClaude(m)
  <2>1. CASE out # <<>> /\ FromClaude(Last(out))
    <3> PICK n \in Nat : n = Len(out) OBVIOUS
    <3>1. n \in 1 .. n /\ Last(out) = out[n] BY <2>1 DEF Last
    <3>2. PICK x : x = [out[n] EXCEPT !.tells = @ \cup m.tells] OBVIOUS
    <3>3. x \in Message
      <4>1. out[n] \in Message BY <3>1
      <4> QED BY <3>2, <4>1 DEF Message
    <3>4. Folded(out, m) = [out EXCEPT ![n] = x] BY <1>2, <2>1, <3>2 DEF Folded
    <3>5. [out EXCEPT ![n] = x] \in Seq(Message)
      <4>1. out \in [1 .. n -> Message] OBVIOUS
      <4>2. [out EXCEPT ![n] = x] \in [1 .. n -> Message] BY <3>3, <4>1
      <4> QED BY <4>2
    <3> QED BY <3>4, <3>5
  <2>2. CASE ~(out # <<>> /\ FromClaude(Last(out)))
    <3>1. PICK y : y = [m EXCEPT !.role = "assistant"] OBVIOUS
    <3>2. PICK x : x = [y EXCEPT !.calls = 0] OBVIOUS
    <3>3. x \in Message
      <4>1. y \in Message BY <3>1 DEF Message
      <4>2. 0 \in 0 .. MaxCalls BY ConversationAssumption
      <4> QED BY <3>2, <4>1, <4>2 DEF Message
    <3>4. x = [m EXCEPT !.role = "assistant", !.calls = 0] BY <3>1, <3>2
    <3>5. Folded(out, m) = Append(out, x) BY <1>2, <2>2, <3>4 DEF Folded
    <3> QED BY <3>3, <3>5
  <2> QED BY <2>1, <2>2
<1> QED BY <1>1, <1>2

\* So has one, and the last is what FlattenClaudeTurns returns.
LEMMA FlattensIs ==
  ASSUME NEW v \in Seq(Message)
  PROVE  \E F : Flattens(v, F)
<1> PICK n \in Nat : n = Len(v) OBVIOUS
<1>0. DOMAIN v = 1 .. n OBVIOUS
<1> DEFINE D == Seq(Message)
<1>1. <<>> \in D OBVIOUS
<1>2. PICK G : G = [i \in 1 .. n |-> [d \in D |-> Folded(d, v[i])]] OBVIOUS
<1>3. G \in [1 .. n -> [D -> D]]
  <2>1. \A i \in 1 .. n : v[i] \in Message OBVIOUS
  <2> QED BY <1>2, <2>1, FoldedType
<1>4. PICK g : Solves(g, n, D, <<>>, G)
  <2> HIDE DEF D
  <2> QED BY <1>1, <1>3, FoldSolved
<1>5. \A s \in SUBSET (1 .. n) : s # {} => Max(s) \in s
  <2>1. \A s \in SUBSET (1 .. n) : s \in SUBSET (0 .. n) OBVIOUS
  <2> QED BY <2>1, MaxOf
<1>6. \A s \in SUBSET (1 .. n) :
        g[s] = IF s = {} THEN <<>> ELSE Folded(g[s \ {Max(s)}], v[Max(s)])
  <2> SUFFICES ASSUME NEW s \in SUBSET (1 .. n), s # {}
               PROVE  g[s] = Folded(g[s \ {Max(s)}], v[Max(s)])
    BY <1>4 DEF Solves
  <2>1. Max(s) \in 1 .. n BY <1>5
  <2>2. PICK x \in 1 .. n : x = Max(s) BY <2>1
  <2>3. g[s] = G[x][g[s \ {x}]] /\ g[s \ {x}] \in D BY <1>4, <2>2 DEF Solves
  <2> HIDE DEF D
  <2> QED BY <1>2, <2>2, <2>3
<1>7. g = [s \in SUBSET (1 .. n) |->
             IF s = {} THEN <<>> ELSE LET x == Max(s) IN Folded(g[s \ {x}], v[x])]
  <2>1. g = [s \in SUBSET (1 .. n) |-> g[s]] BY <1>4 DEF Solves
  <2> QED BY <1>6, <2>1
<1> DEFINE iter[s \in SUBSET (1 .. n)] == 
             IF s = {} THEN <<>> ELSE LET x == Max(s) IN Folded(iter[s \ {x}], v[x])
<1>8. FlattenClaudeTurns(v) = iter[1 .. n]
  BY <1>0 DEF FlattenClaudeTurns, FoldLeft, MapThenFoldSet
<1>9. iter = [s \in SUBSET (1 .. n) |->
             IF s = {} THEN <<>> ELSE LET x == Max(s) IN Folded(iter[s \ {x}], v[x])]
  BY <1>7
<1> HIDE DEF iter
<1>10. iter[1 .. 0] = <<>> BY <1>9
<1>11. \A i \in 1 .. n : iter[1 .. i] = Folded(iter[1 .. i - 1], v[i])
  <2> SUFFICES ASSUME NEW i \in 1 .. n PROVE iter[1 .. i] = Folded(iter[1 .. i - 1], v[i])
    OBVIOUS
  <2>1. Max(1 .. i) = i /\ 1 .. i \in SUBSET (1 .. n) /\ 1 .. i # {}
        /\ (1 .. i) \ {i} = 1 .. i - 1
    BY LastStep
  <2> QED BY <1>9, <2>1
<1> DEFINE F == [i \in 0 .. n |-> iter[1 .. i]]
<1>12. \A i \in 0 .. n : F[i] = iter[1 .. i] OBVIOUS
<1> HIDE DEF F
<1>13. F[0] = <<>> BY <1>10, <1>12
<1>14. \A i \in 1 .. n : F[i] = Folded(F[i - 1], v[i])
  BY <1>11, <1>12, LastStep
<1> DEFINE S == {i \in 0 .. n : F[i] \in D}
<1>15. 0 .. n \subseteq S
  <2>1. 0 \in S
    <3> HIDE DEF D
    <3> QED BY <1>1, <1>13
  <2>2. ASSUME NEW i \in 0 .. n - 1, i \in S PROVE i + 1 \in S
    <3>1. i + 1 \in 1 .. n /\ i + 1 \in 0 .. n /\ (i + 1) - 1 = i OBVIOUS
    <3>2. v[i + 1] \in Message BY <3>1
    <3>3. F[i + 1] \in D BY <1>14, <2>2, <3>1, <3>2, FoldedType
    <3> HIDE DEF D
    <3> QED BY <3>1, <3>3
  <2>3. \A i \in 0 .. n - 1 : i \in S => i + 1 \in S BY <2>2
  <2>4. 0 \in Int /\ n \in Int OBVIOUS
  <2> HIDE DEF S
  <2> QED BY <2>1, <2>3, <2>4, RangeInduction
<1>16. F \in [0 .. n -> D]
  <2>1. F = [i \in 0 .. n |-> F[i]] BY <1>12 DEF F
  <2> HIDE DEF D
  <2> QED BY <1>15, <2>1
<1> QED BY <1>8, <1>12, <1>13, <1>14, <1>16 DEF Flattens

\* The last pass of Wire.
Undoubled(v) == FoldLeft(Deduped, <<>>, v)

\* F has the results of its first steps.
Dedupes(v, F) ==
  /\ F \in [0 .. Len(v) -> Seq(Message)]
  /\ F[0] = <<>>
  /\ \A i \in 1 .. Len(v) : F[i] = Deduped(F[i - 1], v[i])
  /\ Undoubled(v) = F[Len(v)]

\* Removing a doubled role, a step.
LEMMA DedupedType ==
  ASSUME NEW out \in Seq(Message), NEW m \in Message
  PROVE  Deduped(out, m) \in Seq(Message)
<1> PICK n \in Nat : n = Len(out) OBVIOUS
<1>1. Append(out, m) \in Seq(Message) OBVIOUS
<1>2. [out EXCEPT ![n] = m] \in Seq(Message)
  <2>1. out \in [1 .. n -> Message] OBVIOUS
  <2>2. [out EXCEPT ![n] = m] \in [1 .. n -> Message] BY <2>1
  <2> QED BY <2>2
<1> QED BY <1>1, <1>2 DEF Deduped

\* So has one, and the last is what Wire sends.
LEMMA DedupesIs ==
  ASSUME NEW v \in Seq(Message)
  PROVE  \E F : Dedupes(v, F)
<1> PICK n \in Nat : n = Len(v) OBVIOUS
<1>0. DOMAIN v = 1 .. n OBVIOUS
<1> DEFINE D == Seq(Message)
<1>1. <<>> \in D OBVIOUS
<1>2. PICK G : G = [i \in 1 .. n |-> [d \in D |-> Deduped(d, v[i])]] OBVIOUS
<1>3. G \in [1 .. n -> [D -> D]]
  <2>1. \A i \in 1 .. n : v[i] \in Message OBVIOUS
  <2> QED BY <1>2, <2>1, DedupedType
<1>4. PICK g : Solves(g, n, D, <<>>, G)
  <2> HIDE DEF D
  <2> QED BY <1>1, <1>3, FoldSolved
<1>5. \A s \in SUBSET (1 .. n) : s # {} => Max(s) \in s
  <2>1. \A s \in SUBSET (1 .. n) : s \in SUBSET (0 .. n) OBVIOUS
  <2> QED BY <2>1, MaxOf
<1>6. \A s \in SUBSET (1 .. n) :
        g[s] = IF s = {} THEN <<>> ELSE Deduped(g[s \ {Max(s)}], v[Max(s)])
  <2> SUFFICES ASSUME NEW s \in SUBSET (1 .. n), s # {}
               PROVE  g[s] = Deduped(g[s \ {Max(s)}], v[Max(s)])
    BY <1>4 DEF Solves
  <2>1. Max(s) \in 1 .. n BY <1>5
  <2>2. PICK x \in 1 .. n : x = Max(s) BY <2>1
  <2>3. g[s] = G[x][g[s \ {x}]] /\ g[s \ {x}] \in D BY <1>4, <2>2 DEF Solves
  <2> HIDE DEF D
  <2> QED BY <1>2, <2>2, <2>3
<1>7. g = [s \in SUBSET (1 .. n) |->
             IF s = {} THEN <<>> ELSE LET x == Max(s) IN Deduped(g[s \ {x}], v[x])]
  <2>1. g = [s \in SUBSET (1 .. n) |-> g[s]] BY <1>4 DEF Solves
  <2> QED BY <1>6, <2>1
<1> DEFINE iter[s \in SUBSET (1 .. n)] == 
             IF s = {} THEN <<>> ELSE LET x == Max(s) IN Deduped(iter[s \ {x}], v[x])
<1>8. Undoubled(v) = iter[1 .. n]
  BY <1>0 DEF Undoubled, FoldLeft, MapThenFoldSet
<1>9. iter = [s \in SUBSET (1 .. n) |->
             IF s = {} THEN <<>> ELSE LET x == Max(s) IN Deduped(iter[s \ {x}], v[x])]
  BY <1>7
<1> HIDE DEF iter
<1>10. iter[1 .. 0] = <<>> BY <1>9
<1>11. \A i \in 1 .. n : iter[1 .. i] = Deduped(iter[1 .. i - 1], v[i])
  <2> SUFFICES ASSUME NEW i \in 1 .. n PROVE iter[1 .. i] = Deduped(iter[1 .. i - 1], v[i])
    OBVIOUS
  <2>1. Max(1 .. i) = i /\ 1 .. i \in SUBSET (1 .. n) /\ 1 .. i # {}
        /\ (1 .. i) \ {i} = 1 .. i - 1
    BY LastStep
  <2> QED BY <1>9, <2>1
<1> DEFINE F == [i \in 0 .. n |-> iter[1 .. i]]
<1>12. \A i \in 0 .. n : F[i] = iter[1 .. i] OBVIOUS
<1> HIDE DEF F
<1>13. F[0] = <<>> BY <1>10, <1>12
<1>14. \A i \in 1 .. n : F[i] = Deduped(F[i - 1], v[i])
  BY <1>11, <1>12, LastStep
<1> DEFINE S == {i \in 0 .. n : F[i] \in D}
<1>15. 0 .. n \subseteq S
  <2>1. 0 \in S
    <3> HIDE DEF D
    <3> QED BY <1>1, <1>13
  <2>2. ASSUME NEW i \in 0 .. n - 1, i \in S PROVE i + 1 \in S
    <3>1. i + 1 \in 1 .. n /\ i + 1 \in 0 .. n /\ (i + 1) - 1 = i OBVIOUS
    <3>2. v[i + 1] \in Message BY <3>1
    <3>3. F[i + 1] \in D BY <1>14, <2>2, <3>1, <3>2, DedupedType
    <3> HIDE DEF D
    <3> QED BY <3>1, <3>3
  <2>3. \A i \in 0 .. n - 1 : i \in S => i + 1 \in S BY <2>2
  <2>4. 0 \in Int /\ n \in Int OBVIOUS
  <2> HIDE DEF S
  <2> QED BY <2>1, <2>3, <2>4, RangeInduction
<1>16. F \in [0 .. n -> D]
  <2>1. F = [i \in 0 .. n |-> F[i]] BY <1>12 DEF F
  <2> HIDE DEF D
  <2> QED BY <1>15, <2>1
<1> QED BY <1>8, <1>12, <1>13, <1>14, <1>16 DEF Dedupes

\* One step of selecting.
Picked(h, S, out, i) == IF i \in S THEN Append(out, h[i]) ELSE out

\* It makes a history.
LEMMA PickedType ==
  ASSUME NEW h \in Seq(Message), NEW S, NEW out \in Seq(Message), NEW i \in DOMAIN h
  PROVE  Picked(h, S, out, i) \in Seq(Message)
<1>1. h[i] \in Message OBVIOUS
<1> QED BY <1>1 DEF Picked

\* F has the results of the first steps of selecting.
Selects(v, S, F) ==
  /\ F \in [0 .. Len(v) -> Seq(Message)]
  /\ F[0] = <<>>
  /\ \A i \in 1 .. Len(v) : F[i] = Picked(v, S, F[i - 1], i)
  /\ Selection(v, S) = F[Len(v)]

\* So has one, and the last is the selection.
LEMMA SelectsIs ==
  ASSUME NEW v \in Seq(Message), NEW S
  PROVE  \E F : Selects(v, S, F)
<1> PICK n \in Nat : n = Len(v) OBVIOUS
<1>0. DOMAIN v = 1 .. n OBVIOUS
<1> DEFINE D == Seq(Message)
<1>1. <<>> \in D OBVIOUS
<1>2. PICK G : G = [i \in 1 .. n |-> [d \in D |-> Picked(v, S, d, i)]] OBVIOUS
<1>3. G \in [1 .. n -> [D -> D]]
  <2>1. \A i \in 1 .. n : v[i] \in Message OBVIOUS
  <2> QED BY <1>2, <2>1, PickedType
<1>4. PICK g : Solves(g, n, D, <<>>, G)
  <2> HIDE DEF D
  <2> QED BY <1>1, <1>3, FoldSolved
<1>5. \A s \in SUBSET (1 .. n) : s # {} => Max(s) \in s
  <2>1. \A s \in SUBSET (1 .. n) : s \in SUBSET (0 .. n) OBVIOUS
  <2> QED BY <2>1, MaxOf
<1>6. \A s \in SUBSET (1 .. n) :
        g[s] = IF s = {} THEN <<>> ELSE Picked(v, S, g[s \ {Max(s)}], Max(s))
  <2> SUFFICES ASSUME NEW s \in SUBSET (1 .. n), s # {}
               PROVE  g[s] = Picked(v, S, g[s \ {Max(s)}], Max(s))
    BY <1>4 DEF Solves
  <2>1. Max(s) \in 1 .. n BY <1>5
  <2>2. PICK x \in 1 .. n : x = Max(s) BY <2>1
  <2>3. g[s] = G[x][g[s \ {x}]] /\ g[s \ {x}] \in D BY <1>4, <2>2 DEF Solves
  <2> HIDE DEF D
  <2> QED BY <1>2, <2>2, <2>3
<1> DEFINE id == [i \in DOMAIN v |-> i]
<1>a. \A i \in 1 .. n : id[i] = i BY <1>0
<1>7. g = [s \in SUBSET (1 .. n) |->
             IF s = {} THEN <<>> ELSE LET x == Max(s) IN Picked(v, S, g[s \ {x}], id[x])]
  <2>1. g = [s \in SUBSET (1 .. n) |-> g[s]] BY <1>4 DEF Solves
  <2>2. \A s \in SUBSET (1 .. n) : s # {} => id[Max(s)] = Max(s) BY <1>5, <1>a
  <2> HIDE DEF id
  <2> QED BY <1>6, <2>1, <2>2
<1> DEFINE iter[s \in SUBSET (1 .. n)] == 
             IF s = {} THEN <<>> ELSE LET x == Max(s) IN Picked(v, S, iter[s \ {x}], id[x])
<1>8. Selection(v, S) = iter[1 .. n]
  BY <1>0 DEF Selection, FoldLeftDomain, FoldLeft, MapThenFoldSet, Picked
<1>9. iter = [s \in SUBSET (1 .. n) |->
             IF s = {} THEN <<>> ELSE LET x == Max(s) IN Picked(v, S, iter[s \ {x}], id[x])]
  BY <1>7
<1> HIDE DEF iter, id
<1>10. iter[1 .. 0] = <<>> BY <1>9
<1>11. \A i \in 1 .. n : iter[1 .. i] = Picked(v, S, iter[1 .. i - 1], i)
  <2> SUFFICES ASSUME NEW i \in 1 .. n PROVE iter[1 .. i] = Picked(v, S, iter[1 .. i - 1], i)
    OBVIOUS
  <2>1. Max(1 .. i) = i /\ 1 .. i \in SUBSET (1 .. n) /\ 1 .. i # {}
        /\ (1 .. i) \ {i} = 1 .. i - 1
    BY LastStep
  <2>2. id[i] = i BY <1>a
  <2> QED BY <1>9, <2>1, <2>2
<1> DEFINE F == [i \in 0 .. n |-> iter[1 .. i]]
<1>12. \A i \in 0 .. n : F[i] = iter[1 .. i] OBVIOUS
<1> HIDE DEF F
<1>13. F[0] = <<>> BY <1>10, <1>12
<1>14. \A i \in 1 .. n : F[i] = Picked(v, S, F[i - 1], i)
  BY <1>11, <1>12, LastStep
<1> DEFINE R == {i \in 0 .. n : F[i] \in D}
<1>15. 0 .. n \subseteq R
  <2>1. 0 \in R
    <3> HIDE DEF D
    <3> QED BY <1>1, <1>13
  <2>2. ASSUME NEW i \in 0 .. n - 1, i \in R PROVE i + 1 \in R
    <3>1. i + 1 \in 1 .. n /\ i + 1 \in 0 .. n /\ (i + 1) - 1 = i OBVIOUS
    <3>2. v[i + 1] \in Message BY <3>1
    <3>3. F[i + 1] \in D BY <1>14, <2>2, <3>1, <3>2, PickedType
    <3> HIDE DEF D
    <3> QED BY <3>1, <3>3
  <2>3. \A i \in 0 .. n - 1 : i \in R => i + 1 \in R BY <2>2
  <2>4. 0 \in Int /\ n \in Int OBVIOUS
  <2> HIDE DEF R
  <2> QED BY <2>1, <2>3, <2>4, RangeInduction
<1>16. F \in [0 .. n -> D]
  <2>1. F = [i \in 0 .. n |-> F[i]] BY <1>12 DEF F
  <2> HIDE DEF D
  <2> QED BY <1>15, <2>1
<1>17. Selection(v, S) = F[n]
  <2>1. n \in 0 .. n OBVIOUS
  <2> QED BY <1>8, <1>12, <2>1
<1>18. /\ F \in [0 .. Len(v) -> Seq(Message)]
       /\ \A i \in 1 .. Len(v) : F[i] = Picked(v, S, F[i - 1], i)
       /\ Selection(v, S) = F[Len(v)]
  BY <1>14, <1>16, <1>17
<1> HIDE DEF D, R
<1>19. Selects(v, S, F) BY <1>13, <1>18 DEF Selects
<1> QED BY <1>19

-----------------------------------------------------------------------------
(* The numbers of a set, in their order.                                   *)

\* f lists the k elements of S in their order.
Lists(f, k, S) ==
  /\ f \in [1 .. k -> S]
  /\ \A a, b \in 1 .. k : a < b => f[a] < f[b]
  /\ \A i \in S : \E a \in 1 .. k : f[a] = i

\* g lists i + 1 as well.
Adds(g, f, k, S, i) ==
  /\ Lists(g, k + 1, S \cup {i + 1}) /\ g[k + 1] = i + 1
  /\ \A a \in 1 .. k : g[a] = f[a]

\* A list goes on with the next number, if that is in the set.
LEMMA ListsMore ==
  ASSUME NEW k \in Nat, NEW i \in Nat, NEW S \in SUBSET (1 .. i), NEW f, Lists(f, k, S)
  PROVE  \E g : Adds(g, f, k, S, i)
<1> DEFINE g == [a \in 1 .. k + 1 |-> IF a = k + 1 THEN i + 1 ELSE f[a]]
<1>1. g[k + 1] = i + 1 OBVIOUS
<1>2. \A a \in 1 .. k : g[a] = f[a] /\ f[a] \in S /\ f[a] < i + 1
  <2> SUFFICES ASSUME NEW a \in 1 .. k PROVE g[a] = f[a] /\ f[a] \in S /\ f[a] < i + 1
    OBVIOUS
  <2>1. g[a] = f[a] OBVIOUS
  <2>2. f[a] \in S BY DEF Lists
  <2>3. f[a] \in 1 .. i BY <2>2
  <2> QED BY <2>1, <2>2, <2>3
<1>3. \A a \in 1 .. k + 1 : a = k + 1 \/ a \in 1 .. k OBVIOUS
<1>4. g \in [1 .. k + 1 -> S \cup {i + 1}]
  <2>1. \A a \in 1 .. k + 1 : g[a] \in S \cup {i + 1} BY <1>1, <1>2, <1>3
  <2>2. g = [a \in 1 .. k + 1 |-> g[a]] OBVIOUS
  <2> HIDE DEF g
  <2> QED BY <2>1, <2>2
<1> HIDE DEF g
<1>5. ASSUME NEW a \in 1 .. k + 1, NEW b \in 1 .. k + 1, a < b PROVE g[a] < g[b]
  <2>1. a \in 1 .. k BY <1>5
  <2>2. CASE b = k + 1 BY <1>1, <1>2, <2>1, <2>2
  <2>3. CASE b # k + 1
    <3>1. b \in 1 .. k BY <2>3
    <3> QED BY <1>2, <1>5, <2>1, <3>1 DEF Lists
  <2> QED BY <2>2, <2>3
<1>6. ASSUME NEW j \in S \cup {i + 1} PROVE \E a \in 1 .. k + 1 : g[a] = j
  <2>1. CASE j = i + 1
    <3>1. k + 1 \in 1 .. k + 1 OBVIOUS
    <3> QED BY <1>1, <2>1, <3>1
  <2>2. CASE j \in S
    <3>1. PICK a \in 1 .. k : f[a] = j BY <2>2 DEF Lists
    <3>2. a \in 1 .. k + 1 OBVIOUS
    <3> QED BY <1>2, <3>1, <3>2
  <2> QED BY <2>1, <2>2
<1>7. Lists(g, k + 1, S \cup {i + 1}) BY <1>4, <1>5, <1>6 DEF Lists
<1>8. Adds(g, f, k, S, i) BY <1>1, <1>2, <1>7 DEF Adds
<1> QED BY <1>8

\* The last of a list is the greatest.
LEMMA ListsLast ==
  ASSUME NEW k \in Nat, NEW i \in Nat, NEW S \in SUBSET (1 .. i), NEW f, Lists(f, k, S),
         i \in S
  PROVE  k > 0 /\ f[k] = i
<1>1. PICK a \in 1 .. k : f[a] = i BY DEF Lists
<1>2. a = k
  <2> SUFFICES ASSUME a < k PROVE FALSE BY <1>1
  <2>1. k \in 1 .. k /\ f[a] < f[k] BY <1>1 DEF Lists
  <2>2. f[k] \in 1 .. i BY <2>1 DEF Lists
  <2> QED BY <1>1, <2>1, <2>2
<1> QED BY <1>1, <1>2

\* A list never falls.
LEMMA ListsRise ==
  ASSUME NEW k \in Nat, NEW n \in Nat, NEW S \in SUBSET (1 .. n), NEW f, Lists(f, k, S)
  PROVE  /\ \A a \in 1 .. k : f[a] \in S /\ f[a] \in 1 .. n
         /\ \A a, b \in 1 .. k : a <= b => f[a] <= f[b]
<1>1. \A a \in 1 .. k : f[a] \in S /\ f[a] \in 1 .. n BY DEF Lists
<1> SUFFICES ASSUME NEW a \in 1 .. k, NEW b \in 1 .. k, a <= b PROVE f[a] <= f[b]
  BY <1>1
<1>2. CASE a = b BY <1>1, <1>2
<1>3. CASE a < b
  <2>1. f[a] < f[b] BY <1>3 DEF Lists
  <2> QED BY <1>1, <2>1
<1> QED BY <1>2, <1>3

\* Where a list has one of two numbers, nothing of the set is between neighbours.
LEMMA ListsNext ==
  ASSUME NEW k \in Nat, NEW n \in Nat, NEW S \in SUBSET (1 .. n), NEW f, Lists(f, k, S),
         NEW a \in 1 .. k, a + 1 \in 1 .. k
  PROVE  /\ f[a] \in S /\ f[a + 1] \in S /\ f[a] < f[a + 1]
         /\ \A i \in S : i <= f[a] \/ i >= f[a + 1]
<1>1. f[a] \in S /\ f[a + 1] \in S /\ f[a] < f[a + 1] BY DEF Lists
<1> SUFFICES ASSUME NEW i \in S, f[a] < i, i < f[a + 1] PROVE FALSE
  <2>1. f[a] \in 1 .. n /\ f[a + 1] \in 1 .. n BY <1>1
  <2> QED BY <1>1, <2>1
<1>2. PICK b \in 1 .. k : f[b] = i BY DEF Lists
<1>3. CASE b <= a
  <2>1. f[b] <= f[a] BY <1>3, ListsRise
  <2>2. f[a] \in 1 .. n /\ i \in 1 .. n BY <1>1
  <2> QED BY <1>2, <2>1, <2>2
<1>4. CASE a + 1 <= b
  <2>1. f[a + 1] <= f[b] BY <1>4, ListsRise
  <2>2. f[a + 1] \in 1 .. n /\ i \in 1 .. n BY <1>1
  <2> QED BY <1>2, <2>1, <2>2
<1> QED BY <1>3, <1>4

\* The numbers from i to i + d are in the set; the list runs from a on as they do.
RunIn(i, d, S) == \A j \in 0 .. d : i + j \in S

RunOf(f, k, a, d) == \A j \in 0 .. d : a + j \in 1 .. k /\ f[a + j] = f[a] + j

\* A run of the set is one of its list.
LEMMA ListsRun ==
  ASSUME NEW k \in Nat, NEW n \in Nat, NEW S \in SUBSET (1 .. n), NEW f, Lists(f, k, S),
         NEW a \in 1 .. k, NEW d \in Nat, RunIn(f[a], d, S)
  PROVE  RunOf(f, k, a, d)
<1>00. \A j \in 0 .. d : f[a] + j \in S BY DEF RunIn
<1> DEFINE R == {j \in 0 .. d : a + j \in 1 .. k /\ f[a + j] = f[a] + j}
<1>0. f[a] \in 1 .. n
  <2>1. f[a] \in S BY DEF Lists
  <2> QED BY <2>1
<1>1. 0 \in R BY <1>0
<1>2. ASSUME NEW j \in 0 .. d - 1, j \in R PROVE j + 1 \in R
  <2>1. a + j \in 1 .. k /\ f[a + j] = f[a] + j BY <1>2
  <2>2. f[a] + (j + 1) \in S BY <1>00
  <2>3. PICK b \in 1 .. k : f[b] = f[a] + (j + 1) BY <2>2 DEF Lists
  <2>4. a + j < b
    <3> SUFFICES ASSUME b <= a + j PROVE FALSE BY <2>1
    <3>1. f[b] <= f[a + j] BY <2>1, ListsRise
    <3> QED BY <1>0, <2>1, <2>3, <3>1
  <2>5. (a + j) + 1 \in 1 .. k BY <2>1, <2>4
  <2>6. PICK c \in 1 .. k : c = a + j BY <2>1
  <2>7. /\ f[c] < f[c + 1] /\ f[c + 1] \in S
        /\ \A i \in S : i <= f[c] \/ i >= f[c + 1]
    <3>1. c + 1 \in 1 .. k BY <2>5, <2>6
    <3> QED BY <3>1, ListsNext
  <2>8. f[c + 1] = f[a] + (j + 1)
    <3>1. f[c + 1] \in 1 .. n /\ f[c] = f[a] + j BY <2>1, <2>6, <2>7
    <3>2. f[a] + (j + 1) <= f[c] \/ f[a] + (j + 1) >= f[c + 1] BY <2>2, <2>7
    <3> QED BY <1>0, <2>7, <3>1, <3>2
  <2>9. c + 1 = a + (j + 1) BY <2>6
  <2> QED BY <2>5, <2>6, <2>8, <2>9
<1>3. 0 .. d \subseteq R
  <2>1. \A j \in 0 .. d - 1 : j \in R => j + 1 \in R BY <1>2
  <2>2. 0 \in Int /\ d \in Int OBVIOUS
  <2> HIDE DEF R
  <2> QED BY <1>1, <2>1, <2>2, RangeInduction
<1> QED BY <1>3 DEF RunOf

-----------------------------------------------------------------------------
(* Selecting messages.                                                     *)

\* Of the numbers of S, out has the messages of h up to the i-th.
Selected(h, S, out, i) ==
  \E f : /\ Lists(f, Len(out), {j \in S : j <= i})
         /\ \A a \in 1 .. Len(out) : out[a] = h[f[a]]

\* Nothing is selected of no messages.
LEMMA NothingListed ==
  ASSUME NEW S, S = {}
  PROVE  Lists(<<>>, 0, S)
<1>1. <<>> \in [1 .. 0 -> S] /\ 1 .. 0 = {} OBVIOUS
<1> QED BY <1>1 DEF Lists

\* A selection lists what was selected.
LEMMA SelectionLists ==
  ASSUME NEW h \in Seq(Message), NEW S \in SUBSET (DOMAIN h)
  PROVE  /\ Selection(h, S) \in Seq(Message)
         /\ Selected(h, S, Selection(h, S), Len(h))
<1> PICK n \in Nat : n = Len(h) OBVIOUS
<1>0. S \in SUBSET (1 .. n) OBVIOUS
<1>1. PICK F : Selects(h, S, F) BY SelectsIs
<1>2. /\ F \in [0 .. n -> Seq(Message)] /\ F[0] = <<>> /\ Selection(h, S) = F[n]
      /\ \A i \in 1 .. n : F[i] = Picked(h, S, F[i - 1], i)
  BY <1>1 DEF Selects
<1> DEFINE R == {i \in 0 .. n : Selected(h, S, F[i], i)}
<1>3. 0 \in R
  <2>1. {j \in S : j <= 0} = {} BY <1>0
  <2>2. Lists(<<>>, 0, {j \in S : j <= 0}) BY <2>1, NothingListed
  <2>3. Len(F[0]) = 0 /\ 1 .. 0 = {} BY <1>2
  <2>4. Selected(h, S, F[0], 0) BY <2>2, <2>3 DEF Selected
  <2> QED BY <2>4
<1>4. ASSUME NEW i \in 0 .. n - 1, Selected(h, S, F[i], i)
      PROVE  Selected(h, S, F[i + 1], i + 1)
  <2>0. i \in Nat /\ i + 1 \in 1 .. n /\ i \in 0 .. n /\ (i + 1) - 1 = i OBVIOUS
  <2>a. PICK s \in Seq(Message) : s = F[i] BY <1>2, <2>0
  <2>b. PICK g : g = F[i + 1] OBVIOUS
  <2>1. g = IF i + 1 \in S THEN Append(s, h[i + 1]) ELSE s
    BY <1>2, <2>0, <2>a, <2>b DEF Picked
  <2>2. PICK f : /\ Lists(f, Len(s), {j \in S : j <= i})
                 /\ \A a \in 1 .. Len(s) : s[a] = h[f[a]]
    BY <1>4, <2>a DEF Selected
  <2>3. CASE i + 1 \notin S
    <3>1. {j \in S : j <= i + 1} = {j \in S : j <= i} BY <1>0, <2>0, <2>3
    <3> QED BY <2>1, <2>2, <2>3, <2>b, <3>1 DEF Selected
  <2>4. CASE i + 1 \in S
    <3>1. {j \in S : j <= i + 1} = {j \in S : j <= i} \cup {i + 1}
      BY <1>0, <2>0, <2>4
    <3> PICK k \in Nat : k = Len(s) OBVIOUS
    <3>a. PICK T : T = {j \in S : j <= i} OBVIOUS
    <3>2. T \in SUBSET (1 .. i) /\ Lists(f, k, T) BY <1>0, <2>0, <2>2, <3>a
    <3>b. PICK e : Adds(e, f, k, T, i)
      <4>1. i \in Nat BY <2>0
      <4> QED BY <3>2, <4>1, ListsMore
    <3>3. /\ Lists(e, k + 1, T \cup {i + 1}) /\ e[k + 1] = i + 1
          /\ \A a \in 1 .. k : e[a] = f[a]
      BY <3>b DEF Adds
    <3>4. h[i + 1] \in Message BY <2>0
    <3>5. OneMore(s, h[i + 1], Append(s, h[i + 1])) BY <3>4, Appended
    <3>6. Continues(s, g) /\ Len(g) = k + 1 /\ g[k + 1] = h[i + 1]
      BY <2>1, <2>4, <3>5 DEF OneMore
    <3>7. \A a \in 1 .. k : g[a] = s[a] BY <3>6 DEF Continues
    <3>8. \A a \in 1 .. k + 1 : g[a] = h[e[a]]
      <4> SUFFICES ASSUME NEW a \in 1 .. k + 1 PROVE g[a] = h[e[a]] OBVIOUS
      <4>1. CASE a = k + 1 BY <3>3, <3>6, <4>1
      <4>2. CASE a # k + 1
        <5>1. a \in 1 .. k BY <4>2
        <5> QED BY <2>2, <3>3, <3>7, <5>1
      <4> QED BY <4>1, <4>2
    <3>9. Selected(h, S, g, i + 1) BY <3>1, <3>a, <3>3, <3>6, <3>8 DEF Selected
    <3> QED BY <2>b, <3>9
  <2> QED BY <2>3, <2>4
<1>5. n \in R
  <2>1. \A i \in 0 .. n - 1 : i \in R => i + 1 \in R
    <3> SUFFICES ASSUME NEW i \in 0 .. n - 1, i \in R PROVE i + 1 \in R OBVIOUS
    <3>1. Selected(h, S, F[i + 1], i + 1) BY <1>4
    <3> QED BY <3>1
  <2>2. 0 \in Int /\ n \in Int /\ n \in 0 .. n OBVIOUS
  <2> HIDE DEF R
  <2>3. 0 .. n \subseteq R BY <1>3, <2>1, <2>2, RangeInduction
  <2> QED BY <2>2, <2>3
<1>6. Selected(h, S, F[n], n) BY <1>5
<1> QED BY <1>2, <1>6

\* What is read of a message that Claude Code did not send, it is like.
Like(m, n) ==
  /\ FromClaude(m) <=> FromClaude(n)
  /\ ~FromClaude(n) => /\ m.role = n.role /\ m.claude = n.claude
                       /\ m.calls = n.calls /\ m.tells = n.tells
                       /\ m.summary = n.summary

\* f says which messages of y those of x are like, at the numbers of S.
Picks(x, y, S, f) ==
  /\ x \in Seq(Message) /\ y \in Seq(Message) /\ S \in SUBSET (1 .. Len(y))
  /\ Lists(f, Len(x), S)
  /\ \A a \in 1 .. Len(x) : Like(x[a], y[f[a]])

\* f says which messages of y those of x are, at the numbers of S.
Takes(x, y, S, f) ==
  /\ x \in Seq(Message) /\ y \in Seq(Message) /\ S \in SUBSET (1 .. Len(y))
  /\ Lists(f, Len(x), S)
  /\ \A a \in 1 .. Len(x) : x[a] = y[f[a]]

\* What is taken is picked.
LEMMA TakesPicks ==
  ASSUME NEW x, NEW y, NEW S, NEW f, Takes(x, y, S, f)
  PROVE  Picks(x, y, S, f)
BY DEF Takes, Picks, Like

\* The messages of a history that are sent as they are, and its summaries.
Verbatim(h) == {i \in DOMAIN h : ~h[i].hidden /\ ~h[i].summary /\ h[i].role # "system"}

Heads(h) == {i \in DOMAIN h : ~h[i].hidden /\ h[i].summary}

\* There is a message behind the s-th that is sent as it is.
Tails(h, s) == \E j \in Verbatim(h) : j > s

\* What a selection takes.
LEMMA SelectionTakes ==
  ASSUME NEW h \in Seq(Message), NEW S \in SUBSET (DOMAIN h)
  PROVE  \E f : Takes(Selection(h, S), h, S, f)
<1> PICK n \in Nat : n = Len(h) OBVIOUS
<1>0. S \in SUBSET (1 .. n) /\ {j \in S : j <= n} = S OBVIOUS
<1>1. Selection(h, S) \in Seq(Message) /\ Selected(h, S, Selection(h, S), n)
  BY SelectionLists
<1>2. PICK x \in Seq(Message) : x = Selection(h, S) BY <1>1
<1>3. PICK f : Lists(f, Len(x), S) /\ \A a \in 1 .. Len(x) : x[a] = h[f[a]]
  BY <1>0, <1>1, <1>2 DEF Selected
<1>4. Takes(x, h, S, f) BY <1>0, <1>3 DEF Takes
<1> QED BY <1>2, <1>4

-----------------------------------------------------------------------------
(* Compaction.                                                             *)

\* What is told is messages of the conversation.
LEMMA ToldType ==
  ASSUME NEW h \in Seq(Message)
  PROVE  Told(h) \subseteq Id /\ Seen(h) \subseteq Told(h)
<1>1. \A i \in DOMAIN h : h[i].tells \subseteq Id
  <2>1. \A i \in DOMAIN h : h[i] \in Message OBVIOUS
  <2> QED BY <2>1, Fields
<1> QED BY <1>1 DEF Told, Seen

\* What was taken tells what is told at its numbers.
LEMMA ToldTaken ==
  ASSUME NEW x, NEW y, NEW S, NEW f, Takes(x, y, S, f)
  PROVE  Told(x) = UNION {y[i].tells : i \in S}
<1> PICK k \in Nat : k = Len(x) BY DEF Takes
<1>1. DOMAIN x = 1 .. k /\ Lists(f, k, S) /\ \A a \in 1 .. k : x[a] = y[f[a]] BY DEF Takes
<1>2. \A a \in 1 .. k : f[a] \in S BY <1>1 DEF Lists
<1>3. \A i \in S : \E a \in 1 .. k : f[a] = i BY <1>1 DEF Lists
<1>4. ASSUME NEW t \in Told(x) PROVE t \in UNION {y[i].tells : i \in S}
  <2>1. PICK a \in 1 .. k : t \in x[a].tells BY <1>1, <1>4 DEF Told
  <2> QED BY <2>1, <1>1, <1>2
<1>5. ASSUME NEW i \in S, NEW t \in y[i].tells PROVE t \in Told(x)
  <2>1. PICK a \in 1 .. k : f[a] = i BY <1>3
  <2> QED BY <2>1, <1>1, <1>5 DEF Told
<1> QED BY <1>4, <1>5

\* The summary of a head tells of it but for the summaries it passes over.
LEMMA HeadTold ==
  ASSUME NEW g \in Seq(Message)
  PROVE  /\ Transcribed(g) \subseteq Told(g) /\ PassedOver(g) \subseteq Told(g)
         /\ Mute(g) => Seen(g) \subseteq Transcribed(g) \cup PassedOver(g)
<1> PICK r : r = Rest(g) OBVIOUS
<1> PICK s : s = Summaries(g) OBVIOUS
<1>1. Verbatim(g) \in SUBSET (DOMAIN g) /\ Heads(g) \in SUBSET (DOMAIN g)
  BY DEF Verbatim, Heads
<1>2. Rest(g) = Selection(g, Verbatim(g)) BY DEF Rest, Verbatim
<1>3. Summaries(g) = Selection(g, Heads(g)) BY DEF Summaries, Heads
<1>4. PICK f : Takes(r, g, Verbatim(g), f) BY <1>1, <1>2, SelectionTakes
<1>5. PICK e : Takes(s, g, Heads(g), e) BY <1>1, <1>3, SelectionTakes
<1>6. Told(r) = UNION {g[i].tells : i \in Verbatim(g)} BY <1>4, ToldTaken
<1>7. Told(s) = UNION {g[i].tells : i \in Heads(g)} BY <1>5, ToldTaken
<1>8. Told(r) \subseteq Told(g) /\ Told(s) \subseteq Told(g) BY <1>1, <1>6, <1>7 DEF Told
<1>9. NewestSummary(g) \subseteq Told(s)
  <2>1. CASE s = <<>> BY <2>1 DEF NewestSummary
  <2>2. CASE s # <<>>
    <3>1. s \in Seq(Message) BY <1>5 DEF Takes
    <3>2. Len(s) \in DOMAIN s /\ Last(s) = s[Len(s)] BY <3>1, <2>2 DEF Last
    <3>3. NewestSummary(g) = Last(s).tells BY <2>2 DEF NewestSummary
    <3> QED BY <3>2, <3>3 DEF Told
  <2> QED BY <2>1, <2>2
<1>10. Transcribed(g) = Told(r) \cup NewestSummary(g) BY DEF Transcribed
<1>11. PassedOver(g) = Told(s) \ Transcribed(g) BY <1>10 DEF PassedOver
<1>12. ASSUME Mute(g), NEW t \in Seen(g) PROVE t \in Told(r) \cup Told(s)
  <2>1. PICK i \in DOMAIN g : ~g[i].hidden /\ t \in g[i].tells BY <1>12 DEF Seen
  <2>2. g[i].role # "system" BY <2>1, <1>12 DEF Mute
  <2>3. i \in Verbatim(g) \/ i \in Heads(g) BY <2>1, <2>2 DEF Verbatim, Heads
  <2> QED BY <2>1, <2>3, <1>6, <1>7
<1> QED BY <1>8, <1>9, <1>10, <1>11, <1>12

\* What a compaction does not tell of any more.
Forgets(h, n, success) ==
  IF success THEN PassedOver(SubSeq(h, 1, n)) ELSE Seen(SubSeq(h, 1, n))

\* A head, and what compaction makes of it.
LEMMA HeadParts ==
  ASSUME NEW h \in Seq(Message), NEW n \in 0 .. Len(h), NEW success \in BOOLEAN
  PROVE  LET g == SubSeq(h, 1, n)
             told == IF success THEN Transcribed(g) ELSE {}
         IN  /\ g \in Seq(Message) /\ DOMAIN g = 1 .. n /\ \A i \in 1 .. n : g[i] = h[i]
             /\ told \subseteq Told(h) /\ Forgets(h, n, success) \subseteq Told(h)
             /\ Mute(h) => Seen(g) \subseteq told \cup Forgets(h, n, success)
<1> PICK g : g = SubSeq(h, 1, n) OBVIOUS
<1>1. g \in Seq(Message) /\ DOMAIN g = 1 .. n /\ \A i \in 1 .. n : g[i] = h[i] OBVIOUS
<1>2. \A i \in 1 .. n : i \in DOMAIN h OBVIOUS
<1>3. Told(g) \subseteq Told(h) BY <1>1, <1>2 DEF Told
<1>4. Mute(h) => Mute(g) BY <1>1, <1>2 DEF Mute
<1>5. Seen(g) \subseteq Told(g) BY <1>1, ToldType
<1>6. /\ Transcribed(g) \subseteq Told(g) /\ PassedOver(g) \subseteq Told(g)
      /\ Mute(g) => Seen(g) \subseteq Transcribed(g) \cup PassedOver(g)
  BY <1>1, HeadTold
<1> QED BY <1>1, <1>3, <1>4, <1>5, <1>6 DEF Forgets

\* What ApplyCompaction makes of a history.
LEMMA CompactedIs ==
  ASSUME NEW h \in Seq(Message), NEW n \in 0 .. Len(h), NEW success \in BOOLEAN
  PROVE  LET c == Compacted(h, n, success)
             m == c[Len(h) + 1]
         IN  /\ Keeps(h, c) /\ Len(c) = Len(h) + 1
             /\ \A i \in 1 .. Len(h) : c[i].hidden <=> h[i].hidden \/ i <= n
             /\ m \in Message /\ m.role = "assistant" /\ ~m.claude /\ ~m.hidden /\ m.summary
             /\ m.session = NoSession /\ m.calls = 0
             /\ m.tells = IF success THEN Transcribed(SubSeq(h, 1, n)) ELSE {}
<1> PICK k \in Nat : k = Len(h) OBVIOUS
<1>1. DOMAIN h = 1 .. k /\ \A i \in 1 .. k : h[i] \in Message OBVIOUS
<1> DEFINE told == IF success THEN Transcribed(SubSeq(h, 1, n)) ELSE {}
<1>2. told \in SUBSET Id
  <2>1. told \subseteq Told(h) BY HeadParts
  <2>2. Told(h) \subseteq Id BY ToldType
  <2> HIDE DEF told
  <2> QED BY <2>1, <2>2
<1> HIDE DEF told
<1> PICK p : p = Plain("assistant", FALSE, told) OBVIOUS
<1>3. /\ p \in Message /\ p.role = "assistant" /\ p.claude = FALSE /\ p.calls = 0
      /\ ~p.hidden /\ p.session = NoSession /\ p.tells = told
  <2>1. IsPlain(p, "assistant", FALSE, told) BY <1>2, PlainMessage
  <2> QED BY <2>1 DEF IsPlain
<1> DEFINE m == [p EXCEPT !.summary = TRUE]
<1>4. /\ m \in Message /\ m.role = "assistant" /\ m.claude = FALSE /\ m.calls = 0
      /\ ~m.hidden /\ m.summary /\ m.session = NoSession /\ m.tells = told
  BY <1>3 DEF Message
<1> HIDE DEF m
<1> DEFINE e == [i \in DOMAIN h |-> [h[i] EXCEPT !.hidden = @ \/ i <= n]]
<1>5. \A i \in 1 .. k : /\ e[i] \in Message /\ Bare(e[i]) = Bare(h[i])
                        /\ (e[i].hidden <=> h[i].hidden \/ i <= n)
  <2> SUFFICES ASSUME NEW i \in 1 .. k
               PROVE  /\ e[i] \in Message /\ Bare(e[i]) = Bare(h[i])
                      /\ (e[i].hidden <=> h[i].hidden \/ i <= n)
    OBVIOUS
  <2> DEFINE x == h[i].hidden \/ i <= n
  <2>1. x \in BOOLEAN OBVIOUS
  <2>2. e[i] = [h[i] EXCEPT !.hidden = x] BY <1>1
  <2> HIDE DEF x, e
  <2>3. e[i] \in Message /\ e[i].hidden = x /\ Bare(e[i]) = Bare(h[i])
    BY <1>1, <2>1, <2>2, Marking
  <2> QED BY <2>3 DEF x
<1>6. e \in Seq(Message) /\ Len(e) = k
  <2>1. DOMAIN e = 1 .. k BY <1>1
  <2> HIDE DEF e
  <2>2. e \in [1 .. k -> Message]
    <3>1. e = [i \in 1 .. k |-> e[i]] BY <1>1 DEF e
    <3> QED BY <1>5, <3>1
  <2> QED BY <2>2
<1> HIDE DEF e
<1> PICK f \in Seq(Message) : f = e BY <1>6
<1>7. Compacted(h, n, success) = Append(f, m) BY DEF Compacted, e, m, told
<1>8. Append(f, m) \in Seq(Message) BY <1>4
<1> PICK c \in Seq(Message) : c = Append(f, m) BY <1>8
<1>9. Len(c) = k + 1 /\ c[k + 1] = m /\ \A i \in 1 .. k : c[i] = e[i] BY <1>6
<1>10. Keeps(h, c) BY <1>5, <1>9 DEF Keeps
<1>11. \A i \in 1 .. k : c[i].hidden <=> h[i].hidden \/ i <= n BY <1>5, <1>9
<1>12. c = Compacted(h, n, success) BY <1>7
<1>13. c[Len(h) + 1] = m BY <1>9
<1> QED BY <1>4, <1>9, <1>10, <1>11, <1>12, <1>13 DEF told

\* A compaction goes on with a turn as a reply does.
LEMMA CompactedQuiet ==
  ASSUME NEW h \in Seq(Message), NEW n \in 0 .. Len(h), NEW success \in BOOLEAN
  PROVE  Quiet(h, Compacted(h, n, success)) /\ Replies(h, Compacted(h, n, success))
<1> PICK k \in Nat : k = Len(h) OBVIOUS
<1> DEFINE c == Compacted(h, n, success)
<1>1. /\ Keeps(h, c) /\ Len(c) = k + 1
      /\ c[k + 1].role = "assistant" /\ c[k + 1].session = NoSession /\ ~c[k + 1].claude
  BY CompactedIs
<1> HIDE DEF c
<1>2. \A i \in k + 1 .. Len(c) : i = k + 1 BY <1>1
<1>3. Quiet(h, c) BY <1>1, <1>2 DEF Quiet
<1>4. Replies(h, c) BY <1>1, <1>2 DEF Replies
<1> QED BY <1>3, <1>4 DEF c

\* What it hides is told by the summary, or lost.
LEMMA CoveredCompacted ==
  ASSUME NEW h \in Seq(Message), NEW n \in 0 .. Len(h), NEW success \in BOOLEAN, NEW l,
         Covered(h, l), Mute(h)
  PROVE  Covered(Compacted(h, n, success), l \cup Forgets(h, n, success))
<1> PICK k \in Nat : k = Len(h) OBVIOUS
<1> PICK c : c = Compacted(h, n, success) OBVIOUS
<1> PICK l2 : l2 = l \cup Forgets(h, n, success) OBVIOUS
<1> PICK g : g = SubSeq(h, 1, n) OBVIOUS
<1> PICK told : told = IF success THEN Transcribed(g) ELSE {} OBVIOUS
<1>0. DOMAIN h = 1 .. k OBVIOUS
<1>1. /\ Keeps(h, c) /\ Len(c) = k + 1
      /\ \A i \in 1 .. k : c[i].hidden <=> h[i].hidden \/ i <= n
      /\ ~c[k + 1].hidden /\ c[k + 1].tells = told
  BY CompactedIs
<1>2. DOMAIN c = 1 .. k + 1 /\ \A i \in 1 .. k : c[i].tells = h[i].tells
  <2>1. DOMAIN c = 1 .. k + 1 BY <1>1 DEF Keeps
  <2> QED BY <2>1, <1>1, KeptAlike
<1>3. /\ DOMAIN g = 1 .. n /\ \A i \in 1 .. n : g[i] = h[i]
      /\ told \subseteq Told(h)
      /\ Seen(g) \subseteq told \cup Forgets(h, n, success)
  BY HeadParts
<1>4. k + 1 \in DOMAIN c BY <1>2
<1>5. told \subseteq Seen(c) BY <1>1, <1>4 DEF Seen
<1>6. ASSUME NEW i \in 1 .. k, ~h[i].hidden, NEW x \in h[i].tells
      PROVE  x \in l2 \cup Seen(c)
  <2>1. CASE i <= n
    <3>1. i \in 1 .. n BY <2>1
    <3>2. x \in Seen(g) BY <3>1, <1>3, <1>6 DEF Seen
    <3> QED BY <3>2, <1>3, <1>5
  <2>2. CASE i > n
    <3>1. ~c[i].hidden /\ x \in c[i].tells /\ i \in DOMAIN c BY <2>2, <1>1, <1>2, <1>6
    <3> QED BY <3>1 DEF Seen
  <2> QED BY <2>1, <2>2
<1>7. Told(h) \subseteq l2 \cup Seen(c)
  <2>1. Told(h) \subseteq l2 \cup Seen(h) BY DEF Covered
  <2> QED BY <2>1, <1>0, <1>6 DEF Seen
<1>8. Told(c) \subseteq Told(h) \cup told
  <2> SUFFICES ASSUME NEW i \in 1 .. k + 1, NEW x \in c[i].tells, i # k + 1
               PROVE  x \in Told(h)
    BY <1>1, <1>2 DEF Told
  <2>1. i \in 1 .. k OBVIOUS
  <2> QED BY <2>1, <1>0, <1>2 DEF Told
<1>9. Told(c) \subseteq l2 \cup Seen(c) BY <1>5, <1>7, <1>8
<1> QED BY <1>9 DEF Covered

\* Where compaction may cut.
LEMMA Splits ==
  ASSUME NEW h \in Seq(Message)
  PROVE  SelectTailSplit(h) \in 0 .. Len(h) /\ LastTurnSplit(h) \in 0 .. Len(h)
<1> PICK k \in Nat : k = Len(h) OBVIOUS
<1>0. DOMAIN h = 1 .. k OBVIOUS
<1>1. SelectTailSplit(h) \in 0 .. k
  <2> DEFINE visible == {i \in DOMAIN h : ~h[i].hidden}
             border == Max({0} \cup {i \in visible : h[i].summary \/ h[i].role = "system"})
             from(i) == Size(Visible(SubSeq(h, i, Len(h))))
             tail == {i \in visible : /\ i > border
                                      /\ from(i) <= TailBudget \/ from(i + 1) = 0}
  <2>1. tail \subseteq 1 .. k BY <1>0
  <2>2. SelectTailSplit(h) = IF tail = {} THEN k ELSE Min(tail) - 1 BY DEF SelectTailSplit
  <2> HIDE DEF tail
  <2>3. ASSUME tail # {} PROVE Min(tail) \in 1 .. k
    <3>1. tail \in SUBSET Nat BY <2>1
    <3> QED BY <3>1, <2>1, <2>3, MinOf
  <2> QED BY <2>2, <2>3
<1>2. LastTurnSplit(h) \in 0 .. k
  <2> DEFINE turns == {i \in DOMAIN h : ~h[i].hidden /\ h[i].role = "user"}
  <2>1. turns \subseteq 1 .. k BY <1>0
  <2>2. LastTurnSplit(h) = IF turns = {} THEN 0 ELSE Max(turns) - 1 BY DEF LastTurnSplit
  <2> HIDE DEF turns
  <2>3. ASSUME turns # {} PROVE Max(turns) \in 1 .. k
    <3>1. turns \in SUBSET (0 .. k) BY <2>1
    <3> QED BY <3>1, <2>1, <2>3, MaxOf
  <2> QED BY <2>2, <2>3
<1> QED BY <1>1, <1>2

-----------------------------------------------------------------------------
(* The steps of a turn on an API model.                                    *)

\* b is the history a turn began with, h what it has become.
Ready(b, h) ==
  /\ b \in Seq(Message) /\ h \in Seq(Message)
  /\ Grown(b, h) /\ Answered(b, h)

\* From h the turn waits for a model, or has failed and left b.
Onward(b, h) ==
  /\ hist' \in Seq(Message) /\ lost' \subseteq Id
  /\ split' \in 0 .. Len(hist') /\ (phase' # "summary" => split' = 0)
  /\ \/ /\ phase' \in {"request", "summary"} /\ before' = b /\ ~failed'
        /\ Ready(b, hist')
     \/ /\ phase' = "idle" /\ before' = <<>> /\ Len(hist') = Len(b)
        /\ \A i \in 1 .. Len(b) : Bare(hist'[i]) = Bare(b[i])
  /\ Sound(h, lost, knows, gone) => Sound(hist', lost', knows, gone)

\* A failed turn rolled back.
LEMMA Failing ==
  ASSUME NEW b, NEW h, Ready(b, h)
  PROVE  LET r == RolledBack(h)
         IN  /\ r \in Seq(Message) /\ Len(r) = Len(b)
             /\ \A i \in 1 .. Len(b) : Bare(r[i]) = Bare(b[i])
             /\ LostBy(h) \subseteq Id
             /\ \A l, kn, g : Sound(h, l, kn, g) => Sound(r, l \cup LostBy(h), kn, g)
<1> USE DEF Ready
<1> PICK n \in Nat : n = Len(b) OBVIOUS
<1> PICK k \in Nat : k = Len(h) OBVIOUS
<1>0. n < k BY DEF Grown
<1>1. RolledBack(h) = SubSeq(h, 1, n) BY Back
<1>2. SubSeq(h, 1, n) \in Seq(Message)
  <2>1. h \in Seq(Message) OBVIOUS
  <2>2. n \in 0 .. Len(h) BY <1>0
  <2> QED BY <2>1, <2>2
<1> PICK r \in Seq(Message) : r = RolledBack(h) BY <1>1, <1>2
<1>3. Len(r) = n /\ \A i \in 1 .. n : r[i] = h[i] BY <1>0, <1>1
<1>4. \A i \in 1 .. n : Bare(r[i]) = Bare(b[i]) BY <1>3 DEF Grown
<1>5. LostBy(h) = Told(r) \ Seen(r) BY DEF LostBy
<1>6. LostBy(h) \subseteq Id BY <1>5, ToldType
<1>7. \A i \in n + 1 .. k : h[i].session = NoSession
  <2> SUFFICES ASSUME NEW i \in n + 1 .. k PROVE h[i].session = NoSession OBVIOUS
  <2>1. CASE i = n + 1 BY <2>1 DEF Grown
  <2>2. CASE i # n + 1
    <3>1. i \in n + 2 .. k BY <2>2
    <3> QED BY <3>1 DEF Answered
  <2> QED BY <2>1, <2>2
<1>8. ASSUME NEW l, NEW kn, NEW g, Sound(h, l, kn, g)
      PROVE  Sound(r, l \cup LostBy(h), kn, g)
  <2>1. Covered(r, l \cup LostBy(h)) BY <1>5 DEF Covered
  <2>2. n \in 0 .. Len(h) BY <1>0
  <2>3. Informed(r, l, kn, g) BY <1>1, <1>7, <1>8, <2>2, InformedBack DEF Sound
  <2>4. \A s \in Session : kn[s] \subseteq kn[s] OBVIOUS
  <2>5. Informed(r, l \cup LostBy(h), kn, g) BY <2>3, <2>4, InformedMore
  <2>6. Mute(r)
    <3>1. Mute(h) BY <1>8 DEF Sound
    <3>2. \A i \in DOMAIN r : i \in DOMAIN h /\ r[i] = h[i] BY <1>0, <1>3
    <3> QED BY <3>1, <3>2 DEF Mute
  <2> QED BY <2>1, <2>5, <2>6 DEF Sound
<1>9. \A l, kn, g : Sound(h, l, kn, g) => Sound(r, l \cup LostBy(h), kn, g) BY <1>8
<1> QED BY <1>3, <1>4, <1>6, <1>9

\* Send: the request goes out, or the turn fails at once.
LEMMA SendOn ==
  ASSUME NEW b, NEW h, NEW key \in BOOLEAN, Ready(b, h), Send(h, key),
         lost \subseteq Id, split' = 0, b = IF phase = "idle" THEN hist ELSE before
  PROVE  Onward(b, h)
<1>0. 0 \in 0 .. Len(h) /\ h \in Seq(Message) BY DEF Ready
<1>1. CASE key BY <1>0, <1>1 DEF Send, Goes, Onward
<1>2. CASE ~key
  <2> PICK r : r = RolledBack(h) OBVIOUS
  <2>1. /\ hist' = r /\ phase' = "idle" /\ before' = <<>>
        /\ lost' = lost \cup LostBy(h)
    BY <1>2 DEF Send, Finalize
  <2>2. /\ r \in Seq(Message) /\ Len(r) = Len(b)
        /\ \A i \in 1 .. Len(b) : Bare(r[i]) = Bare(b[i])
        /\ LostBy(h) \subseteq Id
        /\ Sound(h, lost, knows, gone) => Sound(r, lost \cup LostBy(h), knows, gone)
    BY Failing
  <2>3. 0 \in 0 .. Len(r) BY <2>2
  <2> QED BY <2>1, <2>2, <2>3 DEF Onward
<1> QED BY <1>1, <1>2

\* ApplyCompaction.
LEMMA ApplyOn ==
  ASSUME NEW b, NEW h, NEW n \in 0 .. Len(h), NEW success \in BOOLEAN, NEW key \in BOOLEAN,
         Ready(b, h), ApplyCompaction(h, n, success, key),
         lost \subseteq Id, b = IF phase = "idle" THEN hist ELSE before
  PROVE  Onward(b, h)
<1>0. h \in Seq(Message) /\ b \in Seq(Message) BY DEF Ready
<1> PICK c : c = Compacted(h, n, success) OBVIOUS
<1> PICK l : l = lost \cup Forgets(h, n, success) OBVIOUS
<1>1. Quiet(h, c) /\ Replies(h, c) BY <1>0, CompactedQuiet
<1>2. Ready(b, c)
  <2>1. c \in Seq(Message) /\ Keeps(h, c) BY <1>1 DEF Quiet, Keeps
  <2>2. Grown(b, c) BY <1>0, <2>1, GrownOn DEF Ready
  <2>3. Answered(b, c) BY <1>0, <1>1, AnsweredOn DEF Ready
  <2> QED BY <1>0, <2>1, <2>2, <2>3 DEF Ready
<1>3. l \subseteq Id /\ lost \subseteq l
  <2>1. Forgets(h, n, success) \subseteq Told(h) BY <1>0, HeadParts
  <2>2. Told(h) \subseteq Id BY <1>0, ToldType
  <2> QED BY <2>1, <2>2
<1>4. Sound(h, lost, knows, gone) => Sound(c, l, knows, gone)
  <2> SUFFICES ASSUME Sound(h, lost, knows, gone) PROVE Sound(c, l, knows, gone) OBVIOUS
  <2>1. Covered(c, l) BY <1>0, CoveredCompacted DEF Sound
  <2>2. Informed(c, lost, knows, gone) BY <1>0, <1>1, InformedOn DEF Sound
  <2>3. c \in Seq(Message) BY <1>2 DEF Ready
  <2>4. \A s \in Session : knows[s] \subseteq knows[s] OBVIOUS
  <2>5. Informed(c, l, knows, gone) BY <2>2, <2>3, <2>4, <1>3, InformedMore
  <2>6. Keeps(h, c) /\ \A i \in Len(h) + 1 .. Len(c) : c[i].role # "system"
    BY <1>1 DEF Quiet, Replies
  <2>7. Mute(c) BY <1>0, <2>6, MuteOn DEF Sound
  <2> QED BY <2>1, <2>5, <2>7 DEF Sound
<1>5. split' = 0 BY DEF ApplyCompaction
<1>6. CASE key
  <2>1. Goes(c, "request") /\ lost' = l BY <1>6 DEF ApplyCompaction, Forgets
  <2>2. 0 \in 0 .. Len(c) /\ c \in Seq(Message) BY <1>2 DEF Ready
  <2> QED BY <2>1, <2>2, <1>2, <1>3, <1>4, <1>5 DEF Goes, Onward
<1>7. CASE ~key
  <2> PICK r : r = RolledBack(c) OBVIOUS
  <2>1. /\ hist' = r /\ phase' = "idle" /\ before' = <<>> /\ lost' = l \cup LostBy(c)
    BY <1>7 DEF ApplyCompaction, Finalize, Forgets
  <2>2. /\ r \in Seq(Message) /\ Len(r) = Len(b)
        /\ \A i \in 1 .. Len(b) : Bare(r[i]) = Bare(b[i])
        /\ LostBy(c) \subseteq Id
        /\ Sound(c, l, knows, gone) => Sound(r, l \cup LostBy(c), knows, gone)
    BY <1>2, Failing
  <2>3. 0 \in 0 .. Len(r) BY <2>2
  <2> QED BY <2>1, <2>2, <2>3, <1>3, <1>4, <1>5 DEF Onward
<1> QED BY <1>6, <1>7

\* RunSummaryThenSend.
LEMMA SummaryOn ==
  ASSUME NEW b, NEW h, NEW n \in 0 .. Len(h), NEW key \in BOOLEAN,
         Ready(b, h), RunSummaryThenSend(h, n, key),
         lost \subseteq Id, b = IF phase = "idle" THEN hist ELSE before
  PROVE  Onward(b, h)
<1>1. CASE key
  <2>1. Goes(h, "summary") /\ split' = n /\ lost' = lost BY <1>1 DEF RunSummaryThenSend
  <2>2. h \in Seq(Message) BY DEF Ready
  <2> QED BY <2>1, <2>2 DEF Goes, Onward
<1>2. CASE ~key
  <2>1. ApplyCompaction(h, n, FALSE, key) BY <1>2 DEF RunSummaryThenSend
  <2>2. FALSE \in BOOLEAN OBVIOUS
  <2> QED BY <2>1, <2>2, ApplyOn
<1> QED BY <1>1, <1>2

\* StartCompletion.
LEMMA CompletionOn ==
  ASSUME NEW b, NEW h, NEW key \in BOOLEAN, Ready(b, h), StartCompletion(h, key),
         lost \subseteq Id, split = 0, b = IF phase = "idle" THEN hist ELSE before
  PROVE  Onward(b, h)
<1>1. CASE MustCompact(h)
  <2>1. RunSummaryThenSend(h, SelectTailSplit(h), key) BY <1>1 DEF StartCompletion
  <2>2. SelectTailSplit(h) \in 0 .. Len(h) BY Splits DEF Ready
  <2> QED BY <2>1, <2>2, SummaryOn
<1>2. CASE ~MustCompact(h)
  <2>1. Send(h, key) /\ split' = 0 BY <1>2 DEF StartCompletion
  <2> QED BY <2>1, SendOn
<1> QED BY <1>1, <1>2

\* A history that keeps another, but for the marks, has it as a prefix.
LEMMA Prefix ==
  ASSUME NEW b \in Seq(Message), NEW g \in Seq(Message), Len(b) <= Len(g),
         \A i \in 1 .. Len(b) : Bare(g[i]) = Bare(b[i])
  PROVE  IsPrefix(Unmarked(b), Unmarked(g))
<1> PICK n \in Nat : n = Len(b) OBVIOUS
<1> PICK k \in Nat : k = Len(g) OBVIOUS
<1>1. Unmarked(b) = [i \in 1 .. n |-> Bare(b[i])] /\ Unmarked(g) = [i \in 1 .. k |-> Bare(g[i])]
  BY DEF Unmarked, Bare
<1>2. \A i \in 1 .. n : Bare(b[i]) \in Message
  <2>1. \A i \in 1 .. n : b[i] \in Message OBVIOUS
  <2> QED BY <2>1, Marking DEF Bare
<1>3. \A i \in 1 .. k : Bare(g[i]) \in Message
  <2>1. \A i \in 1 .. k : g[i] \in Message OBVIOUS
  <2> QED BY <2>1, Marking DEF Bare
<1>4. Unmarked(b) \in [1 .. n -> Message] /\ Unmarked(g) \in [1 .. k -> Message]
  BY <1>1, <1>2, <1>3
<1>5. Unmarked(b) \in Seq(Message) /\ Unmarked(g) \in Seq(Message)
  <2>1. \A m \in Nat : \A f \in [1 .. m -> Message] : f \in Seq(Message) OBVIOUS
  <2> QED BY <1>4, <2>1
<1> PICK s \in Seq(Message) : s = Unmarked(b) BY <1>5
<1> PICK t \in Seq(Message) : t = Unmarked(g) BY <1>5
<1>6. Len(s) = n /\ Len(t) = k BY <1>4
<1>7. n <= k OBVIOUS
<1>8. \A i \in 1 .. n : s[i] = t[i] BY <1>1, <1>7
<1>9. SubSeq(s, 1, n) \in Seq(Message) /\ SubSeq(t, 1, n) \in Seq(Message) BY <1>6, <1>7
<1>10. Len(SubSeq(s, 1, n)) = n /\ Len(SubSeq(t, 1, n)) = n BY <1>6, <1>7
<1>11. \A i \in 1 .. n : SubSeq(s, 1, n)[i] = s[i] /\ SubSeq(t, 1, n)[i] = t[i]
  BY <1>6, <1>7
<1>12. SubSeq(s, 1, n) = SubSeq(t, 1, n)
  <2> PICK x \in Seq(Message) : x = SubSeq(s, 1, n) BY <1>9
  <2> PICK y \in Seq(Message) : y = SubSeq(t, 1, n) BY <1>9
  <2>1. Len(x) = Len(y) /\ \A i \in 1 .. Len(x) : x[i] = y[i] BY <1>8, <1>10, <1>11
  <2>2. x = y BY <2>1, SeqEqual
  <2> QED BY <2>2
<1>13. IsPrefix(s, t) BY <1>6, <1>7, <1>12 DEF IsPrefix
<1> QED BY <1>13

\* A step of an API turn, of which nothing else than the history matters.
LEMMA OnwardHolds ==
  ASSUME IInv, phase # "claude", NEW b, NEW h, Onward(b, h), b \in Seq(Message),
         phase # "idle" => b = before,
         run' = run, knows' = knows, gone' = gone, ids' \in 0 .. MaxIds,
         ~EarlyCancel => Sound(h, lost, knows, gone)
  PROVE  IInv' /\ Rolls
<1> USE DEF IInv
<1>0. phase' \in {"request", "summary", "idle"} BY DEF Onward
<1>1. Shaped'
  <2>0. <<>> \in Seq(Message) OBVIOUS
  <2>1. before' \in Seq(Message) BY <2>0 DEF Onward
  <2>2. phase' \in Phases /\ phase' # "tools" BY <1>0 DEF Phases
  <2> QED BY <2>1, <2>2 DEF Onward, Shaped
<1>2. Turn' BY <1>0 DEF Onward, Ready, Turn
<1>3. ~EarlyCancel => Knowledge' BY <1>0 DEF Onward, Knowledge
<1>4. Rolls
  <2> SUFFICES ASSUME phase # "idle", phase' = "idle"
               PROVE  /\ IsPrefix(Unmarked(before), Unmarked(hist'))
                      /\ Len(hist') = Len(before)
    BY DEF Rolls
  <2>1. b = before OBVIOUS
  <2>2. /\ hist' \in Seq(Message) /\ Len(hist') = Len(b)
        /\ \A i \in 1 .. Len(b) : Bare(hist'[i]) = Bare(b[i])
    BY DEF Onward
  <2>3. Len(b) <= Len(hist') BY <2>2
  <2> QED BY <2>1, <2>2, <2>3, Prefix
<1> QED BY <1>1, <1>2, <1>3, <1>4

\* What API turns record.
LEMMA RecordOn ==
  ASSUME NEW b, NEW h, NEW g, Ready(b, h), Continues(h, g), Replies(h, g),
         \A i \in Len(h) + 1 .. Len(g) :
           g[i].session = NoSession /\ ~g[i].claude /\ ~g[i].hidden
  PROVE  /\ Ready(b, g)
         /\ \A l, kn, gn : Sound(h, l, kn, gn) => Sound(g, l, kn, gn)
<1>0. b \in Seq(Message) /\ h \in Seq(Message) /\ g \in Seq(Message)
  BY DEF Ready, Continues
<1>1. Keeps(h, g) BY <1>0, Kept
<1>2. Quiet(h, g) BY <1>1 DEF Quiet
<1>3. Grown(b, g) BY <1>0, <1>1, GrownOn DEF Ready
<1>4. Answered(b, g) BY <1>0, <1>2, AnsweredOn DEF Ready
<1>5. ASSUME NEW l, NEW kn, NEW gn, Sound(h, l, kn, gn) PROVE Sound(g, l, kn, gn)
  <2>1. Covered(g, l) BY <1>0, <1>5, CoveredOn DEF Sound
  <2>2. Informed(g, l, kn, gn) BY <1>0, <1>2, <1>5, InformedOn DEF Sound
  <2>3. \A i \in Len(h) + 1 .. Len(g) : g[i].role # "system" BY DEF Replies
  <2>4. Mute(g) BY <1>0, <1>1, <1>5, <2>3, MuteOn DEF Sound
  <2> QED BY <2>1, <2>2, <2>4 DEF Sound
<1> QED BY <1>0, <1>3, <1>4, <1>5 DEF Ready

\* No run is one, by its type.
LEMMA NoRunType == NoRun \in RunType
<1>1. <<>> \in Seq(Message) /\ {} \in SUBSET Id /\ 0 \in Nat OBVIOUS
<1> PICK e \in Seq(Message) : e = <<>> BY <1>1
<1>2. NoRun = [resumes |-> NoSession, session |-> NoSession, told |-> {},
               pending |-> e, start |-> 0, retried |-> FALSE]
  BY DEF NoRun
<1> QED BY <1>1, <1>2 DEF RunType

\* The first state.
LEMMA InitIInv == Init => IInv
<1> SUFFICES ASSUME Init PROVE IInv OBVIOUS
<1> USE DEF Init
<1> PICK p : p = SystemPrompt OBVIOUS
<1>0. p \in Message /\ p.tells = {} /\ p.session = NoSession
  <2>1. IsPlain(Plain("system", FALSE, {}), "system", FALSE, {}) BY PlainMessage
  <2> QED BY <2>1 DEF IsPlain, SystemPrompt
<1>1. hist \in Seq(Message) /\ Len(hist) = 1 /\ hist[1] = p BY <1>0
<1>2. \A i \in DOMAIN hist : hist[i].tells = {} /\ hist[i].session = NoSession BY <1>0, <1>1
<1>3. Shaped
  <2>1. phase \in Phases /\ phase # "tools" BY DEF Phases
  <2>2. run \in RunType BY NoRunType
  <2>3. before \in Seq(Message) OBVIOUS
  <2>4. ids \in 0 .. MaxIds /\ split \in 0 .. Len(hist) BY ConversationAssumption, <1>1
  <2>5. knows \in [Session -> SUBSET Id] OBVIOUS
  <2> QED BY <1>1, <2>1, <2>2, <2>3, <2>4, <2>5 DEF Shaped
<1>4. Turn BY DEF Turn
<1>5. Knowledge
  <2>1. Covered(hist, lost) BY <1>2 DEF Covered, Told
  <2>2. Informed(hist, lost, knows, gone) BY <1>2 DEF Informed, Newest
  <2>3. Mute(hist) BY <1>2 DEF Mute
  <2> QED BY <2>1, <2>2, <2>3 DEF Knowledge, Sound
<1> QED BY <1>3, <1>4, <1>5 DEF IInv

\* In an API turn.
LEMMA InTurn ==
  ASSUME IInv, phase \in {"request", "summary", "tools"}
  PROVE  /\ Ready(before, hist)
         /\ ~EarlyCancel => Sound(hist, lost, knows, gone)
BY DEF IInv, Shaped, Turn, Knowledge, Ready

\* A prompt for an API model.
LEMMA StartTurnHolds ==
  ASSUME IInv, NEW key \in BOOLEAN, StartTurn(key)
  PROVE  IInv' /\ Rolls
<1>0. /\ hist \in Seq(Message) /\ ids \in 0 .. MaxIds /\ lost \subseteq Id /\ split = 0
      /\ phase = "idle" /\ ids + 1 < MaxIds
  BY DEF IInv, Shaped, StartTurn
<1> PICK b \in Seq(Message) : b = hist BY <1>0
<1> PICK p : p = Prompt(FALSE) OBVIOUS
<1>1. /\ p \in Message /\ p.role = "user" /\ ~p.claude /\ ~p.hidden
      /\ p.session = NoSession
  <2>1. {ids + 1} \in SUBSET Id BY <1>0, ConversationAssumption DEF Id
  <2>2. IsPlain(Plain("user", FALSE, {ids + 1}), "user", FALSE, {ids + 1})
    BY <2>1, PlainMessage
  <2> QED BY <2>2 DEF IsPlain, Prompt
<1> PICK h : h = Append(b, p) OBVIOUS
<1>2. /\ Continues(b, h) /\ Len(h) = Len(b) + 1 /\ h[Len(b) + 1] = p
      /\ \A i \in Len(b) + 1 .. Len(h) : h[i] = p
  <2>1. OneMore(b, p, Append(b, p)) BY <1>1, Appended
  <2>2. OneMore(b, p, h) BY <2>1
  <2> QED BY <2>2 DEF OneMore
<1>3. h \in Seq(Message) BY <1>2 DEF Continues
<1>4. Ready(b, h)
  <2> PICK n \in Nat : n = Len(b) OBVIOUS
  <2>0. Len(b) < Len(h) /\ \A i \in 1 .. Len(b) : h[i] = b[i] BY <1>2 DEF Continues
  <2>1. Grown(b, h) BY <1>1, <1>2, <2>0 DEF Grown
  <2>2. n + 2 .. Len(h) = {} BY <1>2
  <2>3. Answered(b, h) BY <2>2 DEF Answered
  <2> QED BY <1>3, <2>1, <2>3 DEF Ready
<1>5. StartCompletion(h, key) BY DEF StartTurn
<1>6. Onward(b, h) BY <1>0, <1>4, <1>5, CompletionOn
<1>7. ~EarlyCancel => Sound(h, lost, knows, gone)
  <2> SUFFICES ASSUME ~EarlyCancel PROVE Sound(h, lost, knows, gone) OBVIOUS
  <2>1. Covered(b, lost) /\ Mute(b) /\ Informed(b, lost, knows, gone)
    BY <1>0 DEF IInv, Knowledge, Sound
  <2>2. Covered(h, lost) BY <1>1, <1>2, <2>1, CoveredOn
  <2>3. Keeps(b, h) BY <1>2, Kept
  <2>4. Quiet(b, h) BY <1>1, <1>2, <2>3 DEF Quiet
  <2>5. Informed(h, lost, knows, gone) BY <2>1, <2>4, InformedOn
  <2>6. Mute(h) BY <1>1, <1>2, <2>1, <2>3, MuteOn
  <2> QED BY <2>2, <2>5, <2>6 DEF Sound
<1>8. ids' \in 0 .. MaxIds BY <1>0, ConversationAssumption DEF StartTurn
<1>9. run' = run /\ knows' = knows /\ gone' = gone BY DEF StartTurn
<1> QED BY <1>0, <1>6, <1>7, <1>8, <1>9, OnwardHolds

\* The request was too long.
LEMMA RequestOverflowsHolds ==
  ASSUME IInv, NEW key \in BOOLEAN, RequestOverflows(key)
  PROVE  IInv' /\ Rolls
<1> USE DEF RequestOverflows
<1>0. /\ hist \in Seq(Message) /\ before \in Seq(Message)
      /\ ids \in 0 .. MaxIds /\ lost \subseteq Id
  BY DEF IInv, Shaped
<1> PICK b \in Seq(Message) : b = before BY <1>0
<1> PICK h \in Seq(Message) : h = hist BY <1>0
<1>1. Ready(b, h) /\ (~EarlyCancel => Sound(h, lost, knows, gone)) BY InTurn
<1>2. LastTurnSplit(h) \in 0 .. Len(h) BY Splits
<1>3. RunSummaryThenSend(h, LastTurnSplit(h), key) OBVIOUS
<1>4. Onward(b, h) BY <1>0, <1>1, <1>2, <1>3, SummaryOn
<1> QED BY <1>0, <1>1, <1>4, OnwardHolds

\* The summary came, or did not.
LEMMA SummaryDoneHolds ==
  ASSUME IInv, NEW success \in BOOLEAN, NEW key \in BOOLEAN, SummaryDone(success, key)
  PROVE  IInv' /\ Rolls
<1> USE DEF SummaryDone
<1>0. /\ hist \in Seq(Message) /\ before \in Seq(Message)
      /\ ids \in 0 .. MaxIds /\ lost \subseteq Id /\ split \in 0 .. Len(hist)
  BY DEF IInv, Shaped
<1> PICK b \in Seq(Message) : b = before BY <1>0
<1> PICK h \in Seq(Message) : h = hist BY <1>0
<1> PICK n \in 0 .. Len(h) : n = split BY <1>0
<1>1. Ready(b, h) /\ (~EarlyCancel => Sound(h, lost, knows, gone)) BY InTurn
<1>2. ApplyCompaction(h, n, success, key) OBVIOUS
<1>3. Onward(b, h) BY <1>0, <1>1, <1>2, ApplyOn
<1> QED BY <1>0, <1>1, <1>3, OnwardHolds

\* An API turn that ends with what it recorded.
LEMMA EndHolds ==
  ASSUME IInv, NEW b, NEW g, b = before, Ready(b, g), Finalize(g, FALSE),
         split' = 0, lost' = lost, run' = run, knows' = knows, gone' = gone,
         ids' \in 0 .. MaxIds,
         ~EarlyCancel => Sound(g, lost, knows, gone)
  PROVE  IInv' /\ Rolls
<1> USE DEF IInv
<1>0. /\ hist' = g /\ phase' = "idle" /\ before' = <<>> /\ ~failed'
  BY DEF Finalize
<1>1. b \in Seq(Message) /\ g \in Seq(Message) /\ Grown(b, g) BY DEF Ready
<1>2. Shaped'
  <2>1. <<>> \in Seq(Message) OBVIOUS
  <2>2. phase' \in Phases /\ phase' # "tools" BY <1>0 DEF Phases
  <2>3. 0 \in 0 .. Len(g) BY <1>1
  <2> QED BY <1>0, <1>1, <2>1, <2>2, <2>3 DEF Shaped
<1>3. Turn' BY <1>0 DEF Turn
<1>4. ~EarlyCancel => Knowledge' BY <1>0 DEF Knowledge
<1>5. Rolls
  <2>1. Len(b) <= Len(g) /\ \A i \in 1 .. Len(b) : Bare(g[i]) = Bare(b[i])
    BY <1>1 DEF Grown
  <2>2. IsPrefix(Unmarked(b), Unmarked(g)) BY <1>1, <2>1, Prefix
  <2> QED BY <1>0, <2>2 DEF Rolls
<1> QED BY <1>2, <1>3, <1>4, <1>5

\* A reply without calls.
LEMMA ReplyHolds ==
  ASSUME IInv, NEW empty \in BOOLEAN, Reply(empty)
  PROVE  IInv' /\ Rolls
<1>0. /\ hist \in Seq(Message) /\ before \in Seq(Message)
      /\ ids \in 0 .. MaxIds /\ split = 0
  BY DEF IInv, Shaped, Reply
<1> PICK b \in Seq(Message) : b = before BY <1>0
<1> PICK h \in Seq(Message) : h = hist BY <1>0
<1>1. Ready(b, h) /\ (~EarlyCancel => Sound(h, lost, knows, gone)) BY InTurn DEF Reply
<1>2. split' = 0 /\ lost' = lost /\ run' = run /\ knows' = knows /\ gone' = gone
  BY <1>0 DEF Reply
<1>3. CASE empty
  <2>1. Finalize(h, FALSE) /\ ids' \in 0 .. MaxIds BY <1>0, <1>3 DEF Reply
  <2> QED BY <1>1, <1>2, <2>1, EndHolds
<1>4. CASE ~empty
  <2> PICK m : m = Plain("assistant", FALSE, {ids + 1}) OBVIOUS
  <2>1. {ids + 1} \in SUBSET Id /\ ids + 1 \in 0 .. MaxIds
    BY <1>0, <1>4, ConversationAssumption DEF Reply, Id
  <2>2. IsPlain(m, "assistant", FALSE, {ids + 1}) BY <2>1, PlainMessage
  <2>3. /\ m \in Message /\ m.role = "assistant" /\ ~m.claude /\ ~m.hidden
        /\ m.session = NoSession
    BY <2>2 DEF IsPlain
  <2> PICK g : g = Append(h, m) OBVIOUS
  <2>4. OneMore(h, m, Append(h, m)) BY <2>3, Appended
  <2>5. Continues(h, g) /\ \A i \in Len(h) + 1 .. Len(g) : g[i] = m BY <2>4 DEF OneMore
  <2>6. Replies(h, g) BY <2>3, <2>5 DEF Replies
  <2>7. Ready(b, g) /\ (Sound(h, lost, knows, gone) => Sound(g, lost, knows, gone))
    BY <1>1, <2>3, <2>5, <2>6, RecordOn
  <2>8. Finalize(g, FALSE) /\ ids' = ids + 1 BY <1>4 DEF Reply
  <2> QED BY <1>1, <1>2, <2>1, <2>7, <2>8, EndHolds
<1> QED BY <1>3, <1>4

\* The user cancels while a request is under way.
LEMMA RequestCancelledHolds ==
  ASSUME IInv, RequestCancelled
  PROVE  IInv' /\ Rolls
<1>0. before \in Seq(Message) /\ ids \in 0 .. MaxIds /\ split = 0
  BY DEF IInv, Shaped, RequestCancelled
<1> PICK b \in Seq(Message) : b = before BY <1>0
<1> PICK h : h = hist OBVIOUS
<1>1. Ready(b, h) /\ (~EarlyCancel => Sound(h, lost, knows, gone))
  BY InTurn DEF RequestCancelled
<1>2. /\ split' = 0 /\ lost' = lost /\ run' = run /\ knows' = knows /\ gone' = gone
      /\ ids' \in 0 .. MaxIds /\ Finalize(h, FALSE)
  BY <1>0 DEF RequestCancelled
<1> QED BY <1>1, <1>2, EndHolds

\* ... or the one for a summary.
LEMMA SummaryCancelledHolds ==
  ASSUME IInv, SummaryCancelled
  PROVE  IInv' /\ Rolls
<1>0. before \in Seq(Message) /\ ids \in 0 .. MaxIds
  BY DEF IInv, Shaped
<1> PICK b \in Seq(Message) : b = before BY <1>0
<1> PICK h : h = hist OBVIOUS
<1>1. Ready(b, h) /\ (~EarlyCancel => Sound(h, lost, knows, gone))
  BY InTurn DEF SummaryCancelled
<1>2. /\ split' = 0 /\ lost' = lost /\ run' = run /\ knows' = knows /\ gone' = gone
      /\ ids' \in 0 .. MaxIds /\ Finalize(h, FALSE)
  BY <1>0 DEF SummaryCancelled
<1> QED BY <1>1, <1>2, EndHolds

\* A request fails.
LEMMA RequestFailsHolds ==
  ASSUME IInv, RequestFails
  PROVE  IInv' /\ Rolls
<1>0. /\ before \in Seq(Message) /\ ids \in 0 .. MaxIds /\ lost \subseteq Id /\ split = 0
      /\ phase = "request"
  BY DEF IInv, Shaped, RequestFails
<1> PICK b \in Seq(Message) : b = before BY <1>0
<1> PICK h : h = hist OBVIOUS
<1> PICK r : r = RolledBack(h) OBVIOUS
<1>1. Ready(b, h) /\ (~EarlyCancel => Sound(h, lost, knows, gone)) BY <1>0, InTurn
<1>2. /\ r \in Seq(Message) /\ Len(r) = Len(b)
      /\ \A i \in 1 .. Len(b) : Bare(r[i]) = Bare(b[i])
      /\ LostBy(h) \subseteq Id
      /\ Sound(h, lost, knows, gone) => Sound(r, lost \cup LostBy(h), knows, gone)
  BY <1>1, Failing
<1>3. /\ hist' = r /\ phase' = "idle" /\ before' = <<>> /\ lost' = lost \cup LostBy(h)
      /\ split' = 0
  BY <1>0 DEF RequestFails, Finalize
<1>4. 0 \in 0 .. Len(r) BY <1>2
<1>5. Onward(b, h) BY <1>0, <1>2, <1>3, <1>4 DEF Onward
<1>6. run' = run /\ knows' = knows /\ gone' = gone /\ ids' \in 0 .. MaxIds
  BY <1>0 DEF RequestFails
<1> QED BY <1>0, <1>1, <1>5, <1>6, OnwardHolds

\* The model calls tools.
LEMMA ToolCallsHolds ==
  ASSUME IInv, NEW n \in 1 .. MaxCalls, ToolCalls(n)
  PROVE  IInv' /\ Rolls
<1>0. /\ hist \in Seq(Message) /\ before \in Seq(Message)
      /\ ids \in 0 .. MaxIds /\ split = 0 /\ phase = "request" /\ ids + n < MaxIds
  BY DEF IInv, Shaped, ToolCalls
<1> PICK b \in Seq(Message) : b = before BY <1>0
<1> PICK h \in Seq(Message) : h = hist BY <1>0
<1>1. Ready(b, h) /\ (~EarlyCancel => Sound(h, lost, knows, gone)) BY <1>0, InTurn
<1> PICK p : p = Plain("assistant", FALSE, {ids + 1}) OBVIOUS
<1>2. {ids + 1} \in SUBSET Id /\ ids + 1 \in 0 .. MaxIds /\ ids + 1 + n <= MaxIds
  BY <1>0, ConversationAssumption DEF Id
<1>3. IsPlain(p, "assistant", FALSE, {ids + 1}) BY <1>2, PlainMessage
<1> PICK m : m = [p EXCEPT !.calls = n] OBVIOUS
<1>4. /\ m \in Message /\ m.role = "assistant" /\ ~m.claude /\ ~m.hidden
      /\ m.session = NoSession /\ m.calls = n
  <2>1. n \in 0 .. MaxCalls OBVIOUS
  <2> QED BY <1>3, <2>1 DEF IsPlain, Message
<1> PICK g : g = Append(h, m) OBVIOUS
<1>5. OneMore(h, m, Append(h, m)) BY <1>4, Appended
<1>6. /\ Continues(h, g) /\ Len(g) = Len(h) + 1 /\ g[Len(h) + 1] = m
      /\ \A i \in Len(h) + 1 .. Len(g) : g[i] = m
  BY <1>5 DEF OneMore
<1>7. Replies(h, g) BY <1>4, <1>6 DEF Replies
<1>8. Ready(b, g) /\ (Sound(h, lost, knows, gone) => Sound(g, lost, knows, gone))
  <2>1. \A i \in Len(h) + 1 .. Len(g) :
          g[i].session = NoSession /\ ~g[i].claude /\ ~g[i].hidden
    BY <1>4, <1>6
  <2> QED BY <1>1, <1>6, <1>7, <2>1, RecordOn
<1>9. /\ hist' = g /\ phase' = "tools" /\ before' = b /\ ids' = ids + 1
      /\ split' = 0 /\ lost' = lost /\ run' = run /\ knows' = knows /\ gone' = gone
  BY <1>0 DEF ToolCalls, Goes
<1>10. Shaped'
  <2>1. phase' \in Phases BY <1>9 DEF Phases
  <2>2. g \in Seq(Message) BY <1>8 DEF Ready
  <2>3. Last(g) = m /\ Len(g) > 0 BY <1>6 DEF Last
  <2>4. 0 \in 0 .. Len(g) BY <2>3
  <2> QED BY <1>2, <1>4, <1>9, <2>1, <2>2, <2>3, <2>4 DEF IInv, Shaped
<1>11. Turn' BY <1>8, <1>9 DEF Ready, Turn
<1>12. ~EarlyCancel => Knowledge' BY <1>1, <1>8, <1>9 DEF Knowledge
<1>13. Rolls BY <1>9 DEF Rolls
<1> QED BY <1>10, <1>11, <1>12, <1>13 DEF IInv

\* The results of the tools.
LEMMA ResultsAre ==
  ASSUME Shaped, phase = "tools", NEW size \in OutputSize
  PROVE  LET s == Results(size)
         IN  /\ Last(hist).calls \in Nat
             /\ s \in Seq(Message) /\ Len(s) = Last(hist).calls
             /\ \A i \in 1 .. Len(s) :
                  /\ s[i].role = "tool" /\ ~s[i].claude /\ ~s[i].hidden /\ ~s[i].summary
                  /\ s[i].session = NoSession
<1>0. /\ hist \in Seq(Message) /\ Len(hist) > 0 /\ ids \in 0 .. MaxIds
      /\ ids + Last(hist).calls <= MaxIds
  BY DEF Shaped
<1>1. Last(hist).calls \in 0 .. MaxCalls
  <2>1. Last(hist) \in Message BY <1>0 DEF Last
  <2> QED BY <2>1, Fields
<1>2. PICK c \in Nat : c = Last(hist).calls BY <1>1, ConversationAssumption
<1> DEFINE message(i) == [Plain("tool", FALSE, {ids + i}) EXCEPT !.size = size]
<1>3. \A i \in 1 .. c : /\ message(i) \in Message /\ message(i).role = "tool"
                        /\ ~message(i).claude /\ ~message(i).hidden /\ ~message(i).summary
                        /\ message(i).session = NoSession
  <2> SUFFICES ASSUME NEW i \in 1 .. c
               PROVE  /\ message(i) \in Message /\ message(i).role = "tool"
                      /\ ~message(i).claude /\ ~message(i).hidden /\ ~message(i).summary
                      /\ message(i).session = NoSession
    OBVIOUS
  <2> PICK p : p = Plain("tool", FALSE, {ids + i}) OBVIOUS
  <2>1. {ids + i} \in SUBSET Id BY <1>0, <1>2, ConversationAssumption DEF Id
  <2>2. IsPlain(p, "tool", FALSE, {ids + i}) BY <2>1, PlainMessage
  <2>3. size \in Nat BY ConversationAssumption
  <2> PICK m : m = [p EXCEPT !.size = size] OBVIOUS
  <2>4. /\ m \in Message /\ m.role = "tool" /\ ~m.claude /\ ~m.hidden /\ ~m.summary
        /\ m.session = NoSession
    BY <2>2, <2>3 DEF IsPlain, Message
  <2>5. message(i) = m OBVIOUS
  <2> QED BY <2>4, <2>5
<1>a. PICK s : s = Results(size) OBVIOUS
<1>4. s = [i \in 1 .. c |-> message(i)] BY <1>a, <1>2 DEF Results
<1> HIDE DEF message
<1>5. s \in [1 .. c -> Message] /\ \A i \in 1 .. c : s[i] = message(i) BY <1>3, <1>4
<1>6. s \in Seq(Message) /\ Len(s) = c BY <1>5
<1> QED BY <1>a, <1>2, <1>3, <1>5, <1>6

\* The tools have run.
LEMMA BatchDoneHolds ==
  ASSUME IInv, NEW size \in OutputSize, NEW stopped \in BOOLEAN, NEW key \in BOOLEAN,
         BatchDone(size, stopped, key)
  PROVE  IInv' /\ Rolls
<1>0. /\ hist \in Seq(Message) /\ before \in Seq(Message) /\ Len(hist) > 0
      /\ ids \in 0 .. MaxIds /\ split = 0 /\ phase = "tools" /\ lost \subseteq Id
      /\ ids + Last(hist).calls <= MaxIds
  BY DEF IInv, Shaped, BatchDone
<1> PICK b \in Seq(Message) : b = before BY <1>0
<1> PICK h \in Seq(Message) : h = hist BY <1>0
<1>1. Ready(b, h) /\ (~EarlyCancel => Sound(h, lost, knows, gone)) BY <1>0, InTurn
<1> PICK c : c = Last(h).calls OBVIOUS
<1> PICK s : s = Results(size) OBVIOUS
<1>2. /\ c \in Nat /\ s \in Seq(Message) /\ Len(s) = c
      /\ \A i \in 1 .. Len(s) :
           /\ s[i].role = "tool" /\ ~s[i].claude /\ ~s[i].hidden /\ ~s[i].summary
           /\ s[i].session = NoSession
  <2>1. Shaped BY DEF IInv
  <2> QED BY <2>1, <1>0, ResultsAre
<1>3. ids + c \in 0 .. MaxIds /\ ids \in Nat BY <1>0, <1>2, ConversationAssumption
<1>7. s \in Seq(Message) /\ DOMAIN s = 1 .. c BY <1>2
<1> PICK g : g = h \o s OBVIOUS
<1>8. More(h, s, h \o s) BY <1>7, Joined
<1>9. /\ Continues(h, g)
      /\ \A i \in Len(h) + 1 .. Len(g) : i - Len(h) \in DOMAIN s /\ g[i] = s[i - Len(h)]
  BY <1>8 DEF More
<1>10. \A i \in Len(h) + 1 .. Len(g) :
         /\ g[i].role = "tool" /\ ~g[i].claude /\ ~g[i].hidden
         /\ g[i].session = NoSession
  <2> SUFFICES ASSUME NEW i \in Len(h) + 1 .. Len(g)
               PROVE  /\ g[i].role = "tool" /\ ~g[i].claude /\ ~g[i].hidden
                      /\ g[i].session = NoSession
    OBVIOUS
  <2> PICK j : j = i - Len(h) OBVIOUS
  <2>1. j \in 1 .. Len(s) /\ g[i] = s[j] BY <1>2, <1>7, <1>9
  <2> QED BY <1>2, <2>1
<1>11. Replies(h, g) BY <1>10 DEF Replies
<1>12. Ready(b, g) /\ (Sound(h, lost, knows, gone) => Sound(g, lost, knows, gone))
  BY <1>1, <1>9, <1>10, <1>11, RecordOn
<1>13. ids' \in 0 .. MaxIds /\ run' = run /\ knows' = knows /\ gone' = gone
  BY <1>3 DEF BatchDone
<1>14. ~EarlyCancel => Sound(g, lost, knows, gone) BY <1>1, <1>12
<1>15. CASE stopped
  <2>1. Finalize(g, FALSE) /\ split' = 0 /\ lost' = lost BY <1>0, <1>15 DEF BatchDone
  <2> QED BY <1>12, <1>13, <1>14, <2>1, EndHolds
<1>16. CASE ~stopped
  <2>1. StartCompletion(g, key) BY <1>16 DEF BatchDone
  <2>2. Onward(b, g) BY <1>0, <1>12, <2>1, CompletionOn
  <2> QED BY <1>0, <1>13, <1>14, <2>2, OnwardHolds
<1> QED BY <1>15, <1>16

-----------------------------------------------------------------------------
(* The steps of a turn on Claude Code.                                     *)

\* The session StartClaudeTurn finds is the newest one.
LEMMA LastSessionIs ==
  ASSUME NEW h \in Seq(Message), Len(h) > 0, h[Len(h)].session = NoSession
  PROVE  /\ LastSession(h) \in 0 .. Len(h) - 1
         /\ LastSession(h) = 0 => \A i \in DOMAIN h : h[i].session = NoSession
         /\ LastSession(h) # 0 => Newest(h, LastSession(h))
<1> PICK k \in Nat : k = Len(h) OBVIOUS
<1>0. DOMAIN h = 1 .. k /\ k > 0 OBVIOUS
<1> DEFINE S == {0} \cup {i \in 1 .. k - 1 : h[i].session # NoSession}
<1> PICK pos : pos = Max(S) OBVIOUS
<1>1. pos = LastSession(h) BY DEF LastSession
<1>2. S \subseteq 0 .. k - 1 /\ S # {} /\ k - 1 \in Nat BY <1>0
<1>3. pos \in S /\ \A y \in S : pos >= y
  <2> HIDE DEF S
  <2> QED BY <1>2, MaxOf
<1>4. \A i \in pos + 1 .. k : h[i].session = NoSession
  <2> SUFFICES ASSUME NEW i \in pos + 1 .. k, h[i].session # NoSession PROVE FALSE OBVIOUS
  <2>1. i # k OBVIOUS
  <2>2. i \in 1 .. k - 1 /\ pos \in Nat BY <1>2, <1>3, <2>1
  <2>3. i \in S BY <2>2
  <2> QED BY <1>3, <2>2, <2>3
<1>5. ASSUME pos = 0 PROVE \A i \in 1 .. k : h[i].session = NoSession
  <2>1. pos + 1 = 1 BY <1>5
  <2> QED BY <1>4, <2>1
<1>6. ASSUME pos # 0 PROVE Newest(h, pos)
  <2>1. pos \in 1 .. k - 1 /\ h[pos].session # NoSession BY <1>3, <1>6
  <2>2. pos \in DOMAIN h BY <1>0, <2>1
  <2> QED BY <2>1, <2>2, <1>4 DEF Newest
<1> QED BY <1>0, <1>1, <1>2, <1>3, <1>5, <1>6

\* Only one session is the newest.
LEMMA NewestOnce ==
  ASSUME NEW h \in Seq(Message), NEW i, NEW j, Newest(h, i), Newest(h, j)
  PROVE  i = j
<1> PICK k \in Nat : k = Len(h) OBVIOUS
<1>0. i \in 1 .. k /\ j \in 1 .. k BY DEF Newest
<1>1. CASE i < j
  <2>1. j \in i + 1 .. k BY <1>0, <1>1
  <2> QED BY <2>1 DEF Newest
<1>2. CASE j < i
  <2>1. i \in j + 1 .. k BY <1>0, <1>2
  <2> QED BY <2>1 DEF Newest
<1> QED BY <1>0, <1>1, <1>2

\* The whole transcript and the prompt tell everything that is not lost.
LEMMA WholeTold ==
  ASSUME NEW h \in Seq(Message), Len(h) > 0, NEW l, Covered(h, l), Mute(h)
  PROVE  Told(h) \subseteq HandoverTranscript(h, 1, Len(h) - 1, FALSE) \cup h[Len(h)].tells \cup l
<1> PICK k \in Nat : k = Len(h) OBVIOUS
<1>0. DOMAIN h = 1 .. k /\ k > 0 OBVIOUS
<1> PICK t : t = HandoverTranscript(h, 1, k - 1, FALSE) OBVIOUS
<1> SUFFICES ASSUME NEW x \in Told(h), x \notin l, x \notin h[k].tells PROVE x \in t OBVIOUS
<1>1. PICK i \in 1 .. k : ~h[i].hidden /\ x \in h[i].tells
  BY <1>0 DEF Covered, Seen
<1>2. h[i].role # "system" BY <1>0, <1>1 DEF Mute
<1>3. i \in 1 .. k - 1 BY <1>1
<1> QED BY <1>1, <1>2, <1>3 DEF HandoverTranscript

\* A session that knows k is told the rest of h.
Completes(h, pos, k, l) ==
  Told(h) \subseteq HandoverTranscript(h, pos + 1, Len(h) - 1, TRUE) \cup h[Len(h)].tells
                    \cup l \cup k

\* What was said since a session's last message, by others than Claude Code,
\* tells what the session does not know.
LEMMA RestTold ==
  ASSUME NEW h \in Seq(Message), NEW b \in Seq(Message), NEW l, NEW kn, NEW g, NEW pos,
         Len(h) = Len(b) + 1, \A i \in 1 .. Len(b) : h[i] = b[i],
         Covered(h, l), Mute(h), Informed(b, l, kn, g), Newest(b, pos), b[pos].session \notin g
  PROVE  Completes(h, pos, kn[b[pos].session], l)
<1> PICK n \in Nat : n = Len(b) OBVIOUS
<1> PICK k \in Nat : k = Len(h) OBVIOUS
<1>0. DOMAIN h = 1 .. k /\ k = n + 1 /\ DOMAIN b = 1 .. n /\ pos \in 1 .. n BY DEF Newest
<1> PICK t : t = HandoverTranscript(h, pos + 1, k - 1, TRUE) OBVIOUS
<1> SUFFICES ASSUME NEW x \in Told(h), x \notin l, x \notin h[k].tells,
                    x \notin kn[b[pos].session]
             PROVE  x \in t
  BY DEF Completes
<1>1. PICK i \in 1 .. k : ~h[i].hidden /\ x \in h[i].tells
  BY <1>0 DEF Covered, Seen
<1>2. h[i].role # "system" BY <1>0, <1>1 DEF Mute
<1>3. i \in 1 .. n /\ h[i] = b[i]
  <2>1. i # k BY <1>1
  <2> QED BY <2>1, <1>0
<1>4. ~(i <= pos \/ b[i].claude)
  <2> SUFFICES ASSUME i <= pos \/ b[i].claude PROVE FALSE OBVIOUS
  <2>1. b[i].tells \subseteq l \cup kn[b[pos].session] BY <1>0, <1>3 DEF Informed
  <2> QED BY <2>1, <1>1, <1>3
<1>5. i \in pos + 1 .. k - 1 /\ ~h[i].claude BY <1>0, <1>3, <1>4
<1> QED BY <1>1, <1>2, <1>5 DEF HandoverTranscript

\* A transcript tells of messages of the conversation.
LEMMA TranscriptType ==
  ASSUME NEW h \in Seq(Message), NEW from \in Nat, from > 0, NEW to \in Int, to <= Len(h),
         NEW skip \in BOOLEAN
  PROVE  HandoverTranscript(h, from, to, skip) \subseteq Id
<1>1. \A i \in DOMAIN h : h[i].tells \subseteq Id
  <2>1. \A i \in DOMAIN h : h[i] \in Message OBVIOUS
  <2> QED BY <2>1, Fields
<1>2. from .. to \subseteq DOMAIN h OBVIOUS
<1> QED BY <1>1, <1>2 DEF HandoverTranscript

\* The run a turn starts with.
LEMMA RunStarts ==
  ASSUME NEW h \in Seq(Message), Len(h) > 0, h[Len(h)].session = NoSession,
         NEW fresh \in BOOLEAN, NEW pos, pos = IF fresh THEN 0 ELSE LastSession(h),
         StartClaudeTurn(h, fresh)
  PROVE  /\ run' \in RunType /\ run'.session = NoSession /\ run'.pending = <<>>
         /\ run'.start = Len(h)
         /\ run'.resumes = IF pos = 0 THEN NoSession ELSE h[pos].session
         /\ run'.told = HandoverTranscript(h, pos + 1, Len(h) - 1, pos # 0) \cup h[Len(h)].tells
<1> PICK k \in Nat : k = Len(h) OBVIOUS
<1>0. DOMAIN h = 1 .. k /\ k > 0 /\ h[k] \in Message OBVIOUS
<1>1. pos \in 0 .. k - 1 BY <1>0, LastSessionIs
<1> PICK resumes : resumes = IF pos = 0 THEN NoSession ELSE h[pos].session OBVIOUS
<1> PICK told : told = HandoverTranscript(h, pos + 1, k - 1, pos # 0) \cup h[k].tells OBVIOUS
<1>2. resumes \in Session \cup {NoSession}
  <2>1. CASE pos = 0 BY <2>1
  <2>2. CASE pos # 0
    <3>1. h[pos] \in Message BY <1>0, <1>1, <2>2
    <3> QED BY <2>2, <3>1, Fields
  <2> QED BY <2>1, <2>2
<1>3. told \in SUBSET Id
  <2>1. pos + 1 \in Nat /\ pos + 1 > 0 /\ k - 1 \in Int /\ k - 1 <= Len(h)
        /\ (pos # 0) \in BOOLEAN
    BY <1>1
  <2>2. HandoverTranscript(h, pos + 1, k - 1, pos # 0) \subseteq Id BY <2>1, TranscriptType
  <2>3. h[k].tells \subseteq Id BY <1>0, Fields
  <2> QED BY <2>2, <2>3
<1>4. run' = [resumes |-> resumes, session |-> NoSession, told |-> told,
              pending |-> <<>>, start |-> k, retried |-> fresh]
  BY DEF StartClaudeTurn
<1>5. <<>> \in Seq(Message) OBVIOUS
<1> PICK e \in Seq(Message) : e = <<>> BY <1>5
<1> PICK r : r = [resumes |-> resumes, session |-> NoSession, told |-> told,
                  pending |-> e, start |-> k, retried |-> fresh]
  OBVIOUS
<1>6. r \in RunType BY <1>2, <1>3 DEF RunType
<1>7. /\ r.session = NoSession /\ r.pending = e /\ r.start = k
      /\ r.resumes = resumes /\ r.told = told
  OBVIOUS
<1>8. run' = r BY <1>4
<1> QED BY <1>6, <1>7, <1>8

\* The prompt that goes to Claude Code.
Prompted(b, h) == h = Append(b, Prompt(TRUE))

LEMMA ClaudePrompt ==
  ASSUME IInv, NEW b, NEW h, NEW installed \in BOOLEAN, StartTurnOnClaude(installed),
         b = hist, Prompted(b, h)
  PROVE  /\ b \in Seq(Message) /\ h \in Seq(Message) /\ Len(h) = Len(b) + 1
         /\ \A i \in 1 .. Len(b) : h[i] = b[i]
         /\ Grown(b, h) /\ Followed(b, h) /\ Continues(b, h)
         /\ h[Len(h)].session = NoSession /\ ~h[Len(h)].hidden
         /\ h[Len(h)].role = "user" /\ ids + 1 \in 0 .. MaxIds
<1>0. b \in Seq(Message) /\ ids \in 0 .. MaxIds /\ ids + 1 < MaxIds
  BY DEF IInv, Shaped, StartTurnOnClaude
<1> PICK n \in Nat : n = Len(b) BY <1>0
<1> PICK p : p = Prompt(TRUE) OBVIOUS
<1>1. {ids + 1} \in SUBSET Id /\ ids + 1 \in 0 .. MaxIds
  BY <1>0, ConversationAssumption DEF Id
<1>2. /\ p \in Message /\ p.role = "user" /\ ~p.hidden /\ p.session = NoSession
  <2>1. IsPlain(Plain("user", TRUE, {ids + 1}), "user", TRUE, {ids + 1})
    BY <1>1, PlainMessage
  <2> QED BY <2>1 DEF IsPlain, Prompt
<1>3. OneMore(b, p, Append(b, p)) BY <1>0, <1>2, Appended
<1>4. OneMore(b, p, h) BY <1>3 DEF Prompted
<1>5. Continues(b, h) /\ Len(h) = n + 1 /\ h[n + 1] = p BY <1>4 DEF OneMore
<1>6. h \in Seq(Message) /\ \A i \in 1 .. n : h[i] = b[i] BY <1>5 DEF Continues
<1>7. Grown(b, h)
  <2>1. n < Len(h) /\ \A i \in 1 .. n : Bare(h[i]) = Bare(b[i]) BY <1>5, <1>6
  <2>2. h[n + 1].role = "user" /\ h[n + 1].session = NoSession BY <1>2, <1>5
  <2> QED BY <2>1, <2>2 DEF Grown
<1>8. Followed(b, h)
  <2>1. n + 2 .. Len(h) = {} BY <1>5
  <2> QED BY <1>6, <2>1 DEF Followed
<1> QED BY <1>0, <1>1, <1>2, <1>5, <1>6, <1>7, <1>8

\* A turn on Claude Code.
LEMMA StartTurnOnClaudeHolds ==
  ASSUME IInv, NEW installed \in BOOLEAN, StartTurnOnClaude(installed)
  PROVE  IInv' /\ Rolls
<1>0. /\ hist \in Seq(Message) /\ split = 0 /\ phase = "idle" /\ lost \subseteq Id
      /\ gone \subseteq Session /\ knows \in [Session -> SUBSET Id] /\ run \in RunType
  BY DEF IInv, Shaped, StartTurnOnClaude
<1> PICK b \in Seq(Message) : b = hist BY <1>0
<1> PICK h : Prompted(b, h) BY DEF Prompted
<1>1. /\ h \in Seq(Message) /\ Len(h) = Len(b) + 1
      /\ \A i \in 1 .. Len(b) : h[i] = b[i]
      /\ Grown(b, h) /\ Followed(b, h) /\ Continues(b, h)
      /\ h[Len(h)].session = NoSession /\ ~h[Len(h)].hidden
      /\ h[Len(h)].role = "user" /\ ids + 1 \in 0 .. MaxIds
  BY ClaudePrompt
<1>2. /\ ids' = ids + 1 /\ split' = 0 /\ knows' = knows /\ gone' = gone /\ lost' = lost
  BY <1>0 DEF StartTurnOnClaude
<1>3. Rolls BY <1>0 DEF Rolls
<1>4. ~EarlyCancel => Sound(b, lost, knows, gone) BY <1>0 DEF IInv, Knowledge
<1>5. CASE ~installed
  <2>1. hist' = b /\ phase' = "idle" /\ before' = <<>> /\ run' = run
    BY <1>5 DEF StartTurnOnClaude, Finalize
  <2>2. Shaped'
    <3>1. <<>> \in Seq(Message) OBVIOUS
    <3>2. phase' \in Phases /\ phase' # "tools" BY <2>1 DEF Phases
    <3>3. 0 \in 0 .. Len(b) OBVIOUS
    <3> QED BY <1>0, <1>1, <1>2, <2>1, <3>1, <3>2, <3>3 DEF Shaped
  <2>3. Turn' BY <2>1 DEF Turn
  <2>4. ~EarlyCancel => Knowledge' BY <1>2, <1>4, <2>1 DEF Knowledge
  <2> QED BY <1>3, <2>2, <2>3, <2>4 DEF IInv
<1>6. CASE installed
  <2> PICK pos : pos = LastSession(h) OBVIOUS
  <2>1. StartClaudeTurn(h, FALSE) BY <1>6 DEF StartTurnOnClaude, Prompted
  <2>2. Len(h) > 0 BY <1>1
  <2>3. /\ run' \in RunType /\ run'.session = NoSession /\ run'.pending = <<>>
        /\ run'.start = Len(h)
        /\ run'.resumes = IF pos = 0 THEN NoSession ELSE h[pos].session
        /\ run'.told = HandoverTranscript(h, pos + 1, Len(h) - 1, pos # 0)
                       \cup h[Len(h)].tells
    <3> PICK f \in BOOLEAN : f = FALSE OBVIOUS
    <3>1. StartClaudeTurn(h, f) BY <2>1
    <3>2. pos = IF f THEN 0 ELSE LastSession(h) OBVIOUS
    <3> QED BY <1>1, <2>2, <3>1, <3>2, RunStarts
  <2>4. hist' = h /\ phase' = "claude" /\ before' = b
    BY <1>0, <2>1 DEF StartClaudeTurn, Goes
  <2>5. Shaped'
    <3>1. phase' \in Phases /\ phase' # "tools" BY <2>4 DEF Phases
    <3>2. 0 \in 0 .. Len(h) BY <2>2
    <3> QED BY <1>0, <1>1, <1>2, <2>3, <2>4, <3>1, <3>2 DEF Shaped
  <2>6. Turn'
    <3>1. \A i \in DOMAIN run'.pending : run'.pending[i].claude BY <2>3
    <3> QED BY <1>1, <2>3, <2>4, <3>1 DEF Turn
  <2>7. ASSUME ~EarlyCancel PROVE Knowledge'
    <3>0. Covered(b, lost) /\ Mute(b) /\ Informed(b, lost, knows, gone)
      BY <1>4, <2>7 DEF Sound
    <3>1. Keeps(b, h) BY <1>1, Kept
    <3>2. \A i \in Len(b) + 1 .. Len(h) : i = Len(h) BY <1>1
    <3>3. Covered(h, lost)
      <4>1. \A i \in Len(b) + 1 .. Len(h) : ~h[i].hidden BY <1>1, <3>2
      <4> QED BY <1>1, <3>0, <4>1, CoveredOn
    <3>4. Mute(h)
      <4>1. \A i \in Len(b) + 1 .. Len(h) : h[i].role # "system" BY <1>1, <3>2
      <4> QED BY <3>0, <3>1, <4>1, MuteOn
    <3>5. /\ pos \in 0 .. Len(h) - 1
          /\ pos = 0 => \A i \in DOMAIN h : h[i].session = NoSession
          /\ pos # 0 => Newest(h, pos)
      BY <1>1, <2>2, LastSessionIs
    <3>6. pos # 0 => Newest(b, pos) /\ b[pos] = h[pos] /\ h[pos].session # NoSession
      <4> SUFFICES ASSUME pos # 0
                   PROVE  Newest(b, pos) /\ b[pos] = h[pos] /\ h[pos].session # NoSession
        OBVIOUS
      <4> PICK n \in Nat : n = Len(b) OBVIOUS
      <4>0. Len(h) = n + 1 /\ \A i \in 1 .. n : h[i] = b[i] BY <1>1
      <4>1. pos \in 0 .. Len(h) - 1 /\ Newest(h, pos) BY <3>5
      <4>2. pos \in 1 .. n BY <4>0, <4>1
      <4>3. \A i \in pos + 1 .. n : i \in pos + 1 .. Len(h) /\ h[i] = b[i] BY <4>0, <4>2
      <4>4. b[pos] = h[pos] /\ h[pos].session # NoSession BY <4>0, <4>1, <4>2 DEF Newest
      <4>5. \A i \in pos + 1 .. n : b[i].session = NoSession BY <4>1, <4>3 DEF Newest
      <4>6. Newest(b, pos) BY <4>2, <4>4, <4>5 DEF Newest
      <4> QED BY <4>4, <4>6
    <3>7. ASSUME NEW i, Newest(h, i) PROVE h[i].session = run'.resumes
      <4>1. pos # 0 /\ i = pos
        <5>1. pos # 0 BY <3>5, <3>7 DEF Newest
        <5> QED BY <1>1, <3>5, <3>7, <5>1, NewestOnce
      <4> QED BY <2>3, <4>1
    <3>8. run'.resumes = NoSession => Told(h) \subseteq run'.told \cup lost
      <4> SUFFICES ASSUME run'.resumes = NoSession PROVE Told(h) \subseteq run'.told \cup lost
        OBVIOUS
      <4>1. pos = 0 BY <2>3, <3>6
      <4>2. Told(h) \subseteq HandoverTranscript(h, 1, Len(h) - 1, FALSE)
                              \cup h[Len(h)].tells \cup lost
        BY <1>1, <2>2, <3>3, <3>4, WholeTold
      <4>3. HandoverTranscript(h, pos + 1, Len(h) - 1, pos # 0)
              = HandoverTranscript(h, 1, Len(h) - 1, FALSE)
        BY <4>1 DEF HandoverTranscript
      <4> QED BY <2>3, <4>2, <4>3
    <3>9. run'.resumes # NoSession /\ run'.resumes \notin gone =>
            Told(h) \subseteq run'.told \cup lost \cup knows[run'.resumes]
      <4> SUFFICES ASSUME run'.resumes # NoSession, run'.resumes \notin gone
                   PROVE  Told(h) \subseteq run'.told \cup lost \cup knows[run'.resumes]
        OBVIOUS
      <4>1. pos # 0 BY <2>3
      <4>2. /\ b[pos].session = run'.resumes /\ Newest(b, pos)
            /\ b[pos].session \notin gone
        BY <2>3, <3>6, <4>1
      <4>3. Completes(h, pos, knows[b[pos].session], lost)
        BY <1>1, <3>0, <3>3, <3>4, <4>2, RestTold
      <4>4. HandoverTranscript(h, pos + 1, Len(h) - 1, pos # 0)
              = HandoverTranscript(h, pos + 1, Len(h) - 1, TRUE)
        BY <4>1 DEF HandoverTranscript
      <4> QED BY <2>3, <4>2, <4>3, <4>4 DEF Completes
    <3>10. Briefed' BY <1>2, <2>4, <3>7, <3>8, <3>9 DEF Briefed
    <3> QED BY <1>2, <1>4, <2>3, <2>4, <2>7, <3>3, <3>4, <3>10 DEF Knowledge
  <2> QED BY <1>3, <2>5, <2>6, <2>7 DEF IInv
<1> QED BY <1>5, <1>6

\* What a run's type says of its parts.
LEMMA RunFields ==
  ASSUME NEW r \in RunType
  PROVE  /\ r.resumes \in Session \cup {NoSession} /\ r.session \in Session \cup {NoSession}
         /\ r.told \subseteq Id /\ r.pending \in Seq(Message) /\ r.start \in Nat
BY DEF RunType

\* A history that the newest session knows but for what is lost.
Known(h, k, s, l, g) ==
  /\ Covered(h, l) /\ Mute(h) /\ Told(h) \subseteq k \cup l
  /\ \A pos \in DOMAIN h : Newest(h, pos) => h[pos].session \in g \cup {s}

LEMMA KnownSound ==
  ASSUME NEW h \in Seq(Message), NEW kn, NEW s, NEW l, NEW g, Known(h, kn[s], s, l, g)
  PROVE  Sound(h, l, kn, g)
<1> SUFFICES ASSUME NEW pos \in DOMAIN h, Newest(h, pos), h[pos].session \notin g,
                    NEW j \in DOMAIN h
             PROVE  h[j].tells \subseteq l \cup kn[h[pos].session]
  BY DEF Sound, Known, Informed
<1>1. h[pos].session = s BY DEF Known
<1>2. h[j].tells \subseteq Told(h) BY DEF Told
<1> QED BY <1>1, <1>2 DEF Known

\* What is kept back is recorded.
LEMMA Flushed ==
  ASSUME IInv, phase = "claude", NEW h, h = hist \o run.pending
  PROVE  /\ h \in Seq(Message) /\ Len(hist) <= Len(h)
         /\ Grown(before, h) /\ Followed(before, h)
         /\ run.session = NoSession => h = hist
         /\ ~EarlyCancel /\ run.session # NoSession =>
              Known(h, knows[run.session], run.session, lost, gone)
<1>0. /\ hist \in Seq(Message) /\ before \in Seq(Message) /\ run \in RunType
      /\ lost \subseteq Id /\ knows \in [Session -> SUBSET Id] /\ gone \subseteq Session
  BY DEF IInv, Shaped
<1> PICK b \in Seq(Message) : b = before BY <1>0
<1> PICK e \in Seq(Message) : e = hist BY <1>0
<1>1. run.pending \in Seq(Message) BY <1>0, RunFields
<1> PICK w \in Seq(Message) : w = run.pending BY <1>1
<1>2. /\ Grown(b, e) /\ Followed(b, e)
      /\ \A i \in DOMAIN w : w[i].claude
      /\ run.session = NoSession => w = <<>>
  BY DEF IInv, Turn
<1>3. More(e, w, e \o w) BY Joined
<1>4. More(e, w, h) BY <1>3
<1> PICK n \in Nat : n = Len(b) OBVIOUS
<1> PICK k \in Nat : k = Len(e) OBVIOUS
<1> PICK d \in Nat : d = Len(w) OBVIOUS
<1>5. /\ Continues(e, h) /\ Len(h) = k + d
      /\ \A i \in k + 1 .. k + d : i - k \in DOMAIN w /\ h[i] = w[i - k]
  BY <1>4 DEF More
<1>6. h \in Seq(Message) /\ \A i \in 1 .. k : h[i] = e[i] BY <1>5 DEF Continues
<1>7. Keeps(e, h) BY <1>5, Kept
<1>8. Grown(b, h) BY <1>2, <1>7, GrownOn
<1>9. n < k BY <1>2 DEF Grown
<1>10. Followed(b, h)
  <2>1. \A i \in 1 .. n : i \in 1 .. k BY <1>9
  <2>2. \A i \in 1 .. n : h[i] = b[i] BY <1>2, <1>6, <2>1 DEF Followed
  <2>3. ASSUME NEW i \in n + 2 .. k + d PROVE h[i].claude
    <3>1. CASE i <= k
      <4>1. i \in 1 .. k /\ i \in n + 2 .. k BY <3>1
      <4> QED BY <1>2, <1>6, <4>1 DEF Followed
    <3>2. CASE i > k
      <4>1. i \in k + 1 .. k + d BY <3>2
      <4> QED BY <1>2, <1>5, <4>1
    <3> QED BY <3>1, <3>2
  <2> QED BY <1>5, <2>2, <2>3 DEF Followed
<1>11. ASSUME run.session = NoSession PROVE h = e
  <2>1. w = <<>> BY <1>2, <1>11
  <2>2. e \o <<>> = e OBVIOUS
  <2> QED BY <2>1, <2>2
<1>12. ASSUME ~EarlyCancel, run.session # NoSession
       PROVE  Known(h, knows[run.session], run.session, lost, gone)
  <2>0. Knowledge BY <1>12 DEF IInv
  <2> PICK s : s = run.session OBVIOUS
  <2> PICK kn : kn = knows[s] OBVIOUS
  <2>1. /\ Covered(e, lost) /\ Mute(e) /\ Told(e) \subseteq kn \cup lost
        /\ Len(w) <= 1
        /\ \A i \in DOMAIN w : /\ w[i].tells \subseteq kn /\ w[i].session = s
                               /\ ~w[i].hidden /\ w[i].role # "system"
        /\ \A pos \in DOMAIN e : Newest(e, pos) => e[pos].session \in gone \cup {s}
    BY <2>0, <1>12 DEF Knowledge, Running
  <2>2. ASSUME NEW i \in k + 1 .. k + d
        PROVE  /\ h[i].tells \subseteq kn /\ h[i].session = s
               /\ ~h[i].hidden /\ h[i].role # "system"
    BY <1>5, <2>1
  <2>3. Covered(h, lost) BY <1>5, <2>1, <2>2, CoveredOn
  <2>4. Mute(h) BY <1>5, <1>7, <2>1, <2>2, MuteOn
  <2>5. DOMAIN h = 1 .. k + d /\ DOMAIN e = 1 .. k BY <1>5, <1>6
  <2>6. Told(h) \subseteq kn \cup lost
    <3> SUFFICES ASSUME NEW i \in 1 .. k + d, NEW x \in h[i].tells, x \notin kn
                 PROVE  x \in lost
      BY <2>5 DEF Told
    <3>1. i \in 1 .. k
      <4> SUFFICES ASSUME i \notin 1 .. k PROVE FALSE OBVIOUS
      <4>1. i \in k + 1 .. k + d OBVIOUS
      <4> QED BY <2>2, <4>1
    <3>2. x \in e[i].tells /\ i \in DOMAIN e BY <1>6, <2>5, <3>1
    <3>3. x \in Told(e) BY <3>2 DEF Told
    <3> QED BY <2>1, <3>3
  <2>7. ASSUME NEW pos \in 1 .. k + d, Newest(h, pos) PROVE h[pos].session \in gone \cup {s}
    <3>1. CASE pos \in k + 1 .. k + d BY <2>2, <3>1
    <3>2. CASE pos \in 1 .. k
      <4>1. \A i \in pos + 1 .. k : i \in pos + 1 .. Len(h) /\ h[i] = e[i] BY <1>5, <1>6, <3>2
      <4>2. Newest(e, pos) BY <1>6, <2>5, <2>7, <3>2, <4>1 DEF Newest
      <4> QED BY <1>6, <2>1, <2>5, <3>2, <4>2
    <3> QED BY <3>1, <3>2
  <2> QED BY <2>3, <2>4, <2>5, <2>6, <2>7 DEF Known
<1> QED BY <1>5, <1>6, <1>8, <1>10, <1>11, <1>12

\* Claude Code names its session.
LEMMA ClaudeInitHolds ==
  ASSUME IInv, NEW s \in Session, ClaudeInit(s)
  PROVE  IInv' /\ Rolls
<1>0. /\ run \in RunType /\ knows \in [Session -> SUBSET Id] /\ phase = "claude"
      /\ run.session = NoSession
      /\ hist' = hist /\ phase' = "claude" /\ split' = split /\ before' = before
      /\ ids' = ids /\ gone' = gone /\ lost' = lost
      /\ run' = [run EXCEPT !.session = s]
      /\ knows' = [knows EXCEPT ![s] = @ \cup run.told]
      /\ s # NoSession
  BY ConversationAssumption DEF IInv, Shaped, ClaudeInit
<1> PICK r : r = [run EXCEPT !.session = s] OBVIOUS
<1>1. /\ r \in RunType /\ r.resumes = run.resumes /\ r.session = s /\ r.pending = run.pending
      /\ r.start = run.start
  BY <1>0 DEF RunType
<1>2. run.told \subseteq Id BY <1>0, RunFields
<1>3. /\ knows' \in [Session -> SUBSET Id] /\ knows'[s] = knows[s] \cup run.told
      /\ \A n \in Session : knows[n] \subseteq knows'[n]
  BY <1>0, <1>2
<1>4. Shaped' BY <1>0, <1>1, <1>3 DEF IInv, Shaped
<1>5. Turn' BY <1>0, <1>1 DEF IInv, Turn
<1>6. ASSUME ~EarlyCancel PROVE Knowledge'
  <2>1. Knowledge /\ Shaped /\ Turn BY <1>6 DEF IInv
  <2>2. /\ Covered(hist, lost) /\ Mute(hist) /\ Sound(before, lost, knows, gone) /\ Briefed
        /\ run.pending = <<>>
    BY <1>0, <2>1 DEF Knowledge, Turn
  <2>3. Sound(before, lost, knows', gone)
    <3>1. before \in Seq(Message) BY <2>1 DEF Shaped
    <3> PICK b \in Seq(Message) : b = before BY <3>1
    <3> PICK kn : kn = knows' OBVIOUS
    <3>2. \A n \in Session : knows[n] \subseteq kn[n] BY <1>3
    <3>3. Informed(b, lost, knows, gone) BY <2>2 DEF Sound
    <3>4. Informed(b, lost, kn, gone) BY <3>2, <3>3, InformedMore
    <3> QED BY <2>2, <3>4 DEF Sound
  <2>4. Told(hist) \subseteq knows'[s] \cup lost
    <3>1. CASE run.resumes = NoSession BY <1>3, <2>2, <3>1 DEF Briefed
    <3>2. CASE run.resumes # NoSession
      <4>1. s = run.resumes /\ s \notin gone BY <3>2 DEF ClaudeInit
      <4> QED BY <1>3, <2>2, <3>2, <4>1 DEF Briefed
    <3> QED BY <3>1, <3>2
  <2>5. \A pos \in DOMAIN hist : Newest(hist, pos) => hist[pos].session \in gone \cup {s}
    <3> SUFFICES ASSUME NEW pos \in DOMAIN hist, Newest(hist, pos)
                 PROVE  hist[pos].session \in gone \cup {s}
      OBVIOUS
    <3>1. hist[pos].session \in gone \cup {run.resumes} BY <2>2 DEF Briefed
    <3>2. hist[pos].session # NoSession BY DEF Newest
    <3>3. run.resumes # NoSession => s = run.resumes BY DEF ClaudeInit
    <3> QED BY <3>1, <3>2, <3>3
  <2>6. Len(run.pending) <= 1 /\ DOMAIN run.pending = {} BY <2>2
  <2>7. Running' BY <1>0, <1>1, <2>4, <2>5, <2>6 DEF Running
  <2> QED BY <1>0, <1>1, <2>2, <2>3, <2>7 DEF Knowledge
<1>7. Rolls BY <1>0 DEF Rolls
<1> QED BY <1>4, <1>5, <1>6, <1>7 DEF IInv

\* ... and is told more.
LEMMA SoundMore ==
  ASSUME NEW h \in Seq(Message), NEW l, NEW kn, NEW kn2, NEW g, Sound(h, l, kn, g),
         \A s \in Session : kn[s] \subseteq kn2[s]
  PROVE  Sound(h, l, kn2, g)
BY InformedMore DEF Sound

\* Claude Code speaks; what it said before is recorded.
LEMMA ClaudeMessageHolds ==
  ASSUME IInv, NEW n \in 0 .. MaxCalls, ClaudeMessage(n)
  PROVE  IInv' /\ Rolls
<1>0. /\ run \in RunType /\ knows \in [Session -> SUBSET Id] /\ phase = "claude"
      /\ ids \in 0 .. MaxIds /\ ids + n < MaxIds
      /\ hist \in Seq(Message) /\ before \in Seq(Message) /\ split = 0
      /\ run.session # NoSession
      /\ phase' = "claude" /\ split' = split /\ before' = before
      /\ ids' = ids + 1 /\ gone' = gone /\ lost' = lost
  BY DEF IInv, Shaped, ClaudeMessage
<1> PICK h : h = hist \o run.pending OBVIOUS
<1>1. /\ h \in Seq(Message) /\ Len(hist) <= Len(h)
      /\ Grown(before, h) /\ Followed(before, h)
      /\ ~EarlyCancel => Known(h, knows[run.session], run.session, lost, gone)
  BY <1>0, Flushed
<1> PICK s \in Session : s = run.session BY <1>0, RunFields
<1>2. {ids + 1} \in SUBSET Id /\ ids + 1 \in 0 .. MaxIds
  BY <1>0, ConversationAssumption DEF Id
<1> PICK p : p = Plain("assistant", TRUE, {ids + 1}) OBVIOUS
<1>3. IsPlain(p, "assistant", TRUE, {ids + 1}) BY <1>2, PlainMessage
<1> PICK q : q = [p EXCEPT !.calls = n] OBVIOUS
<1> PICK m : m = [q EXCEPT !.session = s] OBVIOUS
<1>4. /\ q \in Message /\ q.claude = TRUE /\ ~q.hidden /\ q.role = "assistant"
      /\ q.tells = {ids + 1}
  BY <1>3 DEF IsPlain, Message
<1>5. /\ m \in Message /\ m.claude = TRUE /\ ~m.hidden /\ m.role = "assistant"
      /\ m.tells = {ids + 1} /\ m.session = s
  BY <1>4 DEF Message
<1>6. <<m>> \in Seq(Message) BY <1>5
<1> PICK w \in Seq(Message) : w = <<m>> BY <1>6
<1>7. Len(w) = 1 /\ DOMAIN w = {1} /\ w[1] = m OBVIOUS
<1> PICK r : r = [run EXCEPT !.pending = w] OBVIOUS
<1>8. /\ r \in RunType /\ r.resumes = run.resumes /\ r.session = s /\ r.pending = w
      /\ r.start = run.start
  BY <1>0 DEF RunType
<1>9. [[p EXCEPT !.calls = n] EXCEPT !.session = s] = [p EXCEPT !.calls = n, !.session = s]
  OBVIOUS
<1>10. hist' = h /\ run' = r /\ knows' = [knows EXCEPT ![s] = @ \cup {ids + 1}]
  BY <1>9 DEF ClaudeMessage
<1>11. /\ knows' \in [Session -> SUBSET Id] /\ knows'[s] = knows[s] \cup {ids + 1}
       /\ \A x \in Session : knows[x] \subseteq knows'[x]
  BY <1>0, <1>2, <1>10
<1>12. Shaped'
  <2>1. phase' \in Phases /\ phase' # "tools" BY <1>0 DEF Phases
  <2>2. 0 \in 0 .. Len(h) BY <1>1
  <2> QED BY <1>0, <1>1, <1>2, <1>8, <1>10, <1>11, <2>1, <2>2 DEF IInv, Shaped
<1>13. Turn'
  <2>1. run.start = Len(before) + 1 BY <1>0 DEF IInv, Turn
  <2>2. \A i \in DOMAIN w : w[i].claude BY <1>5, <1>7
  <2> QED BY <1>0, <1>1, <1>8, <1>10, <2>1, <2>2, ConversationAssumption DEF Turn
<1>14. ASSUME ~EarlyCancel PROVE Knowledge'
  <2>1. Known(h, knows[s], s, lost, gone) BY <1>1, <1>14
  <2>2. Sound(before, lost, knows, gone) BY <1>0, <1>14 DEF IInv, Knowledge
  <2>3. Sound(before, lost, knows', gone)
    <3> PICK b \in Seq(Message) : b = before BY <1>0
    <3> PICK kn : kn = knows' OBVIOUS
    <3>1. Sound(b, lost, kn, gone) BY <1>11, <2>2, SoundMore
    <3> QED BY <3>1
  <2>4. Told(h) \subseteq knows'[s] \cup lost BY <1>11, <2>1 DEF Known
  <2>5. \A i \in DOMAIN w : /\ w[i].tells \subseteq knows'[s] /\ w[i].session = s
                            /\ ~w[i].hidden /\ w[i].role # "system"
    <3>1. m.tells \subseteq knows'[s] BY <1>5, <1>11
    <3> SUFFICES ASSUME NEW i \in DOMAIN w
                 PROVE  /\ w[i].tells \subseteq knows'[s] /\ w[i].session = s
                        /\ ~w[i].hidden /\ w[i].role # "system"
      OBVIOUS
    <3>2. i = 1 BY <1>7
    <3>3. w[i] = m BY <1>7, <3>2
    <3>4. m.session = s /\ ~m.hidden /\ m.role # "system" BY <1>5
    <3> QED BY <3>1, <3>3, <3>4
  <2>6. \A pos \in DOMAIN h : Newest(h, pos) => h[pos].session \in gone \cup {s}
    BY <2>1 DEF Known
  <2>7. Running' BY <1>0, <1>7, <1>8, <1>10, <2>4, <2>5, <2>6 DEF Running
  <2>8. Covered(h, lost) /\ Mute(h) BY <2>1 DEF Known
  <2>9. s # NoSession BY <1>0
  <2> QED BY <1>0, <1>8, <1>10, <2>3, <2>7, <2>8, <2>9 DEF Knowledge
<1>15. Rolls BY <1>0 DEF Rolls
<1> QED BY <1>12, <1>13, <1>14, <1>15 DEF IInv

\* A known history with one message more, of which the session is told.
LEMMA KnownOn ==
  ASSUME NEW h \in Seq(Message), NEW m \in Message, NEW g, OneMore(h, m, g),
         NEW k, NEW k2, NEW s, NEW l, NEW gn, Known(h, k, s, l, gn),
         m.session = NoSession, ~m.hidden, m.role # "system",
         k \subseteq k2, m.tells \subseteq k2
  PROVE  Known(g, k2, s, l, gn)
<1> PICK n \in Nat : n = Len(h) OBVIOUS
<1>1. /\ Continues(h, g) /\ Len(g) = n + 1 /\ g[n + 1] = m
      /\ \A i \in n + 1 .. Len(g) : g[i] = m
  BY DEF OneMore
<1>2. g \in Seq(Message) /\ \A i \in 1 .. n : g[i] = h[i] BY <1>1 DEF Continues
<1>3. DOMAIN g = 1 .. n + 1 /\ DOMAIN h = 1 .. n BY <1>1, <1>2
<1>4. Covered(g, l)
  <2>1. Covered(h, l) /\ \A i \in Len(h) + 1 .. Len(g) : ~g[i].hidden BY <1>1 DEF Known
  <2> QED BY <1>1, <2>1, CoveredOn
<1>5. Mute(g)
  <2>1. Mute(h) /\ \A i \in Len(h) + 1 .. Len(g) : g[i].role # "system" BY <1>1 DEF Known
  <2>2. Keeps(h, g) BY <1>1, Kept
  <2> QED BY <2>1, <2>2, MuteOn
<1>6. Told(g) \subseteq k2 \cup l
  <2> SUFFICES ASSUME NEW i \in 1 .. n + 1, NEW x \in g[i].tells, x \notin k2
               PROVE  x \in l
    BY <1>3 DEF Told
  <2>1. i \in 1 .. n
    <3> SUFFICES ASSUME i \notin 1 .. n PROVE FALSE OBVIOUS
    <3>1. i = n + 1 OBVIOUS
    <3> QED BY <1>1, <3>1
  <2>2. x \in Told(h) BY <1>2, <1>3, <2>1 DEF Told
  <2> QED BY <2>2 DEF Known
<1>7. ASSUME NEW pos \in 1 .. n + 1, Newest(g, pos) PROVE g[pos].session \in gn \cup {s}
  <2>1. pos # n + 1 BY <1>1, <1>7 DEF Newest
  <2>2. pos \in 1 .. n BY <2>1
  <2>3. \A i \in pos + 1 .. n : i \in pos + 1 .. Len(g) /\ h[i] = g[i] BY <1>1, <1>2, <2>2
  <2>4. Newest(h, pos) BY <1>2, <1>3, <1>7, <2>2, <2>3 DEF Newest
  <2>5. h[pos].session \in gn \cup {s} BY <1>3, <2>2, <2>4 DEF Known
  <2> QED BY <1>2, <2>2, <2>5
<1> QED BY <1>3, <1>4, <1>5, <1>6, <1>7 DEF Known

\* Claude Code goes on.
LEMMA FollowedOn ==
  ASSUME NEW b \in Seq(Message), NEW h \in Seq(Message), NEW m, NEW g,
         Grown(b, h), Followed(b, h), OneMore(h, m, g), m.claude
  PROVE  Grown(b, g) /\ Followed(b, g)
<1> PICK n \in Nat : n = Len(b) OBVIOUS
<1> PICK k \in Nat : k = Len(h) OBVIOUS
<1>1. /\ n < k /\ Continues(h, g) /\ Len(g) = k + 1 /\ g[k + 1] = m
  BY DEF Grown, OneMore
<1>2. \A i \in 1 .. k : g[i] = h[i] BY <1>1 DEF Continues
<1>3. Grown(b, g)
  <2>1. Keeps(h, g) BY <1>1, Kept
  <2> QED BY <2>1, GrownOn
<1>4. \A i \in 1 .. n : i \in 1 .. k BY <1>1
<1>5. \A i \in 1 .. n : g[i] = b[i] BY <1>2, <1>4 DEF Followed
<1>6. ASSUME NEW i \in n + 2 .. k + 1 PROVE g[i].claude
  <2>1. CASE i = k + 1 BY <1>1, <2>1
  <2>2. CASE i # k + 1
    <3>1. i \in n + 2 .. k /\ i \in 1 .. k BY <2>2
    <3>2. h[i].claude BY <3>1 DEF Followed
    <3> QED BY <1>2, <3>1, <3>2
  <2> QED BY <2>1, <2>2
<1> QED BY <1>1, <1>3, <1>5, <1>6 DEF Followed

\* A tool of Claude Code's has run.
LEMMA ClaudeToolResultHolds ==
  ASSUME IInv, NEW size \in OutputSize, ClaudeToolResult(size)
  PROVE  IInv' /\ Rolls
<1>0. /\ run \in RunType /\ knows \in [Session -> SUBSET Id] /\ phase = "claude"
      /\ ids \in 0 .. MaxIds /\ ids < MaxIds
      /\ hist \in Seq(Message) /\ before \in Seq(Message) /\ split = 0
      /\ run.session # NoSession
      /\ phase' = "claude" /\ split' = split /\ before' = before
      /\ ids' = ids + 1 /\ gone' = gone /\ lost' = lost
  BY DEF IInv, Shaped, ClaudeToolResult
<1>a. PICK h : h = hist \o run.pending OBVIOUS
<1>1. /\ h \in Seq(Message) /\ Len(hist) <= Len(h)
      /\ Grown(before, h) /\ Followed(before, h)
      /\ ~EarlyCancel => Known(h, knows[run.session], run.session, lost, gone)
  BY <1>0, <1>a, Flushed
<1> PICK s \in Session : s = run.session BY <1>0, RunFields
<1> PICK b \in Seq(Message) : b = before BY <1>0
<1>2. {ids + 1} \in SUBSET Id /\ ids + 1 \in 0 .. MaxIds
  BY <1>0, ConversationAssumption DEF Id
<1>c. PICK p : p = Plain("tool", TRUE, {ids + 1}) OBVIOUS
<1>3. IsPlain(p, "tool", TRUE, {ids + 1}) BY <1>2, <1>c, PlainMessage
<1>d. PICK m : m = [p EXCEPT !.size = size] OBVIOUS
<1>4. size \in Nat BY ConversationAssumption
<1>5. /\ m \in Message /\ m.claude = TRUE /\ ~m.hidden /\ m.role = "tool"
      /\ m.tells = {ids + 1} /\ m.session = NoSession
  BY <1>3, <1>4, <1>d DEF IsPlain, Message
<1>6. OneMore(h, m, Append(h, m)) BY <1>1, <1>5, Appended
<1>b. PICK g : g = Append(h, m) OBVIOUS
<1>7. OneMore(h, m, g) BY <1>6, <1>b
<1>8. /\ Continues(h, g) /\ Len(g) = Len(h) + 1 /\ g[Len(h) + 1] = m
      /\ \A i \in Len(h) + 1 .. Len(g) : g[i] = m
  BY <1>7 DEF OneMore
<1>9. <<>> \in Seq(Message) OBVIOUS
<1> PICK e \in Seq(Message) : e = <<>> BY <1>9
<1>e. PICK r : r = [run EXCEPT !.pending = e] OBVIOUS
<1>10. /\ r \in RunType /\ r.session = s /\ r.pending = e /\ r.start = run.start
  BY <1>0, <1>e DEF RunType
<1>11. hist' = g /\ run' = r /\ knows' = [knows EXCEPT ![s] = @ \cup {ids + 1}]
  BY <1>a, <1>b, <1>c, <1>d, <1>e DEF ClaudeToolResult
<1>12. /\ knows' \in [Session -> SUBSET Id] /\ knows'[s] = knows[s] \cup {ids + 1}
       /\ \A x \in Session : knows[x] \subseteq knows'[x]
  BY <1>0, <1>2, <1>11
<1>13. g \in Seq(Message) /\ 0 \in 0 .. Len(g) BY <1>8 DEF Continues
<1>14. Shaped'
  <2>1. phase' \in Phases /\ phase' # "tools" BY <1>0 DEF Phases
  <2> QED BY <1>0, <1>2, <1>10, <1>11, <1>12, <1>13, <2>1 DEF IInv, Shaped
<1>15. Turn'
  <2>1. run.start = Len(before) + 1 BY <1>0 DEF IInv, Turn
  <2>2. DOMAIN e = {} OBVIOUS
  <2>3. Grown(b, g) /\ Followed(b, g) BY <1>1, <1>5, <1>7, FollowedOn
  <2> QED BY <1>0, <1>10, <1>11, <2>1, <2>2, <2>3 DEF Turn
<1>16. ASSUME ~EarlyCancel PROVE Knowledge'
  <2>1. Known(h, knows[s], s, lost, gone) BY <1>1, <1>16
  <2> PICK kn : kn = knows' OBVIOUS
  <2>2. Known(g, kn[s], s, lost, gone)
    <3> PICK k : k = knows[s] OBVIOUS
    <3> PICK k2 : k2 = kn[s] OBVIOUS
    <3>1. k \subseteq k2 /\ m.tells \subseteq k2 BY <1>5, <1>12
    <3>2. Known(h, k, s, lost, gone) BY <2>1
    <3>3. h \in Seq(Message) /\ m \in Message /\ m.session = NoSession /\ ~m.hidden
          /\ m.role # "system"
      BY <1>1, <1>5
    <3>4. Known(g, k2, s, lost, gone) BY <1>7, <3>1, <3>2, <3>3, KnownOn
    <3> QED BY <3>4
  <2>3. Sound(b, lost, knows, gone) BY <1>0, <1>16 DEF IInv, Knowledge
  <2>4. Sound(b, lost, kn, gone) BY <1>12, <2>3, SoundMore
  <2>5. Len(e) <= 1 /\ DOMAIN e = {} OBVIOUS
  <2>6. Running' BY <1>0, <1>10, <1>11, <2>2, <2>5 DEF Running, Known
  <2>7. Covered(g, lost) /\ Mute(g) BY <2>2 DEF Known
  <2> QED BY <1>0, <1>10, <1>11, <2>4, <2>6, <2>7 DEF Knowledge
<1>17. Rolls BY <1>0 DEF Rolls
<1> QED BY <1>14, <1>15, <1>16, <1>17 DEF IInv

\* A turn, or the frame, ends and leaves g; b is what it began with.
LEMMA LeaveHolds ==
  ASSUME IInv, NEW b, NEW g \in Seq(Message), b = before,
         hist' = g, phase' = "idle", before' = <<>>, split' = 0, run' \in RunType,
         ids' = ids, lost' = lost, knows' = knows, gone' = gone,
         ~EarlyCancel => Sound(g, lost, knows, gone),
         phase # "idle" =>
           /\ Len(b) <= Len(g) /\ \A i \in 1 .. Len(b) : Bare(g[i]) = Bare(b[i])
           /\ failed' => \/ Len(g) = Len(b)
                         \/ \E i \in Len(b) + 2 .. Len(g) : g[i].claude
  PROVE  IInv' /\ Rolls
<1> USE DEF IInv
<1>1. Shaped'
  <2>1. <<>> \in Seq(Message) OBVIOUS
  <2>2. phase' \in Phases /\ phase' # "tools" BY DEF Phases
  <2>3. 0 \in 0 .. Len(g) OBVIOUS
  <2> QED BY <2>1, <2>2, <2>3 DEF Shaped
<1>2. Turn' BY DEF Turn
<1>3. ~EarlyCancel => Knowledge' BY DEF Knowledge
<1>4. Rolls
  <2> SUFFICES ASSUME phase # "idle" PROVE Rolls BY DEF Rolls
  <2>1. b \in Seq(Message) BY DEF Shaped
  <2>2. IsPrefix(Unmarked(b), Unmarked(g)) BY <2>1, Prefix
  <2> QED BY <2>2 DEF Rolls
<1> QED BY <1>1, <1>2, <1>3, <1>4

\* A run of Claude Code ends.
LEMMA ClaudeDoneHolds ==
  ASSUME IInv, NEW how \in {"ok", "cancelled"}, ClaudeDone(how)
  PROVE  IInv' /\ Rolls
<1>0. /\ phase = "claude" /\ before \in Seq(Message) /\ split = 0
      /\ split' = split /\ ids' = ids /\ knows' = knows /\ gone' = gone /\ lost' = lost
      /\ run' = NoRun
      /\ ~EarlyCancel => run.session # NoSession
  BY DEF IInv, Shaped, ClaudeDone, MayEnd
<1>1. PICK h : h = hist \o run.pending OBVIOUS
<1>2. /\ h \in Seq(Message) /\ Grown(before, h)
      /\ ~EarlyCancel => Known(h, knows[run.session], run.session, lost, gone)
  BY <1>0, <1>1, Flushed
<1>3. hist' = h /\ phase' = "idle" /\ before' = <<>> /\ ~failed'
  BY <1>1 DEF ClaudeDone, Finalize
<1>4. ~EarlyCancel => Sound(h, lost, knows, gone) BY <1>2, KnownSound
<1>5. run' \in RunType BY <1>0, NoRunType
<1>6. Len(before) <= Len(h) /\ \A i \in 1 .. Len(before) : Bare(h[i]) = Bare(before[i])
  BY <1>0, <1>2 DEF Grown
<1> PICK b \in Seq(Message) : b = before BY <1>0
<1> QED BY <1>0, <1>2, <1>3, <1>4, <1>5, <1>6, LeaveHolds

\* A run of Claude Code fails.
LEMMA ClaudeFailsHolds ==
  ASSUME IInv, ClaudeFails
  PROVE  IInv' /\ Rolls
<1>0. /\ phase = "claude" /\ before \in Seq(Message) /\ split = 0
      /\ split' = split /\ ids' = ids /\ knows' = knows /\ gone' = gone /\ lost' = lost
      /\ run' = NoRun /\ run.start = Len(before) + 1
      /\ run.session = NoSession => Len(hist) = run.start
  BY DEF IInv, Shaped, Turn, ClaudeFails
<1> PICK b \in Seq(Message) : b = before BY <1>0
<1>1. PICK h : h = hist \o run.pending OBVIOUS
<1>2. /\ h \in Seq(Message) /\ Grown(b, h) /\ Followed(b, h)
      /\ run.session = NoSession => h = hist
      /\ ~EarlyCancel /\ run.session # NoSession =>
           Known(h, knows[run.session], run.session, lost, gone)
  BY <1>0, <1>1, Flushed
<1>3. PICK g : g = IF Len(h) = run.start THEN Front(h) ELSE h OBVIOUS
<1>4. hist' = g /\ phase' = "idle" /\ before' = <<>>
  BY <1>1, <1>3 DEF ClaudeFails, Finalize
<1>5. run' \in RunType BY <1>0, NoRunType
<1>6. CASE Len(h) = run.start
  <2>1. g = b
    <3>1. g = SubSeq(h, 1, Len(h) - 1) BY <1>3, <1>6 DEF Front
    <3> PICK n \in Nat : n = Len(b) OBVIOUS
    <3>2. Len(h) = n + 1 BY <1>0, <1>6
    <3>3. \A i \in 1 .. n : h[i] = b[i] BY <1>2 DEF Followed
    <3>4. SubSeq(h, 1, n) \in Seq(Message) /\ Len(SubSeq(h, 1, n)) = n
          /\ \A i \in 1 .. n : SubSeq(h, 1, n)[i] = h[i]
      BY <1>2, <3>2
    <3>5. PICK y \in Seq(Message) : y = SubSeq(h, 1, n) BY <3>4
    <3>6. Len(y) = Len(b) /\ \A i \in 1 .. Len(y) : y[i] = b[i] BY <3>3, <3>4, <3>5
    <3>7. y = b BY <3>6, SeqEqual
    <3> QED BY <3>1, <3>2, <3>5, <3>7
  <2>2. ~EarlyCancel => Sound(b, lost, knows, gone) BY <1>0 DEF IInv, Knowledge
  <2> QED BY <1>0, <1>4, <1>5, <2>1, <2>2, LeaveHolds
<1>7. CASE Len(h) # run.start
  <2>1. g = h BY <1>3, <1>7
  <2>2. run.session # NoSession BY <1>0, <1>2, <1>7
  <2>3. ~EarlyCancel => Sound(h, lost, knows, gone) BY <1>2, <2>2, KnownSound
  <2>4. Len(b) <= Len(h) /\ \A i \in 1 .. Len(b) : Bare(h[i]) = Bare(b[i])
    BY <1>2 DEF Grown
  <2>5. \E i \in Len(b) + 2 .. Len(h) : h[i].claude
    <3> PICK n \in Nat : n = Len(b) OBVIOUS
    <3> PICK k \in Nat : k = Len(h) BY <1>2
    <3>1. n < k /\ k # n + 1 BY <1>0, <1>2, <1>7 DEF Grown
    <3>2. n + 2 \in n + 2 .. k BY <3>1
    <3> QED BY <1>2, <3>2 DEF Followed
  <2> QED BY <1>0, <1>2, <1>4, <1>5, <2>1, <2>3, <2>4, <2>5, LeaveHolds
<1> QED BY <1>6, <1>7

\* The frame closes, and the conversation is opened again.
LEMMA RestartHolds ==
  ASSUME IInv, Restart
  PROVE  IInv' /\ Rolls
<1>0. /\ hist \in Seq(Message) /\ before \in Seq(Message)
      /\ split' = 0 /\ ids' = ids /\ knows' = knows /\ gone' = gone /\ lost' = lost
      /\ run' = NoRun /\ hist' = hist /\ phase' = "idle" /\ before' = <<>> /\ ~failed'
      /\ phase = "claude" /\ ~EarlyCancel => run.session # NoSession
  BY DEF IInv, Shaped, Restart, Finalize, MayEnd
<1> PICK b \in Seq(Message) : b = before BY <1>0
<1> PICK h \in Seq(Message) : h = hist BY <1>0
<1>1. run' \in RunType BY <1>0, NoRunType
<1>2. ASSUME ~EarlyCancel PROVE Sound(h, lost, knows, gone)
  <2>1. Knowledge BY <1>2 DEF IInv
  <2>2. CASE phase # "claude" BY <2>1, <2>2 DEF Knowledge
  <2>3. CASE phase = "claude"
    <3>1. run.session # NoSession BY <1>0, <1>2, <2>3
    <3>2. Covered(h, lost) /\ Mute(h) /\ Running BY <2>1, <2>3, <3>1 DEF Knowledge
    <3>3. Known(h, knows[run.session], run.session, lost, gone)
      BY <3>2 DEF Running, Known
    <3> QED BY <3>3, KnownSound
  <2> QED BY <2>2, <2>3
<1>3. ASSUME phase # "idle"
      PROVE  Len(b) <= Len(h) /\ \A i \in 1 .. Len(b) : Bare(h[i]) = Bare(b[i])
  <2>1. Grown(b, h) BY <1>3 DEF IInv, Turn
  <2> QED BY <2>1 DEF Grown
<1> QED BY <1>0, <1>1, <1>2, <1>3, LeaveHolds

\* The session to resume is gone; the turn begins again on a new one.
LEMMA ClaudeForgotHolds ==
  ASSUME IInv, ClaudeForgot
  PROVE  IInv' /\ Rolls
<1>0. /\ hist \in Seq(Message) /\ before \in Seq(Message) /\ split = 0
      /\ phase = "claude" /\ run \in RunType /\ gone \subseteq Session /\ lost \subseteq Id
      /\ ids \in 0 .. MaxIds /\ knows \in [Session -> SUBSET Id]
      /\ run.resumes # NoSession /\ run.session = NoSession
      /\ split' = split /\ ids' = ids /\ knows' = knows /\ lost' = lost
      /\ gone' = gone \cup {run.resumes}
      /\ StartClaudeTurn(hist, TRUE)
  BY DEF IInv, Shaped, ClaudeForgot
<1> PICK b \in Seq(Message) : b = before BY <1>0
<1> PICK h \in Seq(Message) : h = hist BY <1>0
<1>1. /\ Grown(b, h) /\ Followed(b, h) /\ Len(h) = Len(b) + 1
      /\ h[Len(h)].session = NoSession /\ Len(h) > 0
  <2>1. Grown(b, h) /\ Followed(b, h) /\ Len(h) = Len(b) + 1 BY <1>0 DEF IInv, Turn
  <2>2. h[Len(b) + 1].session = NoSession BY <2>1 DEF Grown
  <2> QED BY <2>1, <2>2
<1>2. hist' = h /\ phase' = "claude" /\ before' = b
  BY <1>0 DEF StartClaudeTurn, Goes
<1>3. /\ run' \in RunType /\ run'.session = NoSession /\ run'.pending = <<>>
      /\ run'.start = Len(h) /\ run'.resumes = NoSession
      /\ run'.told = HandoverTranscript(h, 1, Len(h) - 1, FALSE) \cup h[Len(h)].tells
  <2>1. PICK f \in BOOLEAN : f = TRUE OBVIOUS
  <2>2. PICK pos : pos = 0 OBVIOUS
  <2>3. pos = IF f THEN 0 ELSE LastSession(h) BY <2>1, <2>2
  <2>4. StartClaudeTurn(h, f) BY <1>0, <2>1
  <2>5. /\ run' \in RunType /\ run'.session = NoSession /\ run'.pending = <<>>
        /\ run'.start = Len(h)
        /\ run'.resumes = IF pos = 0 THEN NoSession ELSE h[pos].session
        /\ run'.told = HandoverTranscript(h, pos + 1, Len(h) - 1, pos # 0)
                       \cup h[Len(h)].tells
    BY <1>1, <2>3, <2>4, RunStarts
  <2>6. HandoverTranscript(h, pos + 1, Len(h) - 1, pos # 0)
          = HandoverTranscript(h, 1, Len(h) - 1, FALSE)
    BY <2>2 DEF HandoverTranscript
  <2> QED BY <2>2, <2>5, <2>6
<1>4. run.resumes \in Session BY <1>0, RunFields
<1>5. Shaped'
  <2>1. phase' \in Phases /\ phase' # "tools" BY <1>2 DEF Phases
  <2>2. 0 \in 0 .. Len(h) OBVIOUS
  <2>3. gone' \subseteq Session BY <1>0, <1>4
  <2> QED BY <1>0, <1>2, <1>3, <2>1, <2>2, <2>3 DEF Shaped
<1>6. Turn'
  <2>1. \A i \in DOMAIN run'.pending : run'.pending[i].claude BY <1>3
  <2> QED BY <1>1, <1>2, <1>3, <2>1 DEF Turn
<1>7. ASSUME ~EarlyCancel PROVE Knowledge'
  <2>1. /\ Covered(h, lost) /\ Mute(h) /\ Sound(b, lost, knows, gone)
        /\ \A pos \in DOMAIN h : Newest(h, pos) => h[pos].session \in gone \cup {run.resumes}
    BY <1>0, <1>7 DEF IInv, Knowledge, Briefed
  <2>2. PICK g2 : g2 = gone \cup {run.resumes} OBVIOUS
  <2>3. Sound(b, lost, knows, g2)
    <3>1. \A s \in Session : knows[s] \subseteq knows[s] OBVIOUS
    <3>2. gone \subseteq g2 /\ lost \subseteq lost BY <2>2
    <3>3. Informed(b, lost, knows, gone) BY <2>1 DEF Sound
    <3>4. Informed(b, lost, knows, g2) BY <3>1, <3>2, <3>3, InformedMore
    <3> QED BY <2>1, <3>4 DEF Sound
  <2>4. Told(h) \subseteq HandoverTranscript(h, 1, Len(h) - 1, FALSE)
                          \cup h[Len(h)].tells \cup lost
    BY <1>1, <2>1, WholeTold
  <2>5. Briefed' BY <1>0, <1>2, <1>3, <2>1, <2>4 DEF Briefed
  <2>6. gone' = g2 BY <1>0, <2>2
  <2> QED BY <1>0, <1>2, <1>3, <2>1, <2>3, <2>5, <2>6 DEF Knowledge
<1>8. Rolls BY <1>2 DEF Rolls
<1> QED BY <1>5, <1>6, <1>7, <1>8 DEF IInv

-----------------------------------------------------------------------------
(* The theorems.                                                           *)

\* Every step keeps the invariant, and takes back no more than it may.
LEMMA NextHolds ==
  ASSUME IInv, [Next]_vars
  PROVE  IInv' /\ Rolls
<1>1. ASSUME NEW key \in BOOLEAN, StartTurn(key) PROVE IInv' /\ Rolls
  BY <1>1, StartTurnHolds
<1>2. ASSUME NEW key \in BOOLEAN, RequestOverflows(key) PROVE IInv' /\ Rolls
  BY <1>2, RequestOverflowsHolds
<1>3. ASSUME NEW key \in BOOLEAN, NEW success \in BOOLEAN, SummaryDone(success, key)
      PROVE  IInv' /\ Rolls
  BY <1>3, SummaryDoneHolds
<1>4. ASSUME NEW key \in BOOLEAN, NEW size \in OutputSize, NEW stopped \in BOOLEAN,
             BatchDone(size, stopped, key)
      PROVE  IInv' /\ Rolls
  BY <1>4, BatchDoneHolds
<1>5. ASSUME NEW installed \in BOOLEAN, StartTurnOnClaude(installed) PROVE IInv' /\ Rolls
  BY <1>5, StartTurnOnClaudeHolds
<1>6. ASSUME NEW empty \in BOOLEAN, Reply(empty) PROVE IInv' /\ Rolls
  BY <1>6, ReplyHolds
<1>7. ASSUME NEW n \in 1 .. MaxCalls, ToolCalls(n) PROVE IInv' /\ Rolls
  BY <1>7, ToolCallsHolds
<1>8. ASSUME RequestFails PROVE IInv' /\ Rolls BY <1>8, RequestFailsHolds
<1>9. ASSUME RequestCancelled PROVE IInv' /\ Rolls BY <1>9, RequestCancelledHolds
<1>10. ASSUME SummaryCancelled PROVE IInv' /\ Rolls BY <1>10, SummaryCancelledHolds
<1>11. ASSUME NEW s \in Session, ClaudeInit(s) PROVE IInv' /\ Rolls
  BY <1>11, ClaudeInitHolds
<1>12. ASSUME NEW n \in 0 .. MaxCalls, ClaudeMessage(n) PROVE IInv' /\ Rolls
  BY <1>12, ClaudeMessageHolds
<1>13. ASSUME NEW size \in OutputSize, ClaudeToolResult(size) PROVE IInv' /\ Rolls
  BY <1>13, ClaudeToolResultHolds
<1>14. ASSUME NEW how \in {"ok", "cancelled"}, ClaudeDone(how) PROVE IInv' /\ Rolls
  BY <1>14, ClaudeDoneHolds
<1>15. ASSUME ClaudeFails PROVE IInv' /\ Rolls BY <1>15, ClaudeFailsHolds
<1>16. ASSUME ClaudeForgot PROVE IInv' /\ Rolls BY <1>16, ClaudeForgotHolds
<1>17. ASSUME Restart PROVE IInv' /\ Rolls BY <1>17, RestartHolds
<1>18. ASSUME UNCHANGED vars PROVE IInv' /\ Rolls
  <2>1. UNCHANGED <<hist, phase, split, run, before, ids, knows, gone, lost>>
    BY <1>18 DEF vars
  <2>2. Shaped' BY <2>1 DEF IInv, Shaped
  <2>3. Turn' BY <2>1 DEF IInv, Turn
  <2>4. ~EarlyCancel => Knowledge'
    BY <2>1 DEF IInv, Knowledge, Briefed, Running
  <2>5. Rolls BY <2>1 DEF Rolls
  <2> QED BY <2>2, <2>3, <2>4, <2>5 DEF IInv
<1> QED
  BY <1>1, <1>2, <1>3, <1>4, <1>5, <1>6, <1>7, <1>8, <1>9, <1>10, <1>11, <1>12, <1>13,
     <1>14, <1>15, <1>16, <1>17, <1>18
  DEF Next

\* The invariant holds in every state of every behaviour.
THEOREM Invariance == Spec => []IInv
<1>1. Init => IInv BY InitIInv
<1>2. IInv /\ [Next]_vars => IInv' BY NextHolds
<1> QED BY <1>1, <1>2, PTL DEF Spec

\* Where a cancelled Claude Code lives until it has named its session, a
\* session that has its message knows the whole conversation but for what is
\* lost: the newest session knew all up to its own last message, and what was
\* said after it is in the transcript, itself or in a summary (StartClaudeTurn,
\* BuildHandoverTranscript, HandleClaudeEvent, FailClaudeTurn).
THEOREM HandsOverCorrect ==
  ASSUME ~EarlyCancel
  PROVE  Spec => []HandsOver
<1>1. IInv => HandsOver BY DEF IInv, Knowledge, Running, HandsOver
<1> QED BY <1>1, Invariance, PTL

\* What was recorded before a turn stays in its order, whatever the turn does,
\* and a failed turn leaves nothing else unless Claude Code had answered
\* (RollbackFailedTurn, ApplyCompaction, FailClaudeTurn).
THEOREM RollBackCorrect == Spec => RollBack
<1>1. IInv /\ [Next]_vars => [Rolls]_vars BY NextHolds
<1> QED BY <1>1, Invariance, PTL DEF Spec, RollBack, Rolls

-----------------------------------------------------------------------------
(* Flattening the turns of Claude Code.                                    *)

\* A turn of Claude's made one message.
Whole(m) == FromClaude(m) => m.role = "assistant" /\ m.calls = 0

\* A step of flattening adds a message ...
Added(out, m, g) ==
  \E x \in Message : OneMore(out, x, g) /\ Like(x, m) /\ Whole(x) /\ x.tells = m.tells

\* ... or the text of one to the last, x.
Merged(out, m, x, g) ==
  /\ g \in Seq(Message) /\ x \in Message /\ Len(g) = Len(out) /\ g[Len(out)] = x
  /\ \A a \in 1 .. Len(out) : a # Len(out) => g[a] = out[a]
  /\ x.role = out[Len(out)].role /\ x.claude = out[Len(out)].claude
  /\ x.calls = out[Len(out)].calls /\ x.tells = out[Len(out)].tells \cup m.tells

\* A step does one or the other.
LEMMA FoldedIs ==
  ASSUME NEW out \in Seq(Message), NEW m \in Message
  PROVE  IF FromClaude(m) /\ Len(out) > 0 /\ FromClaude(out[Len(out)])
         THEN \E x : Merged(out, m, x, Folded(out, m))
         ELSE Added(out, m, Folded(out, m))
<1>0. (out # <<>> <=> Len(out) > 0) /\ Last(out) = out[Len(out)] BY DEF Last
<1>a. PICK g \in Seq(Message) : g = Folded(out, m) BY FoldedType
<1>1. CASE ~FromClaude(m)
  <2>1. g = Append(out, m) BY <1>1, <1>a DEF Folded
  <2>2. OneMore(out, m, Append(out, m)) BY Appended
  <2>3. OneMore(out, m, g) BY <2>1, <2>2
  <2>4. Like(m, m) /\ Whole(m) BY <1>1 DEF Like, Whole
  <2>5. Added(out, m, g) BY <2>3, <2>4 DEF Added
  <2> QED BY <1>1, <1>a, <2>5
<1>2. CASE FromClaude(m) /\ Len(out) > 0 /\ FromClaude(out[Len(out)])
  <2> PICK n \in Nat : n = Len(out) OBVIOUS
  <2>0. n \in 1 .. n /\ out[n] \in Message /\ out \in [1 .. n -> Message] BY <1>2
  <2>1. PICK t \in SUBSET Id : t = out[n].tells \cup m.tells BY <2>0, Fields
  <2>2. PICK x : x = [out[n] EXCEPT !.tells = t] OBVIOUS
  <2>3. /\ x \in Message /\ x.role = out[n].role /\ x.claude = out[n].claude
        /\ x.calls = out[n].calls /\ x.tells = t
    BY <2>0, <2>2 DEF Message
  <2>4. g = [out EXCEPT ![n] = x] BY <1>0, <1>2, <1>a, <2>1, <2>2 DEF Folded
  <2>5. g[n] = x /\ \A a \in 1 .. n : a # n => g[a] = out[a] BY <2>0, <2>4
  <2>6. Len(g) = n
    <3>1. DOMAIN g = 1 .. n BY <2>0, <2>4
    <3> QED BY <3>1
  <2>7. Merged(out, m, x, g) BY <2>1, <2>3, <2>5, <2>6 DEF Merged
  <2> QED BY <1>2, <1>a, <2>7
<1>3. CASE FromClaude(m) /\ ~(Len(out) > 0 /\ FromClaude(out[Len(out)]))
  <2>1. PICK y : y = [m EXCEPT !.role = "assistant"] OBVIOUS
  <2>2. PICK x : x = [y EXCEPT !.calls = 0] OBVIOUS
  <2>3. y \in Message /\ y.role = "assistant" /\ y.claude = m.claude /\ y.tells = m.tells
    BY <2>1 DEF Message
  <2>4. /\ x \in Message /\ x.role = "assistant" /\ x.claude = m.claude
        /\ x.tells = m.tells /\ x.calls = 0
    <3>1. 0 \in 0 .. MaxCalls BY ConversationAssumption
    <3> QED BY <2>2, <2>3, <3>1 DEF Message
  <2>5. x = [m EXCEPT !.role = "assistant", !.calls = 0] BY <2>1, <2>2
  <2>6. g = Append(out, x) BY <1>0, <1>3, <1>a, <2>5 DEF Folded
  <2>7. OneMore(out, x, Append(out, x)) BY <2>4, Appended
  <2>8. OneMore(out, x, g) BY <2>6, <2>7
  <2>9. Like(x, m) /\ Whole(x) BY <1>3, <2>4 DEF Like, Whole, FromClaude
  <2>10. Added(out, m, g) BY <2>4, <2>8, <2>9 DEF Added
  <2> QED BY <1>3, <1>a, <2>10
<1> QED BY <1>1, <1>2, <1>3

\* Nothing that was told is dropped.
LEMMA AddedTells ==
  ASSUME NEW out \in Seq(Message), NEW x, NEW g, OneMore(out, x, g)
  PROVE  Told(out) \cup x.tells \subseteq Told(g)
<1> PICK n \in Nat : n = Len(out) OBVIOUS
<1>1. /\ g \in Seq(Message) /\ Len(g) = n + 1 /\ g[n + 1] = x
      /\ \A a \in 1 .. n : g[a] = out[a]
  BY DEF OneMore, Continues
<1>2. DOMAIN g = 1 .. n + 1 /\ DOMAIN out = 1 .. n BY <1>1
<1>3. n + 1 \in 1 .. n + 1 /\ 1 .. n \subseteq 1 .. n + 1 OBVIOUS
<1> QED BY <1>1, <1>2, <1>3 DEF Told

\* ... nor is it when texts are merged.
LEMMA MergedTells ==
  ASSUME NEW out \in Seq(Message), NEW m, NEW x, NEW g, Merged(out, m, x, g), Len(out) > 0
  PROVE  Told(out) \cup m.tells \subseteq Told(g)
<1> PICK n \in Nat : n = Len(out) OBVIOUS
<1>1. /\ DOMAIN g = 1 .. n /\ DOMAIN out = 1 .. n /\ n \in 1 .. n
      /\ g[n] = x /\ x.tells = out[n].tells \cup m.tells
      /\ \A a \in 1 .. n : a # n => g[a] = out[a]
  BY DEF Merged
<1>2. \A a \in 1 .. n : out[a].tells \subseteq g[a].tells BY <1>1
<1> QED BY <1>1, <1>2 DEF Told

\* Where messages of Claude's begin, and all others.
Starts(v) == {j \in DOMAIN v : ~(j > 1 /\ FromClaude(v[j]) /\ FromClaude(v[j - 1]))}

\* The messages up to the i-th, flattened.
Flattened(v, out, i) ==
  /\ \E f : /\ Lists(f, Len(out), {j \in Starts(v) : j <= i})
            /\ \A a \in 1 .. Len(out) : Like(out[a], v[f[a]])
  /\ \A a \in 1 .. Len(out) : Whole(out[a])
  /\ i > 0 => Len(out) > 0 /\ (FromClaude(out[Len(out)]) <=> FromClaude(v[i]))
  /\ \A j \in 1 .. i : v[j].tells \subseteq Told(out)

\* One more of them.
LEMMA FlattenedMore ==
  ASSUME NEW v \in Seq(Message), NEW i \in Nat, i + 1 <= Len(v), NEW s \in Seq(Message),
         Flattened(v, s, i), i = 0 => s = <<>>
  PROVE  Flattened(v, Folded(s, v[i + 1]), i + 1)
<1> PICK k \in Nat : k = Len(s) OBVIOUS
<1>0. i + 1 \in DOMAIN v /\ v[i + 1] \in Message OBVIOUS
<1>a. PICK m \in Message : m = v[i + 1] BY <1>0
<1>b. PICK g \in Seq(Message) : g = Folded(s, m) BY FoldedType
<1>c. PICK T : T = {j \in Starts(v) : j <= i} OBVIOUS
<1>1. PICK f : Lists(f, k, T) /\ \A a \in 1 .. k : Like(s[a], v[f[a]])
  BY <1>c DEF Flattened
<1>2. /\ \A a \in 1 .. k : Whole(s[a])
      /\ i > 0 => k > 0 /\ (FromClaude(s[k]) <=> FromClaude(v[i]))
      /\ \A j \in 1 .. i : v[j].tells \subseteq Told(s)
  BY DEF Flattened
<1>3. T \in SUBSET (1 .. i) BY <1>c DEF Starts
<1>4. \A j \in 1 .. i + 1 : j \in 1 .. i \/ j = i + 1 OBVIOUS
<1>5. i + 1 > 0 /\ (i + 1) - 1 = i OBVIOUS
<1>6. i = 0 => k = 0 OBVIOUS
<1>7. CASE FromClaude(m) /\ k > 0 /\ FromClaude(s[k])
  <2>1. PICK x : Merged(s, m, x, g) BY <1>7, <1>b, FoldedIs
  <2>2. /\ x \in Message /\ Len(g) = k /\ g[k] = x
        /\ \A a \in 1 .. k : a # k => g[a] = s[a]
        /\ x.role = s[k].role /\ x.claude = s[k].claude /\ x.calls = s[k].calls
    BY <2>1 DEF Merged
  <2>3. i > 0 /\ FromClaude(v[i]) BY <1>2, <1>6, <1>7
  <2>4. i + 1 \notin Starts(v) BY <1>a, <1>5, <1>7, <2>3 DEF Starts
  <2>5. {j \in Starts(v) : j <= i + 1} = T
    <3>1. \A j \in Starts(v) : j \in Nat BY DEF Starts
    <3> QED BY <1>c, <2>4, <3>1
  <2>6. FromClaude(x) /\ Whole(x)
    <3>1. Whole(s[k]) BY <1>2, <1>7
    <3> QED BY <1>7, <2>2, <3>1 DEF Whole, FromClaude
  <2>7. \A a \in 1 .. k : Like(g[a], v[f[a]]) /\ Whole(g[a])
    <3> SUFFICES ASSUME NEW a \in 1 .. k PROVE Like(g[a], v[f[a]]) /\ Whole(g[a]) OBVIOUS
    <3>1. Like(s[a], v[f[a]]) /\ Whole(s[a]) BY <1>1, <1>2
    <3>2. CASE a = k BY <1>7, <2>2, <2>6, <3>1, <3>2 DEF Like
    <3>3. CASE a # k BY <2>2, <3>1, <3>3
    <3> QED BY <3>2, <3>3
  <2>8. Told(s) \cup m.tells \subseteq Told(g) BY <1>7, <2>1, MergedTells
  <2>9. \A j \in 1 .. i + 1 : v[j].tells \subseteq Told(g) BY <1>2, <1>4, <1>a, <2>8
  <2>10. Len(g) > 0 /\ (FromClaude(g[Len(g)]) <=> FromClaude(v[i + 1]))
    BY <1>7, <1>a, <2>2, <2>6
  <2>11. Flattened(v, g, i + 1) BY <1>1, <2>2, <2>5, <2>7, <2>9, <2>10 DEF Flattened
  <2> QED BY <1>a, <1>b, <2>11
<1>8. CASE ~(FromClaude(m) /\ k > 0 /\ FromClaude(s[k]))
  <2>1. Added(s, m, g) BY <1>8, <1>b, FoldedIs
  <2>2. PICK x \in Message : OneMore(s, x, g) /\ Like(x, m) /\ Whole(x) /\ x.tells = m.tells
    BY <2>1 DEF Added
  <2>3. Len(g) = k + 1 /\ g[k + 1] = x /\ \A a \in 1 .. k : g[a] = s[a]
    BY <2>2 DEF OneMore, Continues
  <2>4. i + 1 \in Starts(v)
    <3>1. i + 1 > 1 => i > 0 OBVIOUS
    <3> QED BY <1>0, <1>2, <1>5, <1>8, <1>a, <3>1 DEF Starts
  <2>5. {j \in Starts(v) : j <= i + 1} = T \cup {i + 1}
    <3>1. \A j \in Starts(v) : j \in Nat BY DEF Starts
    <3> QED BY <1>c, <2>4, <3>1
  <2>6. PICK e : Adds(e, f, k, T, i) BY <1>1, <1>3, ListsMore
  <2>7. Lists(e, k + 1, T \cup {i + 1}) /\ e[k + 1] = i + 1 /\ \A a \in 1 .. k : e[a] = f[a]
    BY <2>6 DEF Adds
  <2>8. \A a \in 1 .. k + 1 : Like(g[a], v[e[a]]) /\ Whole(g[a])
    <3> SUFFICES ASSUME NEW a \in 1 .. k + 1 PROVE Like(g[a], v[e[a]]) /\ Whole(g[a])
      OBVIOUS
    <3>1. CASE a = k + 1 BY <1>a, <2>2, <2>3, <2>7, <3>1
    <3>2. CASE a # k + 1
      <4>1. a \in 1 .. k BY <3>2
      <4> QED BY <1>1, <1>2, <2>3, <2>7, <4>1
    <3> QED BY <3>1, <3>2
  <2>9. Told(s) \cup x.tells \subseteq Told(g) BY <2>2, AddedTells
  <2>10. \A j \in 1 .. i + 1 : v[j].tells \subseteq Told(g) BY <1>2, <1>4, <1>a, <2>2, <2>9
  <2>11. Len(g) > 0 /\ (FromClaude(g[Len(g)]) <=> FromClaude(v[i + 1]))
    BY <1>a, <2>2, <2>3 DEF Like
  <2>12. Flattened(v, g, i + 1) BY <2>3, <2>5, <2>7, <2>8, <2>10, <2>11 DEF Flattened
  <2> QED BY <1>a, <1>b, <2>12
<1> QED BY <1>7, <1>8

\* What flattening makes of a view.
LEMMA FlattenPicks ==
  ASSUME NEW v \in Seq(Message)
  PROVE  LET u == FlattenClaudeTurns(v)
         IN  /\ \E f : Picks(u, v, Starts(v), f)
             /\ \A a \in 1 .. Len(u) : Whole(u[a])
             /\ Told(v) \subseteq Told(u)
<1> PICK n \in Nat : n = Len(v) OBVIOUS
<1>1. PICK F : Flattens(v, F) BY FlattensIs
<1>2. /\ F \in [0 .. n -> Seq(Message)] /\ F[0] = <<>> /\ FlattenClaudeTurns(v) = F[n]
      /\ \A i \in 1 .. n : F[i] = Folded(F[i - 1], v[i])
  BY <1>1 DEF Flattens
<1> DEFINE R == {i \in 0 .. n : Flattened(v, F[i], i)}
<1>3. 0 \in R
  <2>0. <<>> \in Seq(Message) OBVIOUS
  <2>a. PICK e \in Seq(Message) : e = <<>> BY <2>0
  <2>b. PICK z \in Nat : z = 0 OBVIOUS
  <2>1. {j \in Starts(v) : j <= z} = {} BY <2>b DEF Starts
  <2>2. Lists(<<>>, 0, {j \in Starts(v) : j <= z}) BY <2>1, NothingListed
  <2>3. Len(e) = z /\ 1 .. z = {} BY <2>a, <2>b
  <2>4. Lists(<<>>, Len(e), {j \in Starts(v) : j <= z}) BY <2>2, <2>3, <2>b
  <2>5. /\ \A a \in 1 .. Len(e) : Like(e[a], v[(<<>>)[a]])
        /\ \A a \in 1 .. Len(e) : Whole(e[a])
        /\ \A j \in 1 .. z : v[j].tells \subseteq Told(e)
    BY <2>3
  <2>6. ~(z > 0) BY <2>b
  <2>7. Flattened(v, e, z) BY <2>4, <2>5, <2>6 DEF Flattened
  <2>8. e = F[z] BY <1>2, <2>a, <2>b
  <2>9. Flattened(v, F[z], z) BY <2>7, <2>8
  <2>10. z \in 0 .. n BY <2>b
  <2>11. z \in R BY <2>9, <2>10
  <2> QED BY <2>11, <2>b
<1>4. ASSUME NEW i \in 0 .. n - 1, Flattened(v, F[i], i)
      PROVE  Flattened(v, F[i + 1], i + 1)
  <2>0. i \in Nat /\ i + 1 \in 1 .. n /\ i \in 0 .. n /\ (i + 1) - 1 = i OBVIOUS
  <2>1. PICK s \in Seq(Message) : s = F[i] BY <1>2, <2>0
  <2>2. F[i + 1] = Folded(s, v[i + 1]) BY <1>2, <2>0, <2>1
  <2>3. i = 0 => s = <<>> BY <1>2, <2>1
  <2>4. i \in Nat /\ i + 1 <= Len(v) /\ Flattened(v, s, i) BY <1>4, <2>0, <2>1
  <2>5. Flattened(v, Folded(s, v[i + 1]), i + 1) BY <2>3, <2>4, FlattenedMore
  <2> QED BY <2>2, <2>5
<1>5. n \in R
  <2>1. \A i \in 0 .. n - 1 : i \in R => i + 1 \in R
    <3> SUFFICES ASSUME NEW i \in 0 .. n - 1, i \in R PROVE i + 1 \in R OBVIOUS
    <3>1. Flattened(v, F[i + 1], i + 1) BY <1>4
    <3> QED BY <3>1
  <2>2. 0 \in Int /\ n \in Int /\ n \in 0 .. n OBVIOUS
  <2> HIDE DEF R
  <2>3. 0 .. n \subseteq R BY <1>3, <2>1, <2>2, RangeInduction
  <2> QED BY <2>2, <2>3
<1>6. n \in 0 .. n OBVIOUS
<1>7. PICK u \in Seq(Message) : u = F[n] BY <1>2, <1>6
<1>8. Flattened(v, u, n) BY <1>5, <1>7
<1>9. Starts(v) \in SUBSET (1 .. n) /\ {j \in Starts(v) : j <= n} = Starts(v)
  BY DEF Starts
<1>10. PICK f : Lists(f, Len(u), Starts(v)) /\ \A a \in 1 .. Len(u) : Like(u[a], v[f[a]])
  BY <1>8, <1>9 DEF Flattened
<1>11. Picks(u, v, Starts(v), f) BY <1>9, <1>10 DEF Picks
<1>12. (\A a \in 1 .. Len(u) : Whole(u[a])) /\ \A j \in 1 .. n : v[j].tells \subseteq Told(u)
  BY <1>8 DEF Flattened
<1>13. Told(v) \subseteq Told(u) BY <1>12 DEF Told
<1>14. u = FlattenClaudeTurns(v) BY <1>2, <1>7
<1> QED BY <1>11, <1>12, <1>13, <1>14

-----------------------------------------------------------------------------
(* Removing doubled roles.                                                 *)

\* g lists all but i, the last.
Drops(g, f, k, S, i) == Lists(g, k - 1, S \ {i}) /\ \A a \in 1 .. k - 1 : g[a] = f[a]

\* A list without its last number.
LEMMA ListsLess ==
  ASSUME NEW k \in Nat, NEW i \in Nat, NEW S \in SUBSET (1 .. i), NEW f, Lists(f, k, S),
         i \in S
  PROVE  \E g : Drops(g, f, k, S, i)
<1>0. k > 0 /\ f[k] = i BY ListsLast
<1> PICK d \in Nat : d = k - 1 BY <1>0
<1> DEFINE g == [a \in 1 .. d |-> f[a]]
<1>1. \A a \in 1 .. d : g[a] = f[a] /\ a \in 1 .. k /\ a < k BY <1>0
<1>2. \A a \in 1 .. d : f[a] \in S /\ f[a] # i
  <2> SUFFICES ASSUME NEW a \in 1 .. d PROVE f[a] \in S /\ f[a] # i OBVIOUS
  <2>1. k \in 1 .. k /\ a \in 1 .. k /\ a < k BY <1>0, <1>1
  <2>2. f[a] < f[k] /\ f[a] \in S BY <2>1 DEF Lists
  <2>3. f[a] \in 1 .. i BY <2>2
  <2> QED BY <1>0, <2>2, <2>3
<1>3. g \in [1 .. d -> S \ {i}] BY <1>2
<1> HIDE DEF g
<1>4. \A a, b \in 1 .. d : a < b => g[a] < g[b]
  <2> SUFFICES ASSUME NEW a \in 1 .. d, NEW b \in 1 .. d, a < b PROVE g[a] < g[b] OBVIOUS
  <2>1. a \in 1 .. k /\ b \in 1 .. k /\ g[a] = f[a] /\ g[b] = f[b] BY <1>1
  <2> QED BY <2>1 DEF Lists
<1>5. \A j \in S \ {i} : \E a \in 1 .. d : g[a] = j
  <2> SUFFICES ASSUME NEW j \in S \ {i} PROVE \E a \in 1 .. d : g[a] = j OBVIOUS
  <2>1. PICK a \in 1 .. k : f[a] = j BY DEF Lists
  <2>2. a \in 1 .. d BY <1>0, <2>1
  <2> QED BY <1>1, <2>1, <2>2
<1>6. Lists(g, d, S \ {i}) BY <1>3, <1>4, <1>5 DEF Lists
<1>7. Drops(g, f, k, S, i) BY <1>1, <1>6 DEF Drops
<1> QED BY <1>7

\* Messages that give way to the next one.
Doubled(u) ==
  {j \in DOMAIN u : /\ j < Len(u) /\ u[j].role = u[j + 1].role
                    /\ u[j].role \in {"user", "assistant"}}

\* The messages up to the i-th, without them.
Single(u, out, i) ==
  \E f : /\ Lists(f, Len(out), {j \in 1 .. i : j = i \/ j \notin Doubled(u)})
         /\ \A a \in 1 .. Len(out) : out[a] = u[f[a]]

\* One more of them.
LEMMA SingleMore ==
  ASSUME NEW u \in Seq(Message), NEW i \in Nat, i + 1 <= Len(u), NEW s \in Seq(Message),
         Single(u, s, i), i = 0 => s = <<>>
  PROVE  Single(u, Deduped(s, u[i + 1]), i + 1)
<1> PICK k \in Nat : k = Len(s) OBVIOUS
<1>0. i + 1 \in DOMAIN u /\ u[i + 1] \in Message OBVIOUS
<1>a. PICK m \in Message : m = u[i + 1] BY <1>0
<1>b. PICK g \in Seq(Message) : g = Deduped(s, m) BY DedupedType
<1>c. PICK T : T = {j \in 1 .. i : j = i \/ j \notin Doubled(u)} OBVIOUS
<1>d. PICK N : N = {j \in 1 .. i + 1 : j = i + 1 \/ j \notin Doubled(u)} OBVIOUS
<1>1. PICK f : Lists(f, k, T) /\ \A a \in 1 .. k : s[a] = u[f[a]] BY <1>c DEF Single
<1>2. T \in SUBSET (1 .. i) BY <1>c
<1>3. i > 0 => i \in T BY <1>c
<1>4. i > 0 => k > 0 /\ f[k] = i BY <1>1, <1>2, <1>3, ListsLast
<1>5. i > 0 => k > 0 /\ s # <<>> /\ Last(s) = u[i] BY <1>1, <1>4 DEF Last
<1>6. CASE i > 0 /\ i \in Doubled(u)
  <2>1. u[i].role = m.role /\ m.role \in {"user", "assistant"} BY <1>6, <1>a DEF Doubled
  <2>2. g = [s EXCEPT ![k] = m] BY <1>5, <1>6, <1>b, <2>1 DEF Deduped
  <2>3. k \in 1 .. k /\ s \in [1 .. k -> Message] BY <1>5, <1>6
  <2>4. g[k] = m /\ \A a \in 1 .. k : a # k => g[a] = s[a] BY <2>2, <2>3
  <2>5. Len(g) = k
    <3>1. DOMAIN g = 1 .. k BY <2>2, <2>3
    <3> QED BY <3>1
  <2>6. N = (T \ {i}) \cup {i + 1} BY <1>6, <1>c, <1>d
  <2>c. PICK e : Drops(e, f, k, T, i) BY <1>1, <1>2, <1>3, <1>6, ListsLess
  <2>7. Lists(e, k - 1, T \ {i}) /\ \A a \in 1 .. k - 1 : e[a] = f[a] BY <2>c DEF Drops
  <2>a. PICK d \in Nat : d = k - 1 BY <1>5, <1>6
  <2>b. PICK U : U = T \ {i} OBVIOUS
  <2>8. U \in SUBSET (1 .. i) /\ Lists(e, d, U) BY <1>2, <2>7, <2>a, <2>b
  <2>9. PICK c : Adds(c, e, d, U, i) BY <2>8, ListsMore
  <2>10. Lists(c, d + 1, U \cup {i + 1}) /\ c[d + 1] = i + 1 /\ \A a \in 1 .. d : c[a] = e[a]
    BY <2>9 DEF Adds
  <2>11. d + 1 = k BY <2>a
  <2>12. Lists(c, k, N) /\ c[k] = i + 1 BY <2>10, <2>11, <2>6, <2>b
  <2>13. \A a \in 1 .. k : g[a] = u[c[a]]
    <3> SUFFICES ASSUME NEW a \in 1 .. k PROVE g[a] = u[c[a]] OBVIOUS
    <3>1. CASE a = k BY <1>a, <2>4, <2>12, <3>1
    <3>2. CASE a # k
      <4>1. a \in 1 .. d /\ a \in 1 .. k - 1 BY <2>a, <3>2
      <4>2. c[a] = f[a] BY <2>7, <2>10, <4>1
      <4> QED BY <1>1, <2>4, <3>2, <4>2
    <3> QED BY <3>1, <3>2
  <2>14. Single(u, g, i + 1) BY <1>d, <2>5, <2>12, <2>13 DEF Single
  <2> QED BY <1>a, <1>b, <2>14
<1>7. CASE ~(i > 0 /\ i \in Doubled(u))
  <2>1. ~(s # <<>> /\ Last(s).role = m.role /\ m.role \in {"user", "assistant"})
    <3>1. CASE i = 0 BY <3>1
    <3>2. CASE i # 0
      <4>1. i > 0 /\ i \in DOMAIN u /\ i < Len(u) BY <3>2
      <4> QED BY <1>5, <1>7, <1>a, <4>1 DEF Doubled
    <3> QED BY <3>1, <3>2
  <2>2. g = Append(s, m) BY <1>b, <2>1 DEF Deduped
  <2>3. OneMore(s, m, Append(s, m)) BY Appended
  <2>4. Len(g) = k + 1 /\ g[k + 1] = m /\ \A a \in 1 .. k : g[a] = s[a]
    BY <2>2, <2>3 DEF OneMore, Continues
  <2>5. N = T \cup {i + 1} BY <1>7, <1>c, <1>d
  <2>6. PICK e : Adds(e, f, k, T, i) BY <1>1, <1>2, ListsMore
  <2>7. Lists(e, k + 1, T \cup {i + 1}) /\ e[k + 1] = i + 1 /\ \A a \in 1 .. k : e[a] = f[a]
    BY <2>6 DEF Adds
  <2>8. \A a \in 1 .. k + 1 : g[a] = u[e[a]]
    <3> SUFFICES ASSUME NEW a \in 1 .. k + 1 PROVE g[a] = u[e[a]] OBVIOUS
    <3>1. CASE a = k + 1 BY <1>a, <2>4, <2>7, <3>1
    <3>2. CASE a # k + 1
      <4>1. a \in 1 .. k BY <3>2
      <4> QED BY <1>1, <2>4, <2>7, <4>1
    <3> QED BY <3>1, <3>2
  <2>9. Single(u, g, i + 1)
    <3>1. Lists(e, Len(g), N) BY <2>4, <2>5, <2>7
    <3>2. \A a \in 1 .. Len(g) : g[a] = u[e[a]] BY <2>4, <2>8
    <3> QED BY <1>d, <3>1, <3>2 DEF Single
  <2> QED BY <1>a, <1>b, <2>9
<1> QED BY <1>6, <1>7

\* What is left when doubled roles are removed.
LEMMA UndoubledTakes ==
  ASSUME NEW u \in Seq(Message)
  PROVE  \E f : Takes(Undoubled(u), u, DOMAIN u \ Doubled(u), f)
<1> PICK n \in Nat : n = Len(u) OBVIOUS
<1>1. PICK F : Dedupes(u, F) BY DedupesIs
<1>2. /\ F \in [0 .. n -> Seq(Message)] /\ F[0] = <<>> /\ Undoubled(u) = F[n]
      /\ \A i \in 1 .. n : F[i] = Deduped(F[i - 1], u[i])
  BY <1>1 DEF Dedupes
<1> DEFINE R == {i \in 0 .. n : Single(u, F[i], i)}
<1>3. 0 \in R
  <2>0. <<>> \in Seq(Message) OBVIOUS
  <2>a. PICK e \in Seq(Message) : e = <<>> BY <2>0
  <2>b. PICK z \in Nat : z = 0 OBVIOUS
  <2>c. PICK T : T = {j \in 1 .. z : j = z \/ j \notin Doubled(u)} OBVIOUS
  <2>1. T = {} BY <2>b, <2>c
  <2>2. Lists(<<>>, 0, T) BY <2>1, NothingListed
  <2>3. Len(e) = 0 /\ 1 .. 0 = {} BY <2>a
  <2>4. Single(u, e, z) BY <2>2, <2>3, <2>c DEF Single
  <2>5. e = F[z] BY <1>2, <2>a, <2>b
  <2>6. Single(u, F[z], z) BY <2>4, <2>5
  <2>7. z \in 0 .. n BY <2>b
  <2>8. z \in R BY <2>6, <2>7
  <2> QED BY <2>8, <2>b
<1>4. ASSUME NEW i \in 0 .. n - 1, Single(u, F[i], i)
      PROVE  Single(u, F[i + 1], i + 1)
  <2>0. i \in Nat /\ i + 1 \in 1 .. n /\ i \in 0 .. n /\ (i + 1) - 1 = i OBVIOUS
  <2>1. PICK s \in Seq(Message) : s = F[i] BY <1>2, <2>0
  <2>2. F[i + 1] = Deduped(s, u[i + 1]) BY <1>2, <2>0, <2>1
  <2>3. i = 0 => s = <<>> BY <1>2, <2>1
  <2>4. i \in Nat /\ i + 1 <= Len(u) /\ Single(u, s, i) BY <1>4, <2>0, <2>1
  <2>5. Single(u, Deduped(s, u[i + 1]), i + 1) BY <2>3, <2>4, SingleMore
  <2> QED BY <2>2, <2>5
<1>5. n \in R
  <2>1. \A i \in 0 .. n - 1 : i \in R => i + 1 \in R
    <3> SUFFICES ASSUME NEW i \in 0 .. n - 1, i \in R PROVE i + 1 \in R OBVIOUS
    <3>1. Single(u, F[i + 1], i + 1) BY <1>4
    <3> QED BY <3>1
  <2>2. 0 \in Int /\ n \in Int /\ n \in 0 .. n OBVIOUS
  <2> HIDE DEF R
  <2>3. 0 .. n \subseteq R BY <1>3, <2>1, <2>2, RangeInduction
  <2> QED BY <2>2, <2>3
<1>6. n \in 0 .. n OBVIOUS
<1>7. PICK w \in Seq(Message) : w = F[n] BY <1>2, <1>6
<1>8. Single(u, w, n) BY <1>5, <1>7
<1>9. {j \in 1 .. n : j = n \/ j \notin Doubled(u)} = DOMAIN u \ Doubled(u)
  BY DEF Doubled
<1>10. PICK f : /\ Lists(f, Len(w), DOMAIN u \ Doubled(u))
                /\ \A a \in 1 .. Len(w) : w[a] = u[f[a]]
  BY <1>8, <1>9 DEF Single
<1>11. Takes(w, u, DOMAIN u \ Doubled(u), f) BY <1>10 DEF Takes
<1> QED BY <1>2, <1>7, <1>11

-----------------------------------------------------------------------------
(* Calls and their results.                                                *)

\* A message of an API model, and a result of a call of it.
Speaks(m) == m.role = "assistant" /\ ~m.claude
Answers(m) == m.role = "tool" /\ ~m.claude

\* The i-th message is a result of a call made d messages before.
Owner(y, i, d) ==
  /\ d \in 1 .. i - 1
  /\ Speaks(y[i - d]) /\ y[i - d].calls >= d
  /\ \A j \in i - d + 1 .. i : Answers(y[j])

\* What may come before a result whose call was cut off.
Stands(m) == ~FromClaude(m) /\ (m.role = "system" \/ Answers(m) \/ m.summary)

\* A result has its call, or is at the head of what was not cut off.
Tied(y) ==
  \A i \in DOMAIN y : Answers(y[i]) =>
    (\E d \in 1 .. i - 1 : Owner(y, i, d)) \/ (\A j \in 1 .. i : Stands(y[j]))

\* No result comes alone ...
Owned(y) == \A i \in DOMAIN y : Answers(y[i]) => \E d \in 1 .. i - 1 : Owner(y, i, d)

\* ... and no call stays without one.
Settled(y) ==
  \A i \in DOMAIN y : Speaks(y[i]) =>
    \A k \in 1 .. y[i].calls : i + k \in DOMAIN y /\ Answers(y[i + k])

\* What is like one is one.
LEMMA LikeSpeaks ==
  ASSUME NEW m, NEW n, Like(m, n)
  PROVE  /\ Speaks(m) <=> Speaks(n)
         /\ Answers(m) <=> Answers(n)
         /\ Speaks(n) => m.calls = n.calls
         /\ Stands(m) <=> Stands(n)
<1>1. /\ Speaks(m) <=> Speaks(n)
      /\ Answers(m) <=> Answers(n)
      /\ Speaks(n) => m.calls = n.calls
  BY DEF Like, Speaks, Answers, FromClaude
<1>2. Stands(m) <=> Stands(n) BY <1>1 DEF Like, Stands
<1> QED BY <1>1, <1>2

\* What is picked has its owner, if that is picked with all between.
LEMMA PickOwner ==
  ASSUME NEW x, NEW y, NEW S, NEW f, Picks(x, y, S, f), NEW a \in 1 .. Len(x),
         NEW d \in 1 .. f[a] - 1, Owner(y, f[a], d), \A j \in f[a] - d .. f[a] : j \in S
  PROVE  \E e \in 1 .. a - 1 : Owner(x, a, e)
<1>0. /\ x \in Seq(Message) /\ y \in Seq(Message) /\ S \in SUBSET (1 .. Len(y))
      /\ Lists(f, Len(x), S) /\ \A b \in 1 .. Len(x) : Like(x[b], y[f[b]])
  BY DEF Picks
<1> PICK k \in Nat : k = Len(x) BY <1>0
<1> PICK n \in Nat : n = Len(y) BY <1>0
<1>1. DOMAIN x = 1 .. k /\ DOMAIN y = 1 .. n /\ Lists(f, k, S) /\ S \in SUBSET (1 .. n)
  BY <1>0
<1>2. PICK i \in S : i = f[a] BY <1>1 DEF Lists
<1>3. i \in 1 .. n BY <1>1
<1>5. /\ d \in 1 .. i - 1 /\ Speaks(y[i - d]) /\ y[i - d].calls >= d
      /\ \A j \in i - d + 1 .. i : Answers(y[j])
  BY <1>2 DEF Owner
<1>6. \A j \in i - d .. i : j \in S BY <1>2
<1>7. i - d \in S
  <2>1. i - d \in i - d .. i BY <1>3, <1>5
  <2> QED BY <1>6, <2>1
<1>8. PICK b \in 1 .. k : f[b] = i - d BY <1>1, <1>7 DEF Lists
<1>9. \A j \in 0 .. d : b + j \in 1 .. k /\ f[b + j] = f[b] + j
  <2>1. d \in Nat OBVIOUS
  <2>2. RunIn(f[b], d, S)
    <3> SUFFICES ASSUME NEW j \in 0 .. d PROVE f[b] + j \in S BY DEF RunIn
    <3>1. (i - d) + j \in i - d .. i BY <1>3, <1>5
    <3> QED BY <1>6, <1>8, <3>1
  <2>3. RunOf(f, k, b, d) BY <1>1, <2>1, <2>2, ListsRun
  <2> QED BY <2>3 DEF RunOf
<1>10. b + d = a
  <2>1. d \in 0 .. d BY <1>5
  <2>2. b + d \in 1 .. k /\ f[b + d] = i
    <3>1. b + d \in 1 .. k /\ f[b + d] = f[b] + d BY <1>9, <2>1
    <3>2. (i - d) + d = i BY <1>3, <1>5
    <3> QED BY <1>8, <3>1, <3>2
  <2> PICK c \in 1 .. k : c = b + d BY <2>2
  <2>3. CASE c < a
    <3>1. f[c] < f[a] BY <1>1, <2>3 DEF Lists
    <3> QED BY <1>2, <1>3, <2>2, <3>1
  <2>4. CASE a < c
    <3>1. f[a] < f[c] BY <1>1, <2>4 DEF Lists
    <3> QED BY <1>2, <1>3, <2>2, <3>1
  <2> QED BY <2>3, <2>4
<1>11. d \in 1 .. a - 1 /\ a - d = b BY <1>3, <1>5, <1>10
<1>12. Speaks(x[b]) /\ x[b].calls >= d
  <2>1. Like(x[b], y[i - d]) BY <1>0, <1>8
  <2> QED BY <1>5, <2>1, LikeSpeaks
<1>13. \A j \in a - d + 1 .. a : Answers(x[j])
  <2> SUFFICES ASSUME NEW j \in a - d + 1 .. a PROVE Answers(x[j]) OBVIOUS
  <2>1. PICK e \in 1 .. d : j = b + e
    <3>1. j - b \in 1 .. d BY <1>10, <1>11
    <3>2. j = b + (j - b) BY <1>11
    <3> QED BY <3>1, <3>2
  <2>2. e \in 0 .. d OBVIOUS
  <2>3. j \in 1 .. k /\ f[j] = (i - d) + e BY <1>8, <1>9, <2>1, <2>2
  <2>4. (i - d) + e \in i - d + 1 .. i BY <1>3, <1>5
  <2>5. Answers(y[f[j]]) BY <1>5, <2>3, <2>4
  <2>6. Like(x[j], y[f[j]]) BY <1>0, <2>3
  <2> QED BY <2>5, <2>6, LikeSpeaks
<1>14. Owner(x, a, d) BY <1>11, <1>12, <1>13 DEF Owner
<1> QED BY <1>11, <1>14

\* A picked result has its owner in the selection, or at most results before it.
Holds(y, S, i) ==
  \/ \E d \in 1 .. i - 1 : Owner(y, i, d) /\ \A j \in i - d .. i : j \in S
  \/ \A j \in S : j <= i => Stands(y[j])

\* Then the results picked are tied.
LEMMA PickTied ==
  ASSUME NEW x, NEW y, NEW S, NEW f, Picks(x, y, S, f),
         \A i \in S : Answers(y[i]) => Holds(y, S, i)
  PROVE  Tied(x)
<1>0. /\ x \in Seq(Message) /\ y \in Seq(Message) /\ S \in SUBSET (1 .. Len(y))
      /\ Lists(f, Len(x), S) /\ \A b \in 1 .. Len(x) : Like(x[b], y[f[b]])
  BY DEF Picks
<1> PICK k \in Nat : k = Len(x) BY <1>0
<1> PICK n \in Nat : n = Len(y) BY <1>0
<1>1. DOMAIN x = 1 .. k /\ Lists(f, k, S) /\ S \in SUBSET (1 .. n) BY <1>0
<1> SUFFICES ASSUME NEW a \in 1 .. k, Answers(x[a])
             PROVE  (\E d \in 1 .. a - 1 : Owner(x, a, d)) \/ (\A j \in 1 .. a : Stands(x[j]))
  BY <1>1 DEF Tied
<1>2. f[a] \in S /\ f[a] \in 1 .. n BY <1>1 DEF Lists
<1>3. Like(x[a], y[f[a]]) BY <1>0
<1>4. Answers(y[f[a]]) BY <1>3, LikeSpeaks
<1>5. Holds(y, S, f[a]) BY <1>2, <1>4
<1>6. CASE \A j \in S : j <= f[a] => Stands(y[j])
  <2> SUFFICES ASSUME NEW j \in 1 .. a PROVE Stands(x[j]) OBVIOUS
  <2>1. j \in 1 .. k /\ j <= a OBVIOUS
  <2>2. f[j] <= f[a] BY <1>1, <2>1, ListsRise
  <2>3. f[j] \in S BY <1>1, <2>1 DEF Lists
  <2>4. Stands(y[f[j]]) BY <1>6, <2>2, <2>3
  <2>5. Like(x[j], y[f[j]]) BY <1>0, <2>1
  <2> QED BY <2>4, <2>5, LikeSpeaks
<1>7. CASE \E d \in 1 .. f[a] - 1 : Owner(y, f[a], d) /\ \A j \in f[a] - d .. f[a] : j \in S
  <2>1. PICK d \in 1 .. f[a] - 1 : Owner(y, f[a], d) /\ \A j \in f[a] - d .. f[a] : j \in S
    BY <1>7
  <2> QED BY <2>1, PickOwner
<1> QED BY <1>5, <1>6, <1>7 DEF Holds

\* ... and stay so, if what lies between them and their owners is picked.
LEMMA TiedOn ==
  ASSUME NEW x, NEW y, NEW S, NEW f, Picks(x, y, S, f), Tied(y),
         \A i \in S : \A d \in 1 .. i - 1 :
           Owner(y, i, d) => \A j \in i - d .. i : j \in S
  PROVE  Tied(x)
<1>0. y \in Seq(Message) /\ S \in SUBSET (1 .. Len(y)) BY DEF Picks
<1> PICK n \in Nat : n = Len(y) BY <1>0
<1>1. DOMAIN y = 1 .. n /\ S \in SUBSET (1 .. n) BY <1>0
<1>2. ASSUME NEW i \in S, Answers(y[i]) PROVE Holds(y, S, i)
  <2>1. i \in 1 .. n BY <1>1
  <2>2. CASE \E d \in 1 .. i - 1 : Owner(y, i, d) BY <2>2 DEF Holds
  <2>3. CASE \A j \in 1 .. i : Stands(y[j])
    <3>1. \A j \in S : j <= i => j \in 1 .. i BY <1>1, <2>1
    <3> QED BY <2>3, <3>1 DEF Holds
  <2> QED BY <1>1, <1>2, <2>1, <2>2, <2>3 DEF Tied
<1> QED BY <1>2, PickTied

\* ... and its results, if those are picked.
LEMMA PickSettled ==
  ASSUME NEW x, NEW y, NEW S, NEW f, Picks(x, y, S, f), Settled(y),
         \A i \in S : Speaks(y[i]) => \A j \in 1 .. y[i].calls : i + j \in S
  PROVE  Settled(x)
<1>0. /\ x \in Seq(Message) /\ y \in Seq(Message) /\ S \in SUBSET (1 .. Len(y))
      /\ Lists(f, Len(x), S) /\ \A a \in 1 .. Len(x) : Like(x[a], y[f[a]])
  BY DEF Picks
<1> PICK k \in Nat : k = Len(x) BY <1>0
<1> PICK n \in Nat : n = Len(y) BY <1>0
<1>1. DOMAIN x = 1 .. k /\ DOMAIN y = 1 .. n /\ Lists(f, k, S) /\ S \in SUBSET (1 .. n)
  BY <1>0
<1> SUFFICES ASSUME NEW a \in 1 .. k, Speaks(x[a]), NEW j \in 1 .. x[a].calls
             PROVE  a + j \in 1 .. k /\ Answers(x[a + j])
  BY <1>1 DEF Settled
<1>2. PICK i \in S : i = f[a] BY <1>1 DEF Lists
<1>3. i \in 1 .. n /\ Speaks(y[i]) /\ x[a].calls = y[i].calls
  BY <1>0, <1>1, <1>2, LikeSpeaks
<1>4. PICK c \in Nat : c = y[i].calls
  <2>1. y[i] \in Message BY <1>0, <1>3
  <2>2. y[i].calls \in 0 .. MaxCalls BY <2>1, Fields
  <2>3. MaxCalls \in Nat BY ConversationAssumption
  <2> QED BY <2>2, <2>3
<1>5. j \in 1 .. c BY <1>3, <1>4
<1>6. RunIn(f[a], c, S)
  <2> SUFFICES ASSUME NEW e \in 0 .. c PROVE f[a] + e \in S BY DEF RunIn
  <2>1. CASE e = 0 BY <1>2, <1>3, <2>1
  <2>2. CASE e # 0
    <3>1. e \in 1 .. c BY <2>2
    <3> QED BY <1>2, <1>3, <1>4, <3>1
  <2> QED BY <2>1, <2>2
<1>7. \A e \in 0 .. c : a + e \in 1 .. k /\ f[a + e] = f[a] + e
  <2>1. RunOf(f, k, a, c) BY <1>1, <1>6, ListsRun
  <2> QED BY <2>1 DEF RunOf
<1>8. j \in 0 .. c BY <1>5
<1>9. a + j \in 1 .. k /\ f[a + j] = i + j BY <1>2, <1>7, <1>8
<1>10. Answers(y[i + j]) BY <1>1, <1>3, <1>4, <1>5 DEF Settled
<1>11. Like(x[a + j], y[f[a + j]]) BY <1>0, <1>9
<1> QED BY <1>9, <1>10, <1>11, LikeSpeaks

\* Where only messages that stand alone come first.
LEMMA TiedJoined ==
  ASSUME NEW h \in Seq(Message), NEW s \in Seq(Message), NEW g, More(h, s, g), Tied(s),
         \A i \in DOMAIN h : Stands(h[i]) /\ ~Answers(h[i])
  PROVE  Tied(g)
<1> PICK k \in Nat : k = Len(h) OBVIOUS
<1> PICK e \in Nat : e = Len(s) OBVIOUS
<1>1. /\ g \in Seq(Message) /\ Len(g) = k + e /\ \A i \in 1 .. k : g[i] = h[i]
      /\ \A i \in k + 1 .. k + e : g[i] = s[i - k]
  BY DEF More, Continues
<1>2. DOMAIN g = 1 .. k + e /\ DOMAIN h = 1 .. k /\ DOMAIN s = 1 .. e BY <1>1
<1> SUFFICES ASSUME NEW i \in 1 .. k + e, Answers(g[i])
             PROVE  (\E d \in 1 .. i - 1 : Owner(g, i, d)) \/ (\A j \in 1 .. i : Stands(g[j]))
  BY <1>2 DEF Tied
<1>3. i \in k + 1 .. k + e
  <2> SUFFICES ASSUME i \in 1 .. k PROVE FALSE OBVIOUS
  <2> QED BY <1>1, <1>2
<1>4. PICK c \in 1 .. e : i = k + c
  <2>1. i - k \in 1 .. e /\ i = k + (i - k) BY <1>3
  <2> QED BY <2>1
<1>5. i - k = c BY <1>4
<1>6. Answers(s[c]) BY <1>1, <1>3, <1>5
<1>7. CASE \E d \in 1 .. c - 1 : Owner(s, c, d)
  <2>1. PICK d \in 1 .. c - 1 : Owner(s, c, d) BY <1>7
  <2>2. /\ Speaks(s[c - d]) /\ s[c - d].calls >= d
        /\ \A j \in c - d + 1 .. c : Answers(s[j])
    BY <2>1 DEF Owner
  <2>3. d \in 1 .. i - 1 BY <1>4
  <2>4. g[i - d] = s[c - d]
    <3>1. i - d \in k + 1 .. k + e /\ (i - d) - k = c - d BY <1>4
    <3> QED BY <1>1, <3>1
  <2>5. \A j \in i - d + 1 .. i : Answers(g[j])
    <3> SUFFICES ASSUME NEW j \in i - d + 1 .. i PROVE Answers(g[j]) OBVIOUS
    <3>1. j \in k + 1 .. k + e /\ j - k \in c - d + 1 .. c BY <1>4
    <3> QED BY <1>1, <2>2, <3>1
  <2>6. Owner(g, i, d) BY <2>2, <2>3, <2>4, <2>5 DEF Owner
  <2> QED BY <2>3, <2>6
<1>8. CASE \A j \in 1 .. c : Stands(s[j])
  <2> SUFFICES ASSUME NEW j \in 1 .. i PROVE Stands(g[j]) OBVIOUS
  <2>1. CASE j \in 1 .. k BY <1>1, <1>2, <2>1
  <2>2. CASE j \notin 1 .. k
    <3>1. j \in k + 1 .. k + e /\ j - k \in 1 .. c BY <1>4, <2>2
    <3> QED BY <1>1, <1>8, <3>1
  <2> QED BY <2>1, <2>2
<1> QED BY <1>2, <1>6, <1>7, <1>8 DEF Tied

\* ... and only messages that call nothing.
LEMMA SettledJoined ==
  ASSUME NEW h \in Seq(Message), NEW s \in Seq(Message), NEW g, More(h, s, g), Settled(s),
         \A i \in DOMAIN h : Speaks(h[i]) => h[i].calls = 0
  PROVE  Settled(g)
<1> PICK k \in Nat : k = Len(h) OBVIOUS
<1> PICK e \in Nat : e = Len(s) OBVIOUS
<1>1. /\ g \in Seq(Message) /\ Len(g) = k + e /\ \A i \in 1 .. k : g[i] = h[i]
      /\ \A i \in k + 1 .. k + e : g[i] = s[i - k]
  BY DEF More, Continues
<1>2. DOMAIN g = 1 .. k + e /\ DOMAIN h = 1 .. k /\ DOMAIN s = 1 .. e BY <1>1
<1> SUFFICES ASSUME NEW i \in 1 .. k + e, Speaks(g[i]), NEW j \in 1 .. g[i].calls
             PROVE  i + j \in 1 .. k + e /\ Answers(g[i + j])
  BY <1>2 DEF Settled
<1>3. i \in k + 1 .. k + e
  <2> SUFFICES ASSUME i \in 1 .. k PROVE FALSE OBVIOUS
  <2>1. g[i].calls = 0 BY <1>1, <1>2
  <2> QED BY <2>1
<1>4. PICK c \in 1 .. e : i = k + c
  <2>1. i - k \in 1 .. e /\ i = k + (i - k) BY <1>3
  <2> QED BY <2>1
<1>5. g[i] = s[c]
  <2>1. i - k = c BY <1>4
  <2>2. g[i] = s[i - k] BY <1>1, <1>3
  <2> QED BY <2>1, <2>2
<1>6. j \in Nat
  <2>1. s[c] \in Message BY <1>2
  <2>2. s[c].calls \in 0 .. MaxCalls BY <2>1, Fields
  <2>3. MaxCalls \in Nat BY ConversationAssumption
  <2> QED BY <1>5, <2>2, <2>3
<1>7. c + j \in 1 .. e /\ Answers(s[c + j]) BY <1>2, <1>5 DEF Settled
<1>8. i + j \in k + 1 .. k + e /\ (i + j) - k = c + j BY <1>4, <1>6, <1>7
<1>9. i + j \in 1 .. k + e BY <1>8
<1> QED BY <1>1, <1>7, <1>8, <1>9

-----------------------------------------------------------------------------
(* Pruning outputs.                                                        *)

\* p is t but for the size of messages.
Shrunk(t, p) ==
  /\ p \in Seq(Message) /\ Len(p) = Len(t)
  /\ \A i \in 1 .. Len(t) : /\ p[i].role = t[i].role /\ p[i].claude = t[i].claude
                            /\ p[i].calls = t[i].calls /\ p[i].tells = t[i].tells
                            /\ p[i].summary = t[i].summary

\* Pruning shortens outputs.
LEMMA PrunedIs ==
  ASSUME NEW t \in Seq(Message)
  PROVE  Shrunk(t, PruneToolOutputs(t))
<1> PICK n \in Nat : n = Len(t) OBVIOUS
<1>0. DOMAIN t = 1 .. n /\ \A i \in 1 .. n : t[i] \in Message OBVIOUS
<1>1. Shrunk(t, t) BY DEF Shrunk
<1> DEFINE stale == {i \in DOMAIN t : Stale(t, i)}
           cut(i) == IF i \in stale THEN [t[i] EXCEPT !.size = OutputMax] ELSE t[i]
           p == [i \in DOMAIN t |-> cut(i)]
<1>2. \A i \in 1 .. n : /\ cut(i) \in Message /\ cut(i).role = t[i].role
                        /\ cut(i).claude = t[i].claude /\ cut(i).calls = t[i].calls
                        /\ cut(i).tells = t[i].tells /\ cut(i).summary = t[i].summary
  <2> SUFFICES ASSUME NEW i \in 1 .. n
               PROVE  /\ cut(i) \in Message /\ cut(i).role = t[i].role
                      /\ cut(i).claude = t[i].claude /\ cut(i).calls = t[i].calls
                      /\ cut(i).tells = t[i].tells /\ cut(i).summary = t[i].summary
    OBVIOUS
  <2>1. PICK m \in Message : m = t[i] BY <1>0
  <2>2. PICK x : x = [m EXCEPT !.size = OutputMax] OBVIOUS
  <2>3. OutputMax \in Nat BY ViewAssumption
  <2>4. /\ x \in Message /\ x.role = m.role /\ x.claude = m.claude /\ x.calls = m.calls
        /\ x.tells = m.tells /\ x.summary = m.summary
    BY <2>2, <2>3 DEF Message
  <2>5. cut(i) = m \/ cut(i) = x BY <2>1, <2>2
  <2> HIDE DEF cut
  <2> QED BY <2>1, <2>4, <2>5
<1>3. \A i \in 1 .. n : p[i] = cut(i) BY <1>0
<1>4. p \in [1 .. n -> Message] BY <1>0, <1>2
<1>5. PruneToolOutputs(t) = t \/ PruneToolOutputs(t) = p BY DEF PruneToolOutputs
<1> HIDE DEF p, cut
<1>6. p \in Seq(Message) /\ Len(p) = n BY <1>4
<1>7. Shrunk(t, p) BY <1>2, <1>3, <1>6 DEF Shrunk
<1> QED BY <1>1, <1>5, <1>7

\* Nothing that is sent of it changes but for the outputs' length.
LEMMA ShrunkPicks ==
  ASSUME NEW t \in Seq(Message), NEW p, Shrunk(t, p)
  PROVE  /\ Tied(t) => Tied(p)
         /\ Settled(t) => Settled(p)
         /\ Told(t) = Told(p)
<1> PICK n \in Nat : n = Len(t) OBVIOUS
<1>1. /\ p \in Seq(Message) /\ Len(p) = n
      /\ \A i \in 1 .. n : /\ p[i].role = t[i].role /\ p[i].claude = t[i].claude
                           /\ p[i].calls = t[i].calls /\ p[i].tells = t[i].tells
                           /\ p[i].summary = t[i].summary
  BY DEF Shrunk
<1>2. DOMAIN t = 1 .. n /\ DOMAIN p = 1 .. n BY <1>1
<1>3. \A i \in 1 .. n : Speaks(p[i]) = Speaks(t[i]) /\ Answers(p[i]) = Answers(t[i])
  BY <1>1 DEF Speaks, Answers
<1>7. \A i \in 1 .. n : Stands(t[i]) => Stands(p[i]) BY <1>1, <1>3 DEF Stands, FromClaude
<1>4. ASSUME Tied(t) PROVE Tied(p)
  <2> SUFFICES ASSUME NEW i \in 1 .. n, Answers(p[i])
               PROVE  (\E d \in 1 .. i - 1 : Owner(p, i, d)) \/ (\A j \in 1 .. i : Stands(p[j]))
    BY <1>2 DEF Tied
  <2>1. CASE \E d \in 1 .. i - 1 : Owner(t, i, d)
    <3>1. PICK d \in 1 .. i - 1 : Owner(t, i, d) BY <2>1
    <3>2. i - d \in 1 .. n /\ i - d + 1 .. i \subseteq 1 .. n OBVIOUS
    <3>3. Owner(p, i, d) BY <1>1, <1>3, <3>1, <3>2 DEF Owner
    <3> QED BY <3>3
  <2>2. CASE \A j \in 1 .. i : Stands(t[j])
    <3>1. \A j \in 1 .. i : j \in 1 .. n OBVIOUS
    <3> QED BY <1>7, <2>2, <3>1
  <2> QED BY <1>2, <1>3, <1>4, <2>1, <2>2 DEF Tied
<1>5. ASSUME Settled(t) PROVE Settled(p)
  <2> SUFFICES ASSUME NEW i \in 1 .. n, Speaks(p[i]), NEW j \in 1 .. p[i].calls
               PROVE  i + j \in 1 .. n /\ Answers(p[i + j])
    BY <1>2 DEF Settled
  <2>1. i + j \in 1 .. n /\ Answers(t[i + j]) BY <1>1, <1>2, <1>3, <1>5 DEF Settled
  <2> QED BY <1>3, <2>1
<1>6. Told(t) = Told(p) BY <1>1, <1>2 DEF Told
<1> QED BY <1>4, <1>5, <1>6

-----------------------------------------------------------------------------
(* The part of a history that is sent as it is.                            *)

\* What may be said of a model's turn to speak, and of Claude Code's.
Awaits(m) == m.role = "user" \/ Answers(m) \/ m.summary
Claims(m) == m.role = "user" \/ FromClaude(m)

\* Who speaks after whom, and that the head is what is hidden.
Ordered(h) ==
  /\ \A i \in DOMAIN h : Speaks(h[i]) => i > 1 /\ Awaits(h[i - 1])
  /\ \A i \in DOMAIN h : FromClaude(h[i]) => i > 1 /\ Claims(h[i - 1])
  /\ \A i \in DOMAIN h : h[i].summary => Speaks(h[i]) /\ h[i].calls = 0
  /\ \A i \in DOMAIN h : h[i].hidden => \A j \in 1 .. i - 1 : h[j].hidden

-----------------------------------------------------------------------------
(* The tail of a history.                                                  *)

\* r is the tail of h, and f where it is from: all behind its first message is
\* seen.
TailOf(h, r, f) ==
  /\ Takes(r, h, Verbatim(h), f) /\ Len(r) > 0
  /\ \A j \in Verbatim(h) : f[1] <= j
  /\ \A j \in DOMAIN h : f[1] <= j => ~h[j].hidden

\* The tail of a history that has one.
LEMMA RestIs ==
  ASSUME NEW h \in Seq(Message), Ordered(h), Tails(h, 0)
  PROVE  \E f : TailOf(h, Rest(h), f)
<1> PICK n \in Nat : n = Len(h) OBVIOUS
<1>0. DOMAIN h = 1 .. n /\ Verbatim(h) \in SUBSET (1 .. n) BY DEF Verbatim
<1>1. Rest(h) = Selection(h, Verbatim(h)) BY DEF Rest, Verbatim
<1>2. PICK f : Takes(Selection(h, Verbatim(h)), h, Verbatim(h), f) BY <1>0, SelectionTakes
<1>3. PICK r : r = Rest(h) OBVIOUS
<1>4. Takes(r, h, Verbatim(h), f) BY <1>1, <1>2, <1>3
<1>5. /\ r \in Seq(Message) /\ Lists(f, Len(r), Verbatim(h))
      /\ \A i \in 1 .. Len(r) : r[i] = h[f[i]]
  BY <1>4 DEF Takes
<1>6. PICK k \in Nat : k = Len(r) BY <1>5
<1>7. Lists(f, k, Verbatim(h)) BY <1>5, <1>6
<1>8. k > 0 /\ 1 \in 1 .. k
  <2>1. PICK j \in Verbatim(h) : TRUE BY DEF Tails
  <2>2. PICK i \in 1 .. k : f[i] = j BY <1>7 DEF Lists
  <2> QED BY <2>2
<1>9. f[1] \in Verbatim(h) BY <1>7, <1>8 DEF Lists
<1>10. \A j \in Verbatim(h) : f[1] <= j
  <2> SUFFICES ASSUME NEW j \in Verbatim(h) PROVE f[1] <= j OBVIOUS
  <2>1. PICK i \in 1 .. k : f[i] = j BY <1>7 DEF Lists
  <2>2. 1 <= i BY <2>1
  <2>3. \A x, y \in 1 .. k : x <= y => f[x] <= f[y] BY <1>0, <1>7, ListsRise
  <2>4. f[1] <= f[i] BY <1>8, <2>2, <2>3
  <2> QED BY <2>1, <2>4
<1>11. \A j \in DOMAIN h : f[1] <= j => ~h[j].hidden
  <2> SUFFICES ASSUME NEW j \in 1 .. n, f[1] <= j, h[j].hidden PROVE FALSE BY <1>0
  <2>1. f[1] \in 1 .. n /\ ~h[f[1]].hidden BY <1>0, <1>9 DEF Verbatim
  <2>2. f[1] # j BY <2>1
  <2>3. f[1] \in 1 .. j - 1 BY <2>1, <2>2
  <2> QED BY <1>0, <2>1, <2>3 DEF Ordered
<1>12. TailOf(h, r, f) BY <1>4, <1>6, <1>8, <1>10, <1>11 DEF TailOf
<1> QED BY <1>3, <1>12

\* What is seen from there on and is no summary is in the tail.
LEMMA TailHas ==
  ASSUME NEW h \in Seq(Message), Ordered(h), NEW r, NEW f, TailOf(h, r, f),
         NEW j \in DOMAIN h, f[1] <= j
  PROVE  /\ Awaits(h[j]) /\ ~h[j].summary => j \in Verbatim(h)
         /\ Claims(h[j]) => j \in Verbatim(h)
         /\ Answers(h[j]) => j \in Verbatim(h)
         /\ Speaks(h[j]) /\ h[j].calls # 0 => j \in Verbatim(h)
<1>1. ~h[j].hidden BY DEF TailOf
<1>2. h[j].summary => Speaks(h[j]) /\ h[j].calls = 0 BY DEF Ordered
<1>3. h[j].summary => ~Claims(h[j]) /\ ~Answers(h[j])
  BY <1>2 DEF Claims, FromClaude, Speaks, Answers
<1>4. h[j].summary \in BOOLEAN
  <2>1. h[j] \in Message OBVIOUS
  <2> QED BY <2>1, Fields
<1>5. h[j].role # "system" /\ ~h[j].summary => j \in Verbatim(h) BY <1>1 DEF Verbatim
<1>6. Awaits(h[j]) /\ ~h[j].summary => h[j].role # "system" BY DEF Awaits, Answers
<1>7. Claims(h[j]) => h[j].role # "system" BY DEF Claims, FromClaude
<1>8. Answers(h[j]) => h[j].role # "system" BY DEF Answers
<1>9. Speaks(h[j]) => h[j].role # "system" BY DEF Speaks
<1> QED BY <1>2, <1>3, <1>4, <1>5, <1>6, <1>7, <1>8, <1>9

\* Where the tail is, in it and in the history.
LEMMA TailFacts ==
  ASSUME NEW h \in Seq(Message), NEW r, NEW f, TailOf(h, r, f)
  PROVE  /\ r \in Seq(Message) /\ Len(r) > 0 /\ Lists(f, Len(r), Verbatim(h))
         /\ Verbatim(h) \in SUBSET (1 .. Len(h))
         /\ \A a \in 1 .. Len(r) :
              f[a] \in Verbatim(h) /\ f[a] \in 1 .. Len(h) /\ r[a] = h[f[a]]
         /\ f[1] \in Verbatim(h) /\ f[1] \in 1 .. Len(h)
         /\ \A j \in Verbatim(h) : f[1] <= j /\ j \in 1 .. Len(h) /\ ~h[j].summary
<1>1. /\ r \in Seq(Message) /\ Len(r) > 0 /\ Lists(f, Len(r), Verbatim(h))
      /\ Verbatim(h) \in SUBSET (1 .. Len(h)) /\ \A a \in 1 .. Len(r) : r[a] = h[f[a]]
      /\ \A j \in Verbatim(h) : f[1] <= j
  BY DEF TailOf, Takes
<1>2. \A a \in 1 .. Len(r) : f[a] \in Verbatim(h) /\ f[a] \in 1 .. Len(h) BY <1>1 DEF Lists
<1>3. 1 \in 1 .. Len(r) BY <1>1
<1>4. \A j \in Verbatim(h) : ~h[j].summary BY DEF Verbatim
<1> QED BY <1>1, <1>2, <1>3, <1>4

\* A summary waits for a model, as what it was put behind does.
LEMMA Behind ==
  ASSUME NEW h \in Seq(Message), Ordered(h), NEW i \in DOMAIN h, NEW j \in DOMAIN h,
         i <= j, Awaits(h[j]), \A c \in i + 1 .. j : Awaits(h[c]) => h[c].summary
  PROVE  Awaits(h[i])
<1> PICK n \in Nat : n = Len(h) OBVIOUS
<1>0. DOMAIN h = 1 .. n OBVIOUS
<1> PICK d \in Nat : d = j - i BY <1>0
<1> DEFINE R == {e \in 0 .. d : Awaits(h[j - e])}
<1>1. 0 \in R BY <1>0
<1>2. ASSUME NEW e \in 0 .. d - 1, e \in R PROVE e + 1 \in R
  <2>1. PICK c \in i + 1 .. j : c = j - e BY <1>0
  <2>2. Awaits(h[c]) BY <1>2, <2>1
  <2>3. c \in DOMAIN h BY <1>0
  <2>4. Speaks(h[c]) BY <2>2, <2>3 DEF Ordered
  <2>5. Awaits(h[c - 1]) BY <2>3, <2>4 DEF Ordered
  <2>6. c - 1 = j - (e + 1) BY <1>0, <2>1
  <2> QED BY <2>5, <2>6
<1>3. d \in R
  <2>1. \A e \in 0 .. d - 1 : e \in R => e + 1 \in R BY <1>2
  <2>2. 0 \in Int /\ d \in Int /\ d \in 0 .. d OBVIOUS
  <2> HIDE DEF R
  <2>3. 0 .. d \subseteq R BY <1>1, <2>1, <2>2, RangeInduction
  <2> QED BY <2>2, <2>3
<1>4. j - d = i BY <1>0
<1> QED BY <1>3, <1>4

\* In the tail a model speaks to a prompt or to results, and Claude Code
\* follows a prompt or itself; but the tail may begin with either.
Spoken(r) ==
  \A a \in 1 .. Len(r) - 1 :
    /\ Speaks(r[a + 1]) => r[a].role = "user" \/ Answers(r[a])
    /\ FromClaude(r[a + 1]) => Claims(r[a])

\* They do: what is spoken to is in the tail as well.
LEMMA RestSpoken ==
  ASSUME NEW h \in Seq(Message), Ordered(h), NEW r, NEW f, TailOf(h, r, f)
  PROVE  Spoken(r)
<1> PICK n \in Nat : n = Len(h) OBVIOUS
<1>0. /\ r \in Seq(Message) /\ Lists(f, Len(r), Verbatim(h)) /\ Verbatim(h) \in SUBSET (1 .. n)
      /\ \A a \in 1 .. Len(r) : f[a] \in Verbatim(h) /\ f[a] \in 1 .. n /\ r[a] = h[f[a]]
      /\ f[1] \in 1 .. n
      /\ \A j \in Verbatim(h) : f[1] <= j /\ ~h[j].summary
  BY TailFacts
<1> PICK k \in Nat : k = Len(r) BY <1>0
<1>1. DOMAIN h = 1 .. n OBVIOUS
<1> SUFFICES ASSUME NEW b \in 1 .. k - 1
             PROVE  /\ Speaks(r[b + 1]) => r[b].role = "user" \/ Answers(r[b])
                    /\ FromClaude(r[b + 1]) => Claims(r[b])
  BY DEF Spoken
<1>2. b \in 1 .. k /\ b + 1 \in 1 .. k OBVIOUS
<1>3. PICK i \in 1 .. n : i = f[b] BY <1>0, <1>2
<1>4. PICK t \in 1 .. n : t = f[b + 1] BY <1>0, <1>2
<1>5. /\ i \in Verbatim(h) /\ i < t /\ \A j \in Verbatim(h) : j <= i \/ j >= t
  <2>1. Lists(f, k, Verbatim(h)) BY <1>0
  <2>2. /\ f[b] \in Verbatim(h) /\ f[b] < f[b + 1]
        /\ \A j \in Verbatim(h) : j <= f[b] \/ j >= f[b + 1]
    BY <1>0, <1>2, <2>1, ListsNext
  <2> QED BY <1>3, <1>4, <2>2
<1>6. f[1] <= i /\ ~h[i].summary BY <1>0, <1>5
<1>7. r[b + 1] = h[t] /\ r[b] = h[i] BY <1>0, <1>2, <1>3, <1>4
<1>8. PICK j \in 1 .. n : j = t - 1
  <2>1. t - 1 \in 1 .. n BY <1>5
  <2> QED BY <2>1
<1>9. i <= j /\ j < t /\ f[1] <= j BY <1>0, <1>5, <1>6, <1>8
<1>10. ASSUME FromClaude(h[t]) PROVE Claims(h[i])
  <2>1. Claims(h[j]) BY <1>1, <1>8, <1>10 DEF Ordered
  <2>2. j \in Verbatim(h) BY <1>1, <1>9, <2>1, TailHas
  <2>3. j = i BY <1>5, <1>9, <2>2
  <2> QED BY <2>1, <2>3
<1>11. ASSUME Speaks(h[t]) PROVE h[i].role = "user" \/ Answers(h[i])
  <2>1. Awaits(h[j]) BY <1>1, <1>8, <1>11 DEF Ordered
  <2>2. \A c \in i + 1 .. j : Awaits(h[c]) => h[c].summary
    <3> SUFFICES ASSUME NEW c \in i + 1 .. j, Awaits(h[c]), ~h[c].summary PROVE FALSE
      OBVIOUS
    <3>1. c \in 1 .. n /\ f[1] <= c /\ i < c /\ c < t BY <1>0, <1>6, <1>9
    <3>2. c \in Verbatim(h) BY <1>1, <3>1, TailHas
    <3> QED BY <1>5, <3>1, <3>2
  <2>3. Awaits(h[i]) BY <1>1, <1>9, <2>1, <2>2, Behind
  <2> QED BY <1>6, <2>3 DEF Awaits
<1> QED BY <1>7, <1>10, <1>11

\* A result is in the tail with its call, or with results only before it.
LEMMA RestTied ==
  ASSUME NEW h \in Seq(Message), Ordered(h), NEW r, NEW f, TailOf(h, r, f), Owned(h)
  PROVE  Tied(r)
<1> PICK n \in Nat : n = Len(h) OBVIOUS
<1>0. /\ Verbatim(h) \in SUBSET (1 .. n) /\ f[1] \in 1 .. n
      /\ \A j \in Verbatim(h) : f[1] <= j
  BY TailFacts
<1>1. DOMAIN h = 1 .. n OBVIOUS
<1>2. Picks(r, h, Verbatim(h), f) BY TakesPicks DEF TailOf
<1>3. ASSUME NEW i \in Verbatim(h), Answers(h[i]) PROVE Holds(h, Verbatim(h), i)
  <2>1. i \in 1 .. n /\ f[1] <= i BY <1>0
  <2>2. PICK d \in 1 .. i - 1 : Owner(h, i, d) BY <1>1, <1>3, <2>1 DEF Owned
  <2>3. /\ Speaks(h[i - d]) /\ h[i - d].calls >= d
        /\ \A c \in i - d + 1 .. i : Answers(h[c])
    BY <2>2 DEF Owner
  <2>4. CASE f[1] <= i - d
    <3>1. h[i - d].calls # 0
      <4>1. h[i - d] \in Message BY <1>1, <2>1
      <4>2. h[i - d].calls \in 0 .. MaxCalls BY <4>1, Fields
      <4> QED BY <2>3, <4>2
    <3>2. \A j \in i - d .. i : j \in Verbatim(h)
      <4> SUFFICES ASSUME NEW j \in i - d .. i PROVE j \in Verbatim(h) OBVIOUS
      <4>1. j \in 1 .. n /\ f[1] <= j BY <1>0, <2>1, <2>4
      <4>2. CASE j = i - d BY <1>1, <2>3, <3>1, <4>1, <4>2, TailHas
      <4>3. CASE j # i - d
        <5>1. j \in i - d + 1 .. i BY <2>1, <4>3
        <5> QED BY <1>1, <2>3, <4>1, <5>1, TailHas
      <4> QED BY <4>2, <4>3
    <3> QED BY <2>2, <3>2 DEF Holds
  <2>5. CASE i - d < f[1]
    <3>1. \A j \in Verbatim(h) : j <= i => Stands(h[j])
      <4> SUFFICES ASSUME NEW j \in Verbatim(h), j <= i PROVE Stands(h[j]) OBVIOUS
      <4>1. j \in 1 .. n /\ f[1] <= j BY <1>0
      <4>2. j \in i - d + 1 .. i BY <1>0, <2>1, <2>5, <4>1
      <4> QED BY <2>3, <4>2 DEF Stands, Answers, FromClaude
    <3> QED BY <3>1 DEF Holds
  <2>6. f[1] <= i - d \/ i - d < f[1] BY <1>0, <2>1
  <2> QED BY <2>4, <2>5, <2>6
<1> QED BY <1>2, <1>3, PickTied

\* ... and every call in it is settled, if it was.
LEMMA RestSettled ==
  ASSUME NEW h \in Seq(Message), Ordered(h), NEW r, NEW f, TailOf(h, r, f), Settled(h)
  PROVE  Settled(r)
<1> PICK n \in Nat : n = Len(h) OBVIOUS
<1>0. Verbatim(h) \in SUBSET (1 .. n) /\ f[1] \in 1 .. n /\ \A j \in Verbatim(h) : f[1] <= j
  BY TailFacts
<1>1. DOMAIN h = 1 .. n OBVIOUS
<1>2. Picks(r, h, Verbatim(h), f) BY TakesPicks DEF TailOf
<1>3. \A i \in Verbatim(h) : Speaks(h[i]) => \A j \in 1 .. h[i].calls : i + j \in Verbatim(h)
  <2> SUFFICES ASSUME NEW i \in Verbatim(h), Speaks(h[i]), NEW j \in 1 .. h[i].calls
               PROVE  i + j \in Verbatim(h)
    OBVIOUS
  <2>1. i \in 1 .. n /\ f[1] <= i BY <1>0
  <2>2. i + j \in 1 .. n /\ Answers(h[i + j]) BY <1>1, <2>1 DEF Settled
  <2>3. j \in Nat
    <3>1. h[i] \in Message BY <1>1, <2>1
    <3>2. h[i].calls \in 0 .. MaxCalls BY <3>1, Fields
    <3>3. MaxCalls \in Nat BY ConversationAssumption
    <3> QED BY <3>2, <3>3
  <2>4. f[1] <= i + j BY <1>0, <2>1, <2>3
  <2> QED BY <1>1, <2>2, <2>4, TailHas
<1> QED BY <1>2, <1>3, PickSettled

\* The tail ends with what a model is to answer.
Asks(m) == m.role = "user" \/ Answers(m)

\* It does.
LEMMA RestAsks ==
  ASSUME NEW h \in Seq(Message), Ordered(h), NEW r, NEW f, TailOf(h, r, f), Awaits(Last(h))
  PROVE  Asks(r[Len(r)])
<1> PICK n \in Nat : n = Len(h) OBVIOUS
<1>0. /\ r \in Seq(Message) /\ Len(r) > 0 /\ Lists(f, Len(r), Verbatim(h))
      /\ Verbatim(h) \in SUBSET (1 .. n)
      /\ f[1] \in 1 .. n
      /\ \A j \in Verbatim(h) : f[1] <= j /\ ~h[j].summary
      /\ \A a \in 1 .. Len(r) : f[a] \in Verbatim(h) /\ f[a] \in 1 .. n /\ r[a] = h[f[a]]
  BY TailFacts
<1> PICK k \in Nat : k = Len(r) BY <1>0
<1>1. DOMAIN h = 1 .. n /\ n \in 1 .. n /\ k \in 1 .. k BY <1>0
<1>2. Awaits(h[n]) BY DEF Last
<1>3. PICK i \in 1 .. n : i = f[k] BY <1>0, <1>1
<1>4. i \in Verbatim(h) /\ r[k] = h[i] /\ f[1] <= i /\ ~h[i].summary
  BY <1>0, <1>1, <1>3
<1>5. \A c \in i + 1 .. n : Awaits(h[c]) => h[c].summary
  <2> SUFFICES ASSUME NEW c \in i + 1 .. n, Awaits(h[c]), ~h[c].summary PROVE FALSE
    OBVIOUS
  <2>1. c \in 1 .. n /\ f[1] <= c /\ i < c BY <1>0, <1>4
  <2>2. c \in Verbatim(h) BY <1>1, <2>1, TailHas
  <2>3. Lists(f, k, Verbatim(h)) BY <1>0
  <2>4. PICK a \in 1 .. k : f[a] = c BY <2>2, <2>3 DEF Lists
  <2>5. a <= k BY <2>4
  <2>6. f[a] <= f[k] BY <1>0, <1>1, <2>3, <2>5, ListsRise
  <2> QED BY <1>3, <2>1, <2>4, <2>6
<1>6. i <= n BY <1>3
<1>7. Awaits(h[i]) BY <1>1, <1>2, <1>5, <1>6, Behind
<1> QED BY <1>4, <1>7 DEF Awaits, Asks

-----------------------------------------------------------------------------
(* The view of a model.                                                    *)

\* The tail begins with what an assistant says.
Begins(r) == r # <<>> /\ (r[1].role = "assistant" \/ FromClaude(r[1]))

\* Summaries that give way to an assistant message behind them.
LEMMA DisplacedIs ==
  ASSUME NEW h, NEW s \in Seq(Message), s = Summaries(h), NEW c \in 1 .. Len(s),
         c < Len(s) \/ Begins(Rest(h))
  PROVE  s[c].tells \subseteq Displaced(h)
<1> PICK d \in Nat : d = Len(s) OBVIOUS
<1>1. s # <<>> /\ DOMAIN s = 1 .. d OBVIOUS
<1>2. Displaced(h) = Told(IF Begins(Rest(h)) THEN s ELSE Front(s))
  BY <1>1 DEF Displaced, Begins
<1>3. CASE Begins(Rest(h))
  <2>1. s[c].tells \subseteq Told(s) BY <1>1 DEF Told
  <2> QED BY <1>2, <1>3, <2>1
<1>4. CASE ~Begins(Rest(h))
  <2>1. Front(s) = SubSeq(s, 1, d - 1) BY DEF Front
  <2>2. PICK e \in Nat : e = d - 1 BY <1>1
  <2>3. PICK t : t = SubSeq(s, 1, e) OBVIOUS
  <2>4. e <= Len(s) BY <2>2
  <2>5. DOMAIN t = 1 .. e /\ \A j \in 1 .. e : t[j] = s[j] BY <2>3, <2>4
  <2>6. c \in 1 .. e BY <1>4, <2>2
  <2>7. s[c].tells \subseteq Told(t) BY <2>5, <2>6 DEF Told
  <2> QED BY <1>2, <1>4, <2>1, <2>2, <2>3, <2>7
<1> QED BY <1>3, <1>4

\* What comes before the tail: prompts of the system, and summaries.
HeadOf(h, g) ==
  /\ g \in Seq(Message)
  /\ \A i \in 1 .. Len(g) :
       g[i].role = "system" \/ (Speaks(g[i]) /\ g[i].calls = 0 /\ g[i].summary)
  /\ \A i \in 1 .. Len(g) - 1 :
       Speaks(g[i]) /\ Speaks(g[i + 1]) => g[i].tells \subseteq Displaced(h)
  /\ Len(g) > 0 /\ Speaks(g[Len(g)]) /\ Begins(Rest(h)) =>
       g[Len(g)].tells \subseteq Displaced(h)
  /\ \A i \in Heads(h) : h[i].tells \subseteq Told(g)

\* They are.
LEMMA HeadIs ==
  ASSUME NEW h \in Seq(Message), Ordered(h), NEW g,
         g = Selection(h, {i \in DOMAIN h : h[i].role = "system"}) \o Summaries(h)
  PROVE  HeadOf(h, g)
<1> PICK n \in Nat : n = Len(h) OBVIOUS
<1> PICK S : S = {i \in DOMAIN h : h[i].role = "system"} OBVIOUS
<1>0. DOMAIN h = 1 .. n /\ S \in SUBSET (1 .. n) /\ Heads(h) \in SUBSET (1 .. n)
  BY DEF Heads
<1>1. Summaries(h) = Selection(h, Heads(h)) BY DEF Summaries, Heads
<1>2. PICK f : Takes(Selection(h, S), h, S, f) BY <1>0, SelectionTakes
<1>3. PICK e : Takes(Selection(h, Heads(h)), h, Heads(h), e) BY <1>0, SelectionTakes
<1>4. PICK a : a = Selection(h, S) OBVIOUS
<1>5. PICK s : s = Summaries(h) OBVIOUS
<1>6. /\ a \in Seq(Message) /\ Lists(f, Len(a), S) /\ \A i \in 1 .. Len(a) : a[i] = h[f[i]]
      /\ s \in Seq(Message) /\ Lists(e, Len(s), Heads(h))
      /\ \A i \in 1 .. Len(s) : s[i] = h[e[i]]
  BY <1>1, <1>2, <1>3, <1>4, <1>5 DEF Takes
<1>8. PICK k \in Nat : k = Len(a) BY <1>6
<1>9. PICK d \in Nat : d = Len(s) BY <1>6
<1>10. \A i \in 1 .. k : a[i].role = "system"
  <2> SUFFICES ASSUME NEW i \in 1 .. k PROVE a[i].role = "system" OBVIOUS
  <2>1. f[i] \in S BY <1>6, <1>8 DEF Lists
  <2>2. a[i] = h[f[i]] BY <1>6, <1>8
  <2> QED BY <2>1, <2>2
<1>11. \A i \in 1 .. d : Speaks(s[i]) /\ s[i].calls = 0 /\ s[i].summary
  <2> SUFFICES ASSUME NEW i \in 1 .. d PROVE Speaks(s[i]) /\ s[i].calls = 0 /\ s[i].summary
    OBVIOUS
  <2>1. e[i] \in Heads(h) BY <1>6, <1>9 DEF Lists
  <2>2. s[i] = h[e[i]] BY <1>6, <1>9
  <2>3. e[i] \in DOMAIN h /\ h[e[i]].summary BY <2>1 DEF Heads
  <2> QED BY <2>2, <2>3 DEF Ordered
<1>12. More(a, s, a \o s) BY <1>6, Joined
<1>13. g = a \o s BY <1>4, <1>5
<1>14. /\ g \in Seq(Message) /\ Len(g) = k + d /\ \A i \in 1 .. k : g[i] = a[i]
       /\ \A i \in k + 1 .. k + d : g[i] = s[i - k]
  BY <1>8, <1>9, <1>12, <1>13 DEF More, Continues
<1>15. \A i \in 1 .. k + d :
         g[i].role = "system" \/ (Speaks(g[i]) /\ g[i].calls = 0 /\ g[i].summary)
  <2> SUFFICES ASSUME NEW i \in 1 .. k + d
               PROVE  g[i].role = "system" \/ (Speaks(g[i]) /\ g[i].calls = 0 /\ g[i].summary)
    OBVIOUS
  <2>1. CASE i \in 1 .. k BY <1>10, <1>14, <2>1
  <2>2. CASE i \notin 1 .. k
    <3>1. i \in k + 1 .. k + d /\ i - k \in 1 .. d BY <2>2
    <3> QED BY <1>11, <1>14, <3>1
  <2> QED BY <2>1, <2>2
<1>16. ASSUME NEW i \in 1 .. k + d, Speaks(g[i]), i < k + d \/ Begins(Rest(h))
       PROVE  g[i].tells \subseteq Displaced(h)
  <2>1. i \notin 1 .. k BY <1>10, <1>14, <1>16 DEF Speaks
  <2>2. PICK c \in 1 .. d : c = i - k
    <3>1. i - k \in 1 .. d BY <2>1
    <3> QED BY <3>1
  <2>3. g[i] = s[c]
    <3>1. i \in k + 1 .. k + d BY <2>1
    <3>2. g[i] = s[i - k] BY <1>14, <3>1
    <3> QED BY <2>2, <3>2
  <2>4. c \in 1 .. Len(s) /\ (c < Len(s) \/ Begins(Rest(h))) BY <1>9, <1>16, <2>2
  <2>5. s[c].tells \subseteq Displaced(h) BY <1>5, <1>6, <2>4, DisplacedIs
  <2> QED BY <2>3, <2>5
<1>17. \A i \in 1 .. (k + d) - 1 :
         Speaks(g[i]) /\ Speaks(g[i + 1]) => g[i].tells \subseteq Displaced(h)
  <2>1. \A i \in 1 .. (k + d) - 1 : i \in 1 .. k + d /\ i < k + d OBVIOUS
  <2> QED BY <1>16, <2>1
<1>18. k + d > 0 /\ Speaks(g[k + d]) /\ Begins(Rest(h)) =>
         g[k + d].tells \subseteq Displaced(h)
  <2>1. k + d > 0 => k + d \in 1 .. k + d OBVIOUS
  <2> QED BY <1>16, <2>1
<1>19. ASSUME NEW i \in Heads(h) PROVE h[i].tells \subseteq Told(g)
  <2>1. PICK c \in 1 .. d : e[c] = i BY <1>6, <1>9 DEF Lists
  <2>2. s[c] = h[i] BY <1>6, <1>9, <2>1
  <2>3. k + c \in k + 1 .. k + d /\ (k + c) - k = c OBVIOUS
  <2>4. g[k + c] = s[c] BY <1>14, <2>3
  <2>5. k + c \in DOMAIN g BY <1>14, <2>3
  <2> QED BY <2>2, <2>4, <2>5 DEF Told
<1> QED BY <1>14, <1>15, <1>17, <1>18, <1>19 DEF HeadOf

\* The same of what is sent: Claude Code never comes right before a model, and ...
Follows(v) == \A i \in 1 .. Len(v) - 1 : ~(FromClaude(v[i]) /\ Speaks(v[i + 1]))

\* ... of two assistant messages the first is a summary that gives way.
Doubles(h, v) ==
  \A i \in 1 .. Len(v) - 1 :
    Speaks(v[i]) /\ (Speaks(v[i + 1]) \/ FromClaude(v[i + 1])) =>
      v[i].tells \subseteq Displaced(h)

\* Two prompts, one behind the other, are so in the tail.
Twice(h, v) ==
  \A i \in 1 .. Len(v) - 1 :
    v[i].role = "user" /\ v[i + 1].role = "user" => v[i].tells \subseteq Superseded(h)

Viewed(h, v) ==
  /\ v \in Seq(Message) /\ Len(v) > 0 /\ Asks(v[Len(v)])
  /\ Tied(v) /\ (Settled(h) => Settled(v))
  /\ Follows(v) /\ Doubles(h, v) /\ Twice(h, v)
  /\ \A i \in Heads(h) \cup Verbatim(h) : h[i].tells \subseteq Told(v)

\* What BuildModelView makes of a history that has a tail.
LEMMA ViewIs ==
  ASSUME NEW h \in Seq(Message), Ordered(h), Owned(h), Tails(h, 0), Awaits(Last(h))
  PROVE  Viewed(h, BuildModelView(h))
<1> PICK n \in Nat : n = Len(h) OBVIOUS
<1>1. PICK r : r = Rest(h) OBVIOUS
<1>2. PICK f : TailOf(h, r, f) BY <1>1, RestIs
<1>3. PICK p : p = PruneToolOutputs(r) OBVIOUS
<1>4. PICK g : g = Selection(h, {i \in DOMAIN h : h[i].role = "system"}) \o Summaries(h)
  OBVIOUS
<1>5. PICK v : v = BuildModelView(h) OBVIOUS
<1>6. v = g \o p BY <1>1, <1>3, <1>4, <1>5 DEF BuildModelView
<1>7. HeadOf(h, g) BY <1>4, HeadIs
<1>8. /\ r \in Seq(Message) /\ Len(r) > 0 /\ Lists(f, Len(r), Verbatim(h))
      /\ \A a \in 1 .. Len(r) : r[a] = h[f[a]]
  BY <1>2, TailFacts
<1>9. Shrunk(r, p) BY <1>3, <1>8, PrunedIs
<1>10. Spoken(r) BY <1>2, RestSpoken
<1>11. Tied(r) BY <1>2, RestTied
<1>12. Settled(h) => Settled(r) BY <1>2, RestSettled
<1>13. Asks(r[Len(r)]) BY <1>2, RestAsks
<1> PICK m \in Nat : m = Len(r) BY <1>8
<1>14. /\ p \in Seq(Message) /\ Len(p) = m
       /\ \A i \in 1 .. m : /\ p[i].role = r[i].role /\ p[i].claude = r[i].claude
                            /\ p[i].calls = r[i].calls /\ p[i].tells = r[i].tells
  BY <1>9 DEF Shrunk
<1>15. Tied(p) /\ (Settled(h) => Settled(p)) /\ Told(p) = Told(r)
  BY <1>8, <1>9, <1>11, <1>12, ShrunkPicks
<1>16. \A i \in 1 .. m : /\ Speaks(p[i]) = Speaks(r[i]) /\ Answers(p[i]) = Answers(r[i])
                         /\ FromClaude(p[i]) = FromClaude(r[i])
                         /\ Claims(p[i]) = Claims(r[i])
  BY <1>14 DEF Speaks, Answers, FromClaude, Claims
<1>17. /\ g \in Seq(Message)
       /\ \A i \in 1 .. Len(g) :
            g[i].role = "system" \/ (Speaks(g[i]) /\ g[i].calls = 0 /\ g[i].summary)
       /\ \A i \in 1 .. Len(g) - 1 :
            Speaks(g[i]) /\ Speaks(g[i + 1]) => g[i].tells \subseteq Displaced(h)
       /\ Len(g) > 0 /\ Speaks(g[Len(g)]) /\ Begins(Rest(h)) =>
            g[Len(g)].tells \subseteq Displaced(h)
       /\ \A i \in Heads(h) : h[i].tells \subseteq Told(g)
  BY <1>7 DEF HeadOf
<1> PICK k \in Nat : k = Len(g) BY <1>17
<1>18. \A i \in 1 .. k : /\ ~Answers(g[i]) /\ ~FromClaude(g[i]) /\ g[i].role # "user"
                         /\ Speaks(g[i]) => g[i].calls = 0
                         /\ Stands(g[i])
  BY <1>17 DEF Answers, FromClaude, Speaks, Stands
<1>19. More(g, p, g \o p) BY <1>14, <1>17, Joined
<1>20. More(g, p, v) BY <1>6, <1>19
<1>21. /\ v \in Seq(Message) /\ Len(v) = k + m /\ \A i \in 1 .. k : v[i] = g[i]
       /\ \A i \in k + 1 .. k + m : v[i] = p[i - k]
  BY <1>14, <1>20 DEF More, Continues
<1>22. Tied(v)
  <2>1. \A i \in DOMAIN g : Stands(g[i]) /\ ~Answers(g[i]) BY <1>17, <1>18
  <2> QED BY <1>14, <1>15, <1>17, <1>20, <2>1, TiedJoined
<1>23. Settled(h) => Settled(v)
  <2>1. \A i \in DOMAIN g : Speaks(g[i]) => g[i].calls = 0 BY <1>17, <1>18
  <2> QED BY <1>14, <1>15, <1>17, <1>20, <2>1, SettledJoined
<1>24. m > 0 /\ m \in 1 .. m BY <1>8
<1>25. Len(v) > 0 /\ Asks(v[Len(v)])
  <2>1. k + m \in k + 1 .. k + m /\ (k + m) - k = m BY <1>24
  <2>2. v[k + m] = p[m] BY <1>21, <2>1
  <2>3. Asks(p[m]) BY <1>13, <1>14, <1>16, <1>24 DEF Asks
  <2> QED BY <1>21, <1>24, <2>2, <2>3
<1>26. DOMAIN v = 1 .. k + m BY <1>21
<1>27. ASSUME NEW i \in 1 .. (k + m) - 1
       PROVE  /\ ~(FromClaude(v[i]) /\ Speaks(v[i + 1]))
              /\ Speaks(v[i]) /\ (Speaks(v[i + 1]) \/ FromClaude(v[i + 1])) =>
                   v[i].tells \subseteq Displaced(h)
  <2>1. CASE i < k
    <3>1. i \in 1 .. k /\ i + 1 \in 1 .. k /\ i \in 1 .. k - 1 BY <2>1
    <3>2. v[i] = g[i] /\ v[i + 1] = g[i + 1] BY <1>21, <3>1
    <3>3. ~FromClaude(g[i]) /\ ~FromClaude(g[i + 1]) BY <1>18, <3>1
    <3> QED BY <1>17, <3>1, <3>2, <3>3
  <2>2. CASE i = k
    <3>1. i \in 1 .. k /\ k > 0 BY <2>2
    <3>2. i + 1 \in k + 1 .. k + m /\ (i + 1) - k = 1 /\ 1 \in 1 .. m BY <1>24, <2>2
    <3>3. v[i] = g[k] /\ v[i + 1] = p[1] BY <1>21, <2>2, <3>1, <3>2
    <3>4. ~FromClaude(g[k]) BY <1>18, <2>2, <3>1
    <3>5. ASSUME Speaks(p[1]) \/ FromClaude(p[1]) PROVE Begins(Rest(h))
      <4>1. r[1].role = "assistant" \/ FromClaude(r[1])
        BY <1>14, <1>16, <3>2, <3>5 DEF Speaks
      <4>2. r # <<>> BY <1>8
      <4>3. Begins(r) BY <4>1, <4>2 DEF Begins
      <4> QED BY <1>1, <4>3
    <3> QED BY <1>17, <3>1, <3>3, <3>4, <3>5
  <2>3. CASE i > k
    <3>1. PICK c \in 1 .. m : i = k + c
      <4>1. i - k \in 1 .. m /\ i = k + (i - k) BY <2>3
      <4> QED BY <4>1
    <3>2. /\ i \in k + 1 .. k + m /\ i - k = c /\ i + 1 \in k + 1 .. k + m
          /\ (i + 1) - k = c + 1 /\ c + 1 \in 1 .. m /\ c \in 1 .. m - 1
      BY <3>1
    <3>3. v[i] = p[c] /\ v[i + 1] = p[c + 1] BY <1>21, <3>2
    <3>4. /\ Speaks(v[i]) = Speaks(r[c]) /\ FromClaude(v[i]) = FromClaude(r[c])
          /\ Speaks(v[i + 1]) = Speaks(r[c + 1]) /\ FromClaude(v[i + 1]) = FromClaude(r[c + 1])
      BY <1>16, <3>2, <3>3
    <3>5. c \in 1 .. Len(r) - 1 BY <3>2
    <3>6. /\ Speaks(r[c + 1]) => r[c].role = "user" \/ Answers(r[c])
          /\ FromClaude(r[c + 1]) => Claims(r[c])
      BY <1>10, <3>5 DEF Spoken
    <3>7. Speaks(r[c + 1]) => ~FromClaude(r[c]) /\ ~Speaks(r[c])
      BY <3>6 DEF FromClaude, Answers, Speaks
    <3>8. FromClaude(r[c + 1]) => ~Speaks(r[c]) BY <3>6 DEF Claims, FromClaude, Speaks
    <3> QED BY <3>4, <3>7, <3>8
  <2> QED BY <2>1, <2>2, <2>3
<1>31. Follows(v) /\ Doubles(h, v)
  <2>1. \A i \in 1 .. Len(v) - 1 : ~(FromClaude(v[i]) /\ Speaks(v[i + 1])) BY <1>21, <1>27
  <2>2. \A i \in 1 .. Len(v) - 1 :
          Speaks(v[i]) /\ (Speaks(v[i + 1]) \/ FromClaude(v[i + 1])) =>
            v[i].tells \subseteq Displaced(h)
    BY <1>21, <1>27
  <2> QED BY <2>1, <2>2 DEF Follows, Doubles
<1>28. Twice(h, v)
  <2> SUFFICES ASSUME NEW i \in 1 .. (k + m) - 1, v[i].role = "user", v[i + 1].role = "user",
                      NEW x \in v[i].tells
               PROVE  x \in Superseded(h)
    BY <1>21 DEF Twice
  <2>1. i \notin 1 .. k BY <1>18, <1>21
  <2>2. PICK c \in 1 .. m : i = k + c
    <3>1. i - k \in 1 .. m /\ i = k + (i - k) BY <2>1
    <3> QED BY <3>1
  <2>3. i \in k + 1 .. k + m /\ i - k = c /\ i + 1 \in k + 1 .. k + m /\ (i + 1) - k = c + 1
        /\ c + 1 \in 1 .. m /\ c \in 1 .. m - 1
    BY <2>2
  <2>4. v[i] = p[c] /\ v[i + 1] = p[c + 1] BY <1>21, <2>3
  <2>5. r[c].role = "user" /\ r[c + 1].role = "user" /\ x \in r[c].tells
    BY <1>14, <2>3, <2>4
  <2> PICK t : t = Rest(h) OBVIOUS
  <2>6. t = r BY <1>1
  <2>7. c \in 1 .. Len(t) - 1 BY <2>3, <2>6
  <2>8. x \in UNION {t[j].tells : j \in {q \in 1 .. Len(t) - 1 :
                       t[q].role = "user" /\ t[q + 1].role = "user"}}
    BY <2>5, <2>6, <2>7
  <2> QED BY <2>8 DEF Superseded
<1>29. \A i \in Heads(h) \cup Verbatim(h) : h[i].tells \subseteq Told(v)
  <2>1. Told(g) \subseteq Told(v)
    <3>1. \A i \in DOMAIN g : i \in DOMAIN v /\ v[i] = g[i] BY <1>17, <1>21, <1>26
    <3> QED BY <3>1 DEF Told
  <2>2. Told(p) \subseteq Told(v)
    <3>1. \A i \in 1 .. m : k + i \in 1 .. k + m /\ v[k + i] = p[i]
      <4> SUFFICES ASSUME NEW i \in 1 .. m PROVE k + i \in 1 .. k + m /\ v[k + i] = p[i]
        OBVIOUS
      <4>1. k + i \in k + 1 .. k + m /\ (k + i) - k = i OBVIOUS
      <4> QED BY <1>21, <4>1
    <3>2. DOMAIN p = 1 .. m BY <1>14
    <3> QED BY <1>26, <3>1, <3>2 DEF Told
  <2>3. \A i \in Verbatim(h) : h[i].tells \subseteq Told(r)
    <3> SUFFICES ASSUME NEW i \in Verbatim(h) PROVE h[i].tells \subseteq Told(r) OBVIOUS
    <3>1. PICK a \in 1 .. m : f[a] = i BY <1>8 DEF Lists
    <3>2. r[a] = h[i] /\ a \in DOMAIN r BY <1>8, <3>1
    <3> QED BY <3>2 DEF Told
  <2> QED BY <1>15, <1>17, <2>1, <2>2, <2>3
<1>30. Viewed(h, v) BY <1>21, <1>22, <1>23, <1>25, <1>28, <1>29, <1>31 DEF Viewed
<1> QED BY <1>5, <1>30

-----------------------------------------------------------------------------
(* What is sent.                                                           *)

\* Between two messages of a flattened view there was nothing, or what Claude
\* Code said.
Nearby(v, i, j) ==
  /\ i < j
  /\ j = i + 1 \/ (FromClaude(v[i]) /\ FromClaude(v[j - 1]))
  /\ FromClaude(v[j]) => ~FromClaude(v[j - 1])

\* They are near.
LEMMA FlattenNext ==
  ASSUME NEW u, NEW v, NEW f, Picks(u, v, Starts(v), f),
         NEW a \in 1 .. Len(u), a + 1 \in 1 .. Len(u)
  PROVE  Nearby(v, f[a], f[a + 1])
<1>0. /\ u \in Seq(Message) /\ v \in Seq(Message) /\ Starts(v) \in SUBSET (1 .. Len(v))
      /\ Lists(f, Len(u), Starts(v))
  BY DEF Picks
<1> PICK k \in Nat : k = Len(u) BY <1>0
<1> PICK n \in Nat : n = Len(v) BY <1>0
<1>1. DOMAIN v = 1 .. n BY <1>0
<1>2. /\ f[a] \in Starts(v) /\ f[a + 1] \in Starts(v) /\ f[a] < f[a + 1]
      /\ \A i \in Starts(v) : i <= f[a] \/ i >= f[a + 1]
  <2>1. Lists(f, k, Starts(v)) /\ Starts(v) \in SUBSET (1 .. n) BY <1>0
  <2> QED BY <2>1, ListsNext
<1>3. PICK i \in 1 .. n : i = f[a] BY <1>0, <1>2
<1>4. PICK j \in 1 .. n : j = f[a + 1] BY <1>0, <1>2
<1>5. i < j /\ j \in Starts(v) BY <1>2, <1>3, <1>4
<1>6. \A c \in 1 .. n : i < c /\ c < j => FromClaude(v[c]) /\ FromClaude(v[c - 1])
  <2> SUFFICES ASSUME NEW c \in 1 .. n, i < c, c < j
               PROVE  FromClaude(v[c]) /\ FromClaude(v[c - 1])
    OBVIOUS
  <2>1. c \notin Starts(v) BY <1>2, <1>3, <1>4
  <2> QED BY <1>1, <2>1 DEF Starts
<1>7. j = i + 1 \/ (FromClaude(v[i]) /\ FromClaude(v[j - 1]))
  <2> SUFFICES ASSUME j # i + 1 PROVE FromClaude(v[i]) /\ FromClaude(v[j - 1]) OBVIOUS
  <2>1. /\ i + 1 \in 1 .. n /\ i < i + 1 /\ i + 1 < j /\ (i + 1) - 1 = i
        /\ j - 1 \in 1 .. n /\ i < j - 1 /\ j - 1 < j
    BY <1>5
  <2>2. FromClaude(v[(i + 1) - 1]) BY <1>6, <2>1
  <2>3. FromClaude(v[j - 1]) BY <1>6, <2>1
  <2> QED BY <2>1, <2>2, <2>3
<1>8. FromClaude(v[j]) => ~FromClaude(v[j - 1])
  <2>1. j > 1 BY <1>5
  <2> QED BY <1>5, <2>1 DEF Starts
<1>9. Nearby(v, i, j) BY <1>5, <1>7, <1>8 DEF Nearby
<1> QED BY <1>3, <1>4, <1>9

\* After flattening calls and results are where they were, and of two neighbours
\* of one role the first is a summary, or a prompt, that gives way.
Flat(h, v, u) ==
  /\ u \in Seq(Message) /\ Len(u) > 0 /\ Asks(u[Len(u)])
  /\ \A a \in 1 .. Len(u) : Whole(u[a])
  /\ Tied(u) /\ (Settled(h) => Settled(u))
  /\ \A a \in 1 .. Len(u) - 1 :
       u[a].role = "assistant" /\ u[a + 1].role = "assistant" =>
         u[a].tells \subseteq Displaced(h)
  /\ Twice(h, u)
  /\ Told(v) \subseteq Told(u)

\* What FlattenClaudeTurns makes of it.
LEMMA FlatIs ==
  ASSUME NEW h, NEW v, Viewed(h, v)
  PROVE  Flat(h, v, FlattenClaudeTurns(v))
<1>0. /\ v \in Seq(Message) /\ Len(v) > 0 /\ Asks(v[Len(v)]) /\ Tied(v)
      /\ Settled(h) => Settled(v)
      /\ Follows(v) /\ Doubles(h, v) /\ Twice(h, v)
  BY DEF Viewed
<1>1. PICK u : u = FlattenClaudeTurns(v) OBVIOUS
<1>2. /\ \E f : Picks(u, v, Starts(v), f)
      /\ \A a \in 1 .. Len(u) : Whole(u[a])
      /\ Told(v) \subseteq Told(u)
  BY <1>0, <1>1, FlattenPicks
<1>3. PICK f : Picks(u, v, Starts(v), f) BY <1>2
<1>4. /\ u \in Seq(Message) /\ Starts(v) \in SUBSET (1 .. Len(v))
      /\ Lists(f, Len(u), Starts(v)) /\ \A a \in 1 .. Len(u) : Like(u[a], v[f[a]])
  BY <1>3 DEF Picks
<1> PICK k \in Nat : k = Len(u) BY <1>4
<1> PICK n \in Nat : n = Len(v) BY <1>0
<1>5. DOMAIN v = 1 .. n /\ DOMAIN u = 1 .. k BY <1>0, <1>4
<1>6. \A a \in 1 .. k : f[a] \in Starts(v) /\ f[a] \in 1 .. n BY <1>4 DEF Lists
<1>7. \A i \in 1 .. n : ~FromClaude(v[i]) => i \in Starts(v) BY <1>5 DEF Starts
<1>8. \A i \in 1 .. n : Speaks(v[i]) \/ Answers(v[i]) => i \in Starts(v)
  BY <1>7 DEF Speaks, Answers, FromClaude
<1>9. Tied(u)
  <2>1. \A i \in Starts(v) : \A d \in 1 .. i - 1 :
          Owner(v, i, d) => \A j \in i - d .. i : j \in Starts(v)
    <3> SUFFICES ASSUME NEW i \in Starts(v), NEW d \in 1 .. i - 1, Owner(v, i, d),
                        NEW j \in i - d .. i
                 PROVE  j \in Starts(v)
      OBVIOUS
    <3>1. i \in 1 .. n BY <1>4
    <3>2. j \in 1 .. n /\ (j = i - d \/ j \in i - d + 1 .. i) BY <3>1
    <3>3. Speaks(v[j]) \/ Answers(v[j]) BY <3>2 DEF Owner
    <3> QED BY <1>8, <3>2, <3>3
  <2> QED BY <1>0, <1>3, <2>1, TiedOn
<1>10. Settled(h) => Settled(u)
  <2> SUFFICES ASSUME Settled(v) PROVE Settled(u) BY <1>0
  <2>1. \A i \in Starts(v) : Speaks(v[i]) => \A j \in 1 .. v[i].calls : i + j \in Starts(v)
    <3> SUFFICES ASSUME NEW i \in Starts(v), Speaks(v[i]), NEW j \in 1 .. v[i].calls
                 PROVE  i + j \in Starts(v)
      OBVIOUS
    <3>1. i \in 1 .. n BY <1>4
    <3>2. i + j \in 1 .. n /\ Answers(v[i + j]) BY <1>5, <3>1 DEF Settled
    <3> QED BY <1>8, <3>2
  <2> QED BY <1>3, <2>1, PickSettled
<1>11. k > 0 /\ Asks(u[k])
  <2>1. n \in 1 .. n BY <1>0
  <2>2. ~FromClaude(v[n]) BY <1>0 DEF Asks, Answers, FromClaude
  <2>3. n \in Starts(v) BY <1>7, <2>1, <2>2
  <2>4. Lists(f, k, Starts(v)) /\ Starts(v) \in SUBSET (1 .. n) BY <1>4
  <2>5. k > 0 /\ f[k] = n BY <2>3, <2>4, ListsLast
  <2>6. k \in 1 .. k BY <2>5
  <2>7. Like(u[k], v[n]) BY <1>4, <2>5, <2>6
  <2>8. Asks(v[n]) BY <1>0
  <2>9. u[k].role = v[n].role /\ u[k].claude = v[n].claude BY <2>2, <2>7 DEF Like
  <2> QED BY <2>5, <2>8, <2>9 DEF Asks, Answers
<1>12. ASSUME NEW a \in 1 .. k - 1, u[a].role = "assistant", u[a + 1].role = "assistant"
       PROVE  u[a].tells \subseteq Displaced(h)
  <2>1. a \in 1 .. k /\ a + 1 \in 1 .. k OBVIOUS
  <2>2. Nearby(v, f[a], f[a + 1]) BY <1>3, <2>1, FlattenNext
  <2>3. PICK i \in 1 .. n : i = f[a] BY <1>6, <2>1
  <2>4. PICK j \in 1 .. n : j = f[a + 1] BY <1>6, <2>1
  <2>5. /\ i < j /\ (j = i + 1 \/ (FromClaude(v[i]) /\ FromClaude(v[j - 1])))
        /\ FromClaude(v[j]) => ~FromClaude(v[j - 1])
    BY <2>2, <2>3, <2>4 DEF Nearby
  <2>6. Like(u[a], v[i]) /\ Like(u[a + 1], v[j]) BY <1>4, <2>1, <2>3, <2>4
  <2>7. v[i] \in Message /\ v[j] \in Message BY <1>0, <1>5
  <2>8. v[i].claude \in BOOLEAN /\ v[j].claude \in BOOLEAN BY <2>7, Fields
  <2>9. FromClaude(v[j]) \/ Speaks(v[j]) BY <1>12, <2>6, <2>8 DEF Like, Speaks, FromClaude
  <2>10. FromClaude(v[i]) \/ Speaks(v[i]) BY <1>12, <2>6, <2>8 DEF Like, Speaks, FromClaude
  <2>11. j - 1 \in 1 .. n - 1 /\ (j - 1) + 1 = j BY <2>5
  <2>12. ASSUME Speaks(v[j]) PROVE ~FromClaude(v[j - 1])
    <3>1. ~(FromClaude(v[j - 1]) /\ Speaks(v[(j - 1) + 1])) BY <1>0, <2>11 DEF Follows
    <3> QED BY <2>11, <2>12, <3>1
  <2>13. j = i + 1 BY <2>5, <2>9, <2>12
  <2>14. ~FromClaude(v[i]) /\ j - 1 = i BY <2>5, <2>9, <2>12, <2>13
  <2>15. Speaks(v[i]) BY <2>10, <2>14
  <2>16. i \in 1 .. n - 1 BY <2>11, <2>14
  <2>17. v[i].tells \subseteq Displaced(h) BY <1>0, <2>9, <2>13, <2>15, <2>16 DEF Doubles
  <2>18. u[a].tells = v[i].tells BY <2>6, <2>14 DEF Like
  <2> QED BY <2>17, <2>18
<1>13. Twice(h, u)
  <2> SUFFICES ASSUME NEW a \in 1 .. k - 1, u[a].role = "user", u[a + 1].role = "user"
               PROVE  u[a].tells \subseteq Superseded(h)
    BY DEF Twice
  <2>1. a \in 1 .. k /\ a + 1 \in 1 .. k OBVIOUS
  <2>2. Nearby(v, f[a], f[a + 1]) BY <1>3, <2>1, FlattenNext
  <2>3. PICK i \in 1 .. n : i = f[a] BY <1>6, <2>1
  <2>4. PICK j \in 1 .. n : j = f[a + 1] BY <1>6, <2>1
  <2>5. j = i + 1 \/ FromClaude(v[i]) BY <2>2, <2>3, <2>4 DEF Nearby
  <2>6. Like(u[a], v[i]) /\ Like(u[a + 1], v[j]) BY <1>4, <2>1, <2>3, <2>4
  <2>7. ~FromClaude(u[a]) /\ ~FromClaude(u[a + 1]) BY <1>2, <2>1 DEF Whole, FromClaude
  <2>8. /\ ~FromClaude(v[i]) /\ v[i].role = "user" /\ v[j].role = "user"
        /\ u[a].tells = v[i].tells
    BY <2>6, <2>7 DEF Like
  <2>9. j = i + 1 /\ i \in 1 .. n - 1 BY <2>5, <2>8
  <2>10. v[i].tells \subseteq Superseded(h) BY <1>0, <2>8, <2>9 DEF Twice
  <2> QED BY <2>8, <2>10
<1>14. \A a \in 1 .. k - 1 :
         u[a].role = "assistant" /\ u[a + 1].role = "assistant" =>
           u[a].tells \subseteq Displaced(h)
  BY <1>12
<1>15. Flat(h, v, u) BY <1>2, <1>4, <1>9, <1>10, <1>11, <1>13, <1>14 DEF Flat
<1> QED BY <1>1, <1>15

\* Messages that are kept, with only doubled ones between them: their roles
\* are not one.
LEMMA KeptDiffer ==
  ASSUME NEW u \in Seq(Message), NEW i \in 1 .. Len(u), NEW j \in 1 .. Len(u), i < j,
         i \notin Doubled(u), \A c \in 1 .. Len(u) : i < c /\ c < j => c \in Doubled(u),
         u[j].role \in {"user", "assistant"}
  PROVE  u[i].role # u[j].role
<1> PICK n \in Nat : n = Len(u) OBVIOUS
<1>0. DOMAIN u = 1 .. n /\ i \in 1 .. n /\ j \in 1 .. n OBVIOUS
<1> PICK d \in Nat : d = j - (i + 1) BY <1>0
<1> DEFINE R == {e \in 0 .. d : u[j - e].role = u[j].role}
<1>1. 0 \in R BY <1>0
<1>2. ASSUME NEW e \in 0 .. d - 1, e \in R PROVE e + 1 \in R
  <2>1. PICK c \in i + 1 .. j - 1 : c = j - (e + 1)
    <3>1. j - (e + 1) \in i + 1 .. j - 1 BY <1>0
    <3> QED BY <3>1
  <2>2. c \in 1 .. n /\ i < c /\ c < j /\ c + 1 = j - e BY <1>0, <2>1
  <2>3. c \in Doubled(u) BY <2>2
  <2>4. u[c].role = u[c + 1].role BY <2>3 DEF Doubled
  <2>5. u[c].role = u[j].role BY <1>2, <2>2, <2>4
  <2>6. e + 1 \in 0 .. d OBVIOUS
  <2> QED BY <2>1, <2>5, <2>6
<1>3. d \in R
  <2>1. \A e \in 0 .. d - 1 : e \in R => e + 1 \in R BY <1>2
  <2>2. 0 \in Int /\ d \in Int /\ d \in 0 .. d OBVIOUS
  <2> HIDE DEF R
  <2>3. 0 .. d \subseteq R BY <1>1, <2>1, <2>2, RangeInduction
  <2> QED BY <2>2, <2>3
<1>4. j - d = i + 1 BY <1>0
<1>5. u[i + 1].role = u[j].role BY <1>3, <1>4
<1> SUFFICES ASSUME u[i].role = u[j].role PROVE FALSE OBVIOUS
<1>6. i < n BY <1>0
<1>7. i \in Doubled(u) BY <1>0, <1>5, <1>6 DEF Doubled
<1> QED BY <1>7

\* What is sent: WellFormed and Remembered of one history.
Sent(h, w) ==
  /\ Settled(h) => Paired(w)
  /\ \A i \in DOMAIN w : w[i].role = "tool" => HasCall(w, i) \/ CutOff(w, i)
  /\ NoDoubles(w)
  /\ Last(w).role \in {"user", "tool"}
  /\ \A i \in Heads(h) \cup Verbatim(h) :
       h[i].tells \subseteq Told(w) \cup Superseded(h) \cup Displaced(h)

\* It is so of a history that has a tail and waits for a model.
LEMMA SentIs ==
  ASSUME NEW h \in Seq(Message), Ordered(h), Owned(h), Tails(h, 0), Awaits(Last(h))
  PROVE  Sent(h, Wire(h))
<1>1. PICK v : v = BuildModelView(h) OBVIOUS
<1>2. Viewed(h, v) BY <1>1, ViewIs
<1>3. PICK u : u = FlattenClaudeTurns(v) OBVIOUS
<1>4. Flat(h, v, u) BY <1>2, <1>3, FlatIs
<1>5. PICK w : w = Undoubled(u) OBVIOUS
<1>6. Wire(h) = w BY <1>1, <1>3, <1>5 DEF Wire, Undoubled
<1>7. /\ u \in Seq(Message) /\ Len(u) > 0 /\ Asks(u[Len(u)])
      /\ \A a \in 1 .. Len(u) : Whole(u[a])
      /\ Tied(u) /\ (Settled(h) => Settled(u))
      /\ \A a \in 1 .. Len(u) - 1 :
           u[a].role = "assistant" /\ u[a + 1].role = "assistant" =>
             u[a].tells \subseteq Displaced(h)
      /\ Twice(h, u)
      /\ Told(v) \subseteq Told(u)
  BY <1>4 DEF Flat
<1> PICK n \in Nat : n = Len(u) BY <1>7
<1>8. DOMAIN u = 1 .. n BY <1>7
<1>9. PICK S : S = DOMAIN u \ Doubled(u) OBVIOUS
<1>10. PICK f : Takes(w, u, S, f) BY <1>5, <1>7, <1>9, UndoubledTakes
<1>11. Picks(w, u, S, f) BY <1>10, TakesPicks
<1>12. /\ w \in Seq(Message) /\ S \in SUBSET (1 .. n) /\ Lists(f, Len(w), S)
       /\ \A a \in 1 .. Len(w) : w[a] = u[f[a]]
  BY <1>10 DEF Takes
<1> PICK k \in Nat : k = Len(w) BY <1>12
<1>13. DOMAIN w = 1 .. k BY <1>12
<1>14. \A j \in Doubled(u) : /\ j \in 1 .. n - 1 /\ u[j].role = u[j + 1].role
                             /\ u[j].role \in {"user", "assistant"}
  <2> SUFFICES ASSUME NEW j \in Doubled(u)
               PROVE  /\ j \in 1 .. n - 1 /\ u[j].role = u[j + 1].role
                      /\ u[j].role \in {"user", "assistant"}
    OBVIOUS
  <2>1. /\ j \in 1 .. n /\ j < n /\ u[j].role = u[j + 1].role
        /\ u[j].role \in {"user", "assistant"}
    BY <1>8 DEF Doubled
  <2>2. j \in 1 .. n - 1 BY <2>1
  <2> QED BY <2>1, <2>2
<1>15. \A j \in 1 .. n : Answers(u[j]) => j \in S BY <1>8, <1>9, <1>14 DEF Answers
<1>16. Tied(w)
  <2>1. \A i \in S : \A d \in 1 .. i - 1 :
          Owner(u, i, d) => \A j \in i - d .. i : j \in S
    <3> SUFFICES ASSUME NEW i \in S, NEW d \in 1 .. i - 1, Owner(u, i, d),
                        NEW j \in i - d .. i
                 PROVE  j \in S
      OBVIOUS
    <3>1. i \in 1 .. n BY <1>12
    <3>2. Speaks(u[i - d]) /\ \A c \in i - d + 1 .. i : Answers(u[c]) BY DEF Owner
    <3>3. CASE j = i - d
      <4>1. j + 1 \in i - d + 1 .. i /\ j \in 1 .. n BY <3>1, <3>3
      <4>2. Answers(u[j + 1]) /\ Speaks(u[j]) BY <3>2, <3>3, <4>1
      <4>3. u[j].role # u[j + 1].role BY <4>2 DEF Answers, Speaks
      <4>4. j \notin Doubled(u) BY <1>14, <4>3
      <4> QED BY <1>8, <1>9, <4>1, <4>4
    <3>4. CASE j # i - d
      <4>1. j \in i - d + 1 .. i /\ j \in 1 .. n BY <3>1, <3>4
      <4> QED BY <1>15, <3>2, <4>1
    <3> QED BY <3>3, <3>4
  <2> QED BY <1>7, <1>11, <2>1, TiedOn
<1>17. Settled(h) => Settled(w)
  <2> SUFFICES ASSUME Settled(u) PROVE Settled(w) BY <1>7
  <2>1. \A i \in S : Speaks(u[i]) => \A j \in 1 .. u[i].calls : i + j \in S
    <3> SUFFICES ASSUME NEW i \in S, Speaks(u[i]), NEW j \in 1 .. u[i].calls
                 PROVE  i + j \in S
      OBVIOUS
    <3>1. i \in 1 .. n BY <1>12
    <3>2. i + j \in 1 .. n /\ Answers(u[i + j]) BY <1>8, <3>1 DEF Settled
    <3> QED BY <1>15, <3>2
  <2> QED BY <1>11, <2>1, PickSettled
<1>18. \A a \in 1 .. k : Whole(w[a]) /\ w[a] \in Message
  <2> SUFFICES ASSUME NEW a \in 1 .. k PROVE Whole(w[a]) /\ w[a] \in Message OBVIOUS
  <2>1. f[a] \in S /\ f[a] \in 1 .. n BY <1>12 DEF Lists
  <2>2. w[a] = u[f[a]] BY <1>12
  <2> QED BY <1>7, <1>12, <1>13, <2>1, <2>2
<1>19. Settled(h) => Paired(w)
  <2> SUFFICES ASSUME Settled(h), NEW i \in DOMAIN w, w[i].role = "assistant",
                      NEW j \in 1 .. w[i].calls
               PROVE  i + j \in DOMAIN w /\ w[i + j].role = "tool"
    BY DEF Paired
  <2>0. i \in 1 .. k /\ w[i] \in Message BY <1>13, <1>18
  <2>1. w[i].claude \in BOOLEAN BY <2>0, Fields
  <2>2. ~FromClaude(w[i])
    <3> SUFFICES ASSUME FromClaude(w[i]) PROVE FALSE OBVIOUS
    <3>1. w[i].calls = 0 BY <1>18, <2>0 DEF Whole
    <3> QED BY <3>1
  <2>3. Speaks(w[i]) BY <2>1, <2>2 DEF FromClaude, Speaks
  <2> QED BY <1>17, <2>3 DEF Settled, Answers
<1>20. \A i \in DOMAIN w : w[i].role = "tool" => HasCall(w, i) \/ CutOff(w, i)
  <2> SUFFICES ASSUME NEW i \in 1 .. k, w[i].role = "tool"
               PROVE  HasCall(w, i) \/ CutOff(w, i)
    BY <1>13
  <2>0. w[i] \in Message BY <1>18
  <2>1. w[i].claude \in BOOLEAN BY <2>0, Fields
  <2>2. Answers(w[i]) BY <1>18, <2>1 DEF Whole, FromClaude, Answers
  <2>3. CASE \E d \in 1 .. i - 1 : Owner(w, i, d)
    <3>1. PICK d \in 1 .. i - 1 : Owner(w, i, d) BY <2>3
    <3>2. /\ w[i - d].role = "assistant" /\ w[i - d].calls >= d
          /\ \A j \in i - d + 1 .. i : w[j].role = "tool"
      BY <3>1 DEF Owner, Speaks, Answers
    <3> QED BY <3>2 DEF HasCall
  <2>4. CASE \A j \in 1 .. i : Stands(w[j])
    <3>1. \A j \in 1 .. i : w[j].role \in {"system", "tool"} \/ w[j].summary
      BY <2>4 DEF Stands, Answers
    <3> QED BY <3>1 DEF CutOff
  <2> QED BY <1>13, <1>16, <2>2, <2>3, <2>4 DEF Tied
<1>21. NoDoubles(w)
  <2> SUFFICES ASSUME NEW i \in 2 .. k, w[i].role \in {"user", "assistant"}
               PROVE  w[i - 1].role # w[i].role
    BY DEF NoDoubles
  <2>1. PICK a \in 1 .. k : a = i - 1
    <3>1. i - 1 \in 1 .. k OBVIOUS
    <3> QED BY <3>1
  <2>2. a + 1 \in 1 .. k /\ a + 1 = i BY <2>1
  <2>3. Lists(f, k, S) /\ S \in SUBSET (1 .. n) BY <1>12
  <2>4. /\ f[a] \in S /\ f[a + 1] \in S /\ f[a] < f[a + 1]
        /\ \A c \in S : c <= f[a] \/ c >= f[a + 1]
    BY <2>2, <2>3, ListsNext
  <2>5. PICK x \in 1 .. n : x = f[a] BY <1>12, <2>4
  <2>6. PICK y \in 1 .. n : y = f[a + 1] BY <1>12, <2>4
  <2>7. w[i - 1] = u[x] /\ w[i] = u[y] BY <1>12, <2>1, <2>2, <2>5, <2>6
  <2>8. x < y /\ x \notin Doubled(u) BY <1>9, <2>4, <2>5, <2>6
  <2>9. \A c \in 1 .. Len(u) : x < c /\ c < y => c \in Doubled(u)
    <3> SUFFICES ASSUME NEW c \in 1 .. n, x < c, c < y, c \notin Doubled(u) PROVE FALSE
      OBVIOUS
    <3>1. c \in S BY <1>8, <1>9
    <3> QED BY <2>4, <2>5, <2>6, <3>1
  <2>10. u[y].role \in {"user", "assistant"} BY <2>7
  <2>11. u[x].role # u[y].role BY <1>7, <2>8, <2>9, <2>10, KeptDiffer
  <2> QED BY <2>7, <2>11
<1>22. Last(w).role \in {"user", "tool"}
  <2>1. n \in 1 .. n /\ n \notin Doubled(u) BY <1>7, <1>14
  <2>2. n \in S BY <1>8, <1>9, <2>1
  <2>3. k > 0 /\ f[k] = n
    <3>1. Lists(f, k, S) BY <1>12
    <3> QED BY <1>12, <2>2, <3>1, ListsLast
  <2>4. w[k] = u[n] BY <1>12, <2>3
  <2>5. Last(w) = w[k] BY DEF Last
  <2> QED BY <1>7, <2>4, <2>5 DEF Asks, Answers
<1>23. Told(u) \subseteq Told(w) \cup Superseded(h) \cup Displaced(h)
  <2> SUFFICES ASSUME NEW j \in 1 .. n
               PROVE  u[j].tells \subseteq Told(w) \cup Superseded(h) \cup Displaced(h)
    BY <1>8 DEF Told
  <2>1. CASE j \in Doubled(u)
    <3>1. /\ j \in 1 .. Len(u) - 1
          /\ \/ u[j].role = "user" /\ u[j + 1].role = "user"
             \/ u[j].role = "assistant" /\ u[j + 1].role = "assistant"
      BY <1>14, <2>1
    <3>2. CASE u[j].role = "user" /\ u[j + 1].role = "user"
      <4>1. u[j].tells \subseteq Superseded(h) BY <1>7, <3>1, <3>2 DEF Twice
      <4> QED BY <4>1
    <3>3. CASE u[j].role = "assistant" /\ u[j + 1].role = "assistant"
      <4>1. u[j].tells \subseteq Displaced(h) BY <1>7, <3>1, <3>3
      <4> QED BY <4>1
    <3> QED BY <3>1, <3>2, <3>3
  <2>2. CASE j \notin Doubled(u)
    <3>1. j \in S BY <1>8, <1>9, <2>2
    <3>2. PICK a \in 1 .. k : f[a] = j BY <1>12, <3>1 DEF Lists
    <3>3. w[a] = u[j] /\ a \in DOMAIN w BY <1>12, <1>13, <3>2
    <3>4. u[j].tells \subseteq Told(w) BY <3>3 DEF Told
    <3> QED BY <3>4
  <2> QED BY <2>1, <2>2
<1>24. \A i \in Heads(h) \cup Verbatim(h) : h[i].tells \subseteq Told(v)
  BY <1>2 DEF Viewed
<1>25. \A i \in Heads(h) \cup Verbatim(h) :
         h[i].tells \subseteq Told(w) \cup Superseded(h) \cup Displaced(h)
  BY <1>7, <1>23, <1>24
<1>26. Sent(h, w) BY <1>19, <1>20, <1>21, <1>22, <1>25 DEF Sent
<1> QED BY <1>6, <1>26

-----------------------------------------------------------------------------
(* What recording, rolling back and compaction leave in order.             *)

\* What a history is between two steps.
Fit(h, l) == Ordered(h) /\ Owned(h) /\ Covered(h, l) /\ Mute(h)

\* Its first n messages are settled.
SettledTo(h, n) ==
  \A i \in 1 .. n : Speaks(h[i]) =>
    \A k \in 1 .. h[i].calls : i + k \in 1 .. n /\ Answers(h[i + k])

\* To be settled is to be settled to the last message.
LEMMA SettledAll ==
  ASSUME NEW h \in Seq(Message)
  PROVE  Settled(h) <=> SettledTo(h, Len(h))
<1>1. DOMAIN h = 1 .. Len(h) OBVIOUS
<1> QED BY <1>1 DEF Settled, SettledTo

\* A message that fits behind a history.
Suits(h, m) ==
  /\ m \in Message /\ ~m.hidden /\ ~m.summary /\ m.role # "system" /\ ~Answers(m)
  /\ Speaks(m) => Len(h) > 0 /\ Awaits(h[Len(h)])
  /\ FromClaude(m) => Len(h) > 0 /\ Claims(h[Len(h)])

\* It fits.
LEMMA FitOn ==
  ASSUME NEW h \in Seq(Message), NEW l, NEW m, NEW g, Fit(h, l), Suits(h, m),
         OneMore(h, m, g)
  PROVE  /\ Fit(g, l)
         /\ Settled(h) /\ (Speaks(m) => m.calls = 0) => Settled(g)
<1> PICK n \in Nat : n = Len(h) OBVIOUS
<1>1. /\ g \in Seq(Message) /\ Len(g) = n + 1 /\ g[n + 1] = m
      /\ \A i \in 1 .. n : g[i] = h[i]
  BY DEF OneMore, Continues
<1>2. DOMAIN g = 1 .. n + 1 /\ DOMAIN h = 1 .. n BY <1>1
<1>3. \A i \in 1 .. n + 1 : i \in 1 .. n \/ i = n + 1 OBVIOUS
<1>4. /\ m \in Message /\ ~m.hidden /\ ~m.summary /\ m.role # "system" /\ ~Answers(m)
      /\ Speaks(m) => n > 0 /\ Awaits(h[n])
      /\ FromClaude(m) => n > 0 /\ Claims(h[n])
  BY DEF Suits
<1>5. n > 0 => g[n] = h[n] BY <1>1
<1>6. (n + 1) - 1 = n /\ \A i \in 1 .. n : i - 1 \in 1 .. n \/ i = 1 OBVIOUS
<1>7. Ordered(g)
  <2>1. \A i \in 1 .. n + 1 : Speaks(g[i]) => i > 1 /\ Awaits(g[i - 1])
    <3> SUFFICES ASSUME NEW i \in 1 .. n + 1, Speaks(g[i]) PROVE i > 1 /\ Awaits(g[i - 1])
      OBVIOUS
    <3>1. CASE i = n + 1 BY <3>1, <1>1, <1>4, <1>5, <1>6
    <3>2. CASE i \in 1 .. n
      <4>1. i > 1 /\ Awaits(h[i - 1]) BY <3>2, <1>1, <1>2 DEF Fit, Ordered
      <4>2. i - 1 \in 1 .. n BY <4>1, <3>2
      <4> QED BY <4>1, <4>2, <1>1
    <3> QED BY <3>1, <3>2, <1>3
  <2>2. \A i \in 1 .. n + 1 : FromClaude(g[i]) => i > 1 /\ Claims(g[i - 1])
    <3> SUFFICES ASSUME NEW i \in 1 .. n + 1, FromClaude(g[i])
                 PROVE  i > 1 /\ Claims(g[i - 1])
      OBVIOUS
    <3>1. CASE i = n + 1 BY <3>1, <1>1, <1>4, <1>5, <1>6
    <3>2. CASE i \in 1 .. n
      <4>1. i > 1 /\ Claims(h[i - 1]) BY <3>2, <1>1, <1>2 DEF Fit, Ordered
      <4>2. i - 1 \in 1 .. n BY <4>1, <3>2
      <4> QED BY <4>1, <4>2, <1>1
    <3> QED BY <3>1, <3>2, <1>3
  <2>3. \A i \in 1 .. n + 1 : g[i].summary => Speaks(g[i]) /\ g[i].calls = 0
    BY <1>1, <1>2, <1>3, <1>4 DEF Fit, Ordered
  <2>4. \A i \in 1 .. n + 1 : g[i].hidden => \A j \in 1 .. i - 1 : g[j].hidden
    <3> SUFFICES ASSUME NEW i \in 1 .. n + 1, g[i].hidden, NEW j \in 1 .. i - 1
                 PROVE  g[j].hidden
      OBVIOUS
    <3>1. i \in 1 .. n BY <1>1, <1>3, <1>4
    <3>2. h[i].hidden BY <3>1, <1>1
    <3>3. h[j].hidden BY <3>1, <3>2, <1>2 DEF Fit, Ordered
    <3>4. j \in 1 .. n BY <3>1
    <3> QED BY <3>3, <3>4, <1>1
  <2> QED BY <2>1, <2>2, <2>3, <2>4, <1>2 DEF Ordered
<1>8. Owned(g)
  <2> SUFFICES ASSUME NEW i \in 1 .. n + 1, Answers(g[i])
               PROVE  \E d \in 1 .. i - 1 : Owner(g, i, d)
    BY <1>2 DEF Owned
  <2>1. i \in 1 .. n BY <1>1, <1>3, <1>4
  <2>2. Answers(h[i]) BY <2>1, <1>1
  <2>3. PICK d \in 1 .. i - 1 : Owner(h, i, d) BY <2>1, <2>2, <1>2 DEF Fit, Owned
  <2>4. i - d \in 1 .. n /\ i - d + 1 .. i \subseteq 1 .. n BY <2>1
  <2>5. Owner(g, i, d) BY <2>3, <2>4, <1>1 DEF Owner
  <2> QED BY <2>5
<1>9. Covered(g, l)
  <2>1. \A i \in Len(h) + 1 .. Len(g) : ~g[i].hidden BY <1>4 DEF OneMore
  <2>2. Continues(h, g) /\ Covered(h, l) BY DEF OneMore, Fit
  <2> QED BY <2>1, <2>2, CoveredOn
<1>10. Mute(g) BY <1>1, <1>2, <1>3, <1>4 DEF Mute, Fit
<1>11. ASSUME Settled(h), Speaks(m) => m.calls = 0 PROVE Settled(g)
  <2> SUFFICES ASSUME NEW i \in 1 .. n + 1, Speaks(g[i]), NEW k \in 1 .. g[i].calls
               PROVE  i + k \in 1 .. n + 1 /\ Answers(g[i + k])
    BY <1>2 DEF Settled
  <2>1. CASE i = n + 1
    <3>1. g[i].calls = 0 BY <2>1, <1>1, <1>11
    <3>2. k \in 1 .. 0 BY <3>1
    <3> QED BY <3>2
  <2>2. CASE i \in 1 .. n
    <3>1. i + k \in 1 .. n /\ Answers(h[i + k]) BY <2>2, <1>1, <1>2, <1>11 DEF Settled
    <3> QED BY <3>1, <1>1
  <2> QED BY <2>1, <2>2, <1>3
<1> QED BY <1>7, <1>8, <1>9, <1>10, <1>11 DEF Fit

\* What is left when a history is cut before a prompt.
LEMMA FitBack ==
  ASSUME NEW h \in Seq(Message), NEW l, NEW l2, NEW n \in 0 .. Len(h), NEW g,
         g = SubSeq(h, 1, n), Fit(h, l), Covered(g, l2)
  PROVE  /\ Fit(g, l2)
         /\ Settled(h) /\ n < Len(h) /\ h[n + 1].role = "user" => Settled(g)
<1> PICK k \in Nat : k = Len(h) OBVIOUS
<1>1. g \in Seq(Message) /\ Len(g) = n /\ \A i \in 1 .. n : i \in 1 .. k /\ g[i] = h[i]
  OBVIOUS
<1>2. DOMAIN g = 1 .. n /\ DOMAIN h = 1 .. k BY <1>1
<1>3. Ordered(g)
  <2>1. \A i \in 1 .. n : Speaks(g[i]) => i > 1 /\ Awaits(g[i - 1])
    <3> SUFFICES ASSUME NEW i \in 1 .. n, Speaks(g[i]) PROVE i > 1 /\ Awaits(g[i - 1])
      OBVIOUS
    <3>1. i > 1 /\ Awaits(h[i - 1]) BY <1>1, <1>2 DEF Fit, Ordered
    <3>2. i - 1 \in 1 .. n BY <3>1
    <3> QED BY <3>1, <3>2, <1>1
  <2>2. \A i \in 1 .. n : FromClaude(g[i]) => i > 1 /\ Claims(g[i - 1])
    <3> SUFFICES ASSUME NEW i \in 1 .. n, FromClaude(g[i]) PROVE i > 1 /\ Claims(g[i - 1])
      OBVIOUS
    <3>1. i > 1 /\ Claims(h[i - 1]) BY <1>1, <1>2 DEF Fit, Ordered
    <3>2. i - 1 \in 1 .. n BY <3>1
    <3> QED BY <3>1, <3>2, <1>1
  <2>3. \A i \in 1 .. n : g[i].summary => Speaks(g[i]) /\ g[i].calls = 0
    BY <1>1, <1>2 DEF Fit, Ordered
  <2>4. \A i \in 1 .. n : g[i].hidden => \A j \in 1 .. i - 1 : g[j].hidden
    <3> SUFFICES ASSUME NEW i \in 1 .. n, g[i].hidden, NEW j \in 1 .. i - 1
                 PROVE  g[j].hidden
      OBVIOUS
    <3>1. h[j].hidden BY <1>1, <1>2 DEF Fit, Ordered
    <3>2. j \in 1 .. n OBVIOUS
    <3> QED BY <3>1, <3>2, <1>1
  <2> QED BY <2>1, <2>2, <2>3, <2>4, <1>2 DEF Ordered
<1>4. Owned(g)
  <2> SUFFICES ASSUME NEW i \in 1 .. n, Answers(g[i])
               PROVE  \E d \in 1 .. i - 1 : Owner(g, i, d)
    BY <1>2 DEF Owned
  <2>1. PICK d \in 1 .. i - 1 : Owner(h, i, d) BY <1>1, <1>2 DEF Fit, Owned
  <2>2. i - d \in 1 .. n /\ i - d + 1 .. i \subseteq 1 .. n OBVIOUS
  <2>3. Owner(g, i, d) BY <2>1, <2>2, <1>1 DEF Owner
  <2> QED BY <2>3
<1>5. Mute(g) BY <1>1, <1>2 DEF Mute, Fit
<1>6. ASSUME Settled(h), n < k, h[n + 1].role = "user" PROVE Settled(g)
  <2> SUFFICES ASSUME NEW i \in 1 .. n, Speaks(g[i]), NEW j \in 1 .. g[i].calls
               PROVE  i + j \in 1 .. n /\ Answers(g[i + j])
    BY <1>2 DEF Settled
  <2>1. PICK c \in Nat : c = h[i].calls
    <3>1. h[i] \in Message BY <1>1
    <3>2. h[i].calls \in 0 .. MaxCalls BY <3>1, Fields
    <3>3. MaxCalls \in Nat BY ConversationAssumption
    <3> QED BY <3>2, <3>3
  <2>2. j \in 1 .. c /\ Speaks(h[i]) BY <1>1, <2>1
  <2>3. \A e \in 1 .. c : Answers(h[i + e]) BY <1>1, <1>2, <1>6, <2>1, <2>2 DEF Settled
  <2>4. i + j <= n
    <3> SUFFICES ASSUME n + 1 <= i + j PROVE FALSE BY <2>2
    <3>1. (n + 1) - i \in 1 .. c /\ i + ((n + 1) - i) = n + 1 BY <2>2
    <3>2. Answers(h[n + 1]) BY <2>3, <3>1
    <3> QED BY <3>2, <1>6 DEF Answers
  <2>5. i + j \in 1 .. n BY <2>2, <2>4
  <2> QED BY <2>2, <2>3, <2>5, <1>1
<1> QED BY <1>3, <1>4, <1>5, <1>6 DEF Fit

\* Compaction of a history that waits for a model.
LEMMA FitCompacted ==
  ASSUME NEW h \in Seq(Message), NEW l, NEW n \in 0 .. Len(h), NEW success \in BOOLEAN,
         NEW c, c = Compacted(h, n, success), Fit(h, l), Len(h) > 0, Awaits(h[Len(h)])
  PROVE  /\ Fit(c, l \cup Forgets(h, n, success))
         /\ Settled(h) => Settled(c)
         /\ c \in Seq(Message) /\ Len(c) > 0 /\ Awaits(c[Len(c)])
         /\ Tails(h, n) => Tails(c, 0)
<1> PICK k \in Nat : k = Len(h) OBVIOUS
<1>a. PICK m : m = c[k + 1] OBVIOUS
<1>1. /\ Keeps(h, c) /\ Len(c) = k + 1
      /\ \A i \in 1 .. k : c[i].hidden <=> h[i].hidden \/ i <= n
      /\ m \in Message /\ m.role = "assistant" /\ ~m.claude /\ ~m.hidden /\ m.summary
      /\ m.calls = 0
  BY <1>a, CompactedIs
<1>2. c \in Seq(Message) /\ DOMAIN c = 1 .. k + 1 /\ DOMAIN h = 1 .. k
  BY <1>1 DEF Keeps
<1>3. \A i \in 1 .. k :
        /\ c[i].role = h[i].role /\ c[i].claude = h[i].claude /\ c[i].tells = h[i].tells
        /\ c[i].calls = h[i].calls /\ c[i].summary = h[i].summary
  <2> SUFFICES ASSUME NEW i \in 1 .. k
               PROVE  /\ c[i].role = h[i].role /\ c[i].claude = h[i].claude
                      /\ c[i].tells = h[i].tells /\ c[i].calls = h[i].calls
                      /\ c[i].summary = h[i].summary
    OBVIOUS
  <2>1. c[i] \in Message /\ h[i] \in Message /\ Bare(h[i]) = Bare(c[i])
    BY <1>1, <1>2 DEF Keeps
  <2> QED BY <2>1, Alike
<1>4. \A i \in 1 .. k : /\ Speaks(c[i]) = Speaks(h[i]) /\ Answers(c[i]) = Answers(h[i])
                        /\ FromClaude(c[i]) = FromClaude(h[i])
                        /\ Awaits(c[i]) = Awaits(h[i]) /\ Claims(c[i]) = Claims(h[i])
  BY <1>3 DEF Speaks, Answers, FromClaude, Awaits, Claims
<1>5. Speaks(m) /\ ~FromClaude(m) /\ ~Answers(m) BY <1>1 DEF Speaks, FromClaude, Answers
<1>6. \A i \in 1 .. k + 1 : i \in 1 .. k \/ i = k + 1 OBVIOUS
<1>7. Ordered(c)
  <2>1. \A i \in 1 .. k + 1 : Speaks(c[i]) => i > 1 /\ Awaits(c[i - 1])
    <3> SUFFICES ASSUME NEW i \in 1 .. k + 1, Speaks(c[i]) PROVE i > 1 /\ Awaits(c[i - 1])
      OBVIOUS
    <3>1. CASE i = k + 1
      <4>1. i - 1 = k /\ k \in 1 .. k /\ i > 1 BY <3>1
      <4> QED BY <4>1, <1>4
    <3>2. CASE i \in 1 .. k
      <4>1. i > 1 /\ Awaits(h[i - 1]) BY <3>2, <1>4, <1>2 DEF Fit, Ordered
      <4>2. i - 1 \in 1 .. k BY <4>1, <3>2
      <4> QED BY <4>1, <4>2, <1>4
    <3> QED BY <3>1, <3>2, <1>6
  <2>2. \A i \in 1 .. k + 1 : FromClaude(c[i]) => i > 1 /\ Claims(c[i - 1])
    <3> SUFFICES ASSUME NEW i \in 1 .. k + 1, FromClaude(c[i])
                 PROVE  i > 1 /\ Claims(c[i - 1])
      OBVIOUS
    <3>1. i \in 1 .. k BY <1>a, <1>5, <1>6
    <3>2. i > 1 /\ Claims(h[i - 1]) BY <3>1, <1>4, <1>2 DEF Fit, Ordered
    <3>3. i - 1 \in 1 .. k BY <3>1, <3>2
    <3> QED BY <3>2, <3>3, <1>4
  <2>3. \A i \in 1 .. k + 1 : c[i].summary => Speaks(c[i]) /\ c[i].calls = 0
    <3>1. \A i \in 1 .. k : h[i].summary => Speaks(h[i]) /\ h[i].calls = 0
      BY <1>2 DEF Fit, Ordered
    <3> QED BY <3>1, <1>a, <1>1, <1>3, <1>4, <1>5, <1>6
  <2>4. \A i \in 1 .. k + 1 : c[i].hidden => \A j \in 1 .. i - 1 : c[j].hidden
    <3> SUFFICES ASSUME NEW i \in 1 .. k + 1, c[i].hidden, NEW j \in 1 .. i - 1
                 PROVE  c[j].hidden
      OBVIOUS
    <3>1. i \in 1 .. k BY <1>a, <1>1, <1>6
    <3>2. j \in 1 .. k /\ j <= i BY <3>1
    <3>3. CASE h[i].hidden
      <4>1. h[j].hidden BY <3>1, <3>3, <1>2 DEF Fit, Ordered
      <4> QED BY <4>1, <3>2, <1>1
    <3>4. CASE ~h[i].hidden
      <4>1. i <= n BY <3>1, <3>4, <1>1
      <4>2. j <= n BY <4>1, <3>1, <3>2
      <4> QED BY <4>2, <3>2, <1>1
    <3> QED BY <3>3, <3>4
  <2> QED BY <2>1, <2>2, <2>3, <2>4, <1>2 DEF Ordered
<1>8. Owned(c)
  <2> SUFFICES ASSUME NEW i \in 1 .. k + 1, Answers(c[i])
               PROVE  \E d \in 1 .. i - 1 : Owner(c, i, d)
    BY <1>2 DEF Owned
  <2>1. i \in 1 .. k BY <1>a, <1>5, <1>6
  <2>2. Answers(h[i]) BY <2>1, <1>4
  <2>3. PICK d \in 1 .. i - 1 : Owner(h, i, d) BY <2>1, <2>2, <1>2 DEF Fit, Owned
  <2>4. i - d \in 1 .. k /\ i - d + 1 .. i \subseteq 1 .. k BY <2>1
  <2>5. Owner(c, i, d) BY <2>3, <2>4, <1>3, <1>4 DEF Owner
  <2> QED BY <2>5
<1>9. Covered(c, l \cup Forgets(h, n, success))
  BY CoveredCompacted DEF Fit
<1>10. Mute(c)
  <2>1. Mute(h) BY DEF Fit
  <2>2. \A i \in Len(h) + 1 .. Len(c) : i = k + 1 BY <1>1
  <2>3. \A i \in Len(h) + 1 .. Len(c) : c[i].role # "system" BY <2>2, <1>a, <1>1
  <2> QED BY <2>1, <2>3, <1>1, MuteOn
<1>11. ASSUME Settled(h) PROVE Settled(c)
  <2> SUFFICES ASSUME NEW i \in 1 .. k + 1, Speaks(c[i]), NEW j \in 1 .. c[i].calls
               PROVE  i + j \in 1 .. k + 1 /\ Answers(c[i + j])
    BY <1>2 DEF Settled
  <2>1. CASE i = k + 1
    <3>1. j \in 1 .. 0 BY <2>1, <1>a, <1>1
    <3> QED BY <3>1
  <2>2. CASE i \in 1 .. k
    <3>1. Speaks(h[i]) /\ j \in 1 .. h[i].calls BY <2>2, <1>3, <1>4
    <3>2. i + j \in 1 .. k /\ Answers(h[i + j]) BY <2>2, <3>1, <1>2, <1>11 DEF Settled
    <3>3. Answers(c[i + j]) BY <3>2, <1>4
    <3> QED BY <3>2, <3>3
  <2> QED BY <2>1, <2>2, <1>6
<1>12. Awaits(c[Len(c)]) BY <1>a, <1>1 DEF Awaits
<1>13. ASSUME Tails(h, n) PROVE Tails(c, 0)
  <2>1. PICK j \in Verbatim(h) : j > n BY <1>13 DEF Tails
  <2>2. j \in 1 .. k /\ ~h[j].hidden /\ ~h[j].summary /\ h[j].role # "system"
    BY <1>2, <2>1 DEF Verbatim
  <2>3. ~(j <= n) BY <2>1, <2>2
  <2>4. ~c[j].hidden BY <1>1, <2>2, <2>3
  <2>5. j \in 1 .. k + 1 BY <2>2
  <2>6. j \in Verbatim(c) BY <1>2, <1>3, <2>2, <2>4, <2>5 DEF Verbatim
  <2>7. j > 0 BY <2>2
  <2> QED BY <2>6, <2>7 DEF Tails
<1> QED BY <1>1, <1>2, <1>7, <1>8, <1>9, <1>10, <1>11, <1>12, <1>13 DEF Fit

\* The results of the calls of the last message.
LEMMA FitResults ==
  ASSUME NEW h \in Seq(Message), NEW l, NEW c \in Nat \ {0}, NEW s \in Seq(Message), NEW g,
         Fit(h, l), Len(h) > 0, Speaks(h[Len(h)]), c = h[Len(h)].calls, Len(s) = c,
         \A i \in 1 .. c : Answers(s[i]) /\ ~s[i].hidden /\ ~s[i].summary,
         More(h, s, g)
  PROVE  /\ Fit(g, l)
         /\ SettledTo(h, Len(h) - 1) => Settled(g)
         /\ g \in Seq(Message) /\ Len(g) > 0 /\ Awaits(g[Len(g)])
         /\ Len(g) \in Verbatim(g)
<1> PICK n \in Nat : n = Len(h) OBVIOUS
<1>1. /\ g \in Seq(Message) /\ Len(g) = n + c /\ \A i \in 1 .. n : g[i] = h[i]
      /\ \A i \in n + 1 .. n + c : i - n \in 1 .. c /\ g[i] = s[i - n]
  <2>1. /\ g \in Seq(Message) /\ Len(g) = Len(h) + Len(s)
        /\ \A i \in 1 .. Len(h) : g[i] = h[i]
        /\ \A i \in Len(h) + 1 .. Len(g) : i - Len(h) \in DOMAIN s /\ g[i] = s[i - Len(h)]
    BY DEF More, Continues
  <2>2. DOMAIN s = 1 .. c /\ Len(g) = n + c BY <2>1
  <2> QED BY <2>1, <2>2
<1>2. DOMAIN g = 1 .. n + c /\ DOMAIN h = 1 .. n BY <1>1
<1>3. \A i \in 1 .. n + c : i \in 1 .. n \/ i \in n + 1 .. n + c OBVIOUS
<1>4. \A i \in n + 1 .. n + c : Answers(g[i]) /\ ~g[i].hidden /\ ~g[i].summary BY <1>1
<1>5. \A i \in n + 1 .. n + c :
        ~Speaks(g[i]) /\ ~FromClaude(g[i]) /\ g[i].role # "system"
  BY <1>4 DEF Answers, Speaks, FromClaude
<1>6. Ordered(g)
  <2>1. \A i \in 1 .. n + c : Speaks(g[i]) => i > 1 /\ Awaits(g[i - 1])
    <3> SUFFICES ASSUME NEW i \in 1 .. n + c, Speaks(g[i]) PROVE i > 1 /\ Awaits(g[i - 1])
      OBVIOUS
    <3>1. i \in 1 .. n BY <1>3, <1>5
    <3>2. i > 1 /\ Awaits(h[i - 1]) BY <3>1, <1>1, <1>2 DEF Fit, Ordered
    <3>3. i - 1 \in 1 .. n BY <3>1, <3>2
    <3> QED BY <3>2, <3>3, <1>1
  <2>2. \A i \in 1 .. n + c : FromClaude(g[i]) => i > 1 /\ Claims(g[i - 1])
    <3> SUFFICES ASSUME NEW i \in 1 .. n + c, FromClaude(g[i])
                 PROVE  i > 1 /\ Claims(g[i - 1])
      OBVIOUS
    <3>1. i \in 1 .. n BY <1>3, <1>5
    <3>2. i > 1 /\ Claims(h[i - 1]) BY <3>1, <1>1, <1>2 DEF Fit, Ordered
    <3>3. i - 1 \in 1 .. n BY <3>1, <3>2
    <3> QED BY <3>2, <3>3, <1>1
  <2>3. \A i \in 1 .. n + c : g[i].summary => Speaks(g[i]) /\ g[i].calls = 0
    <3>1. \A i \in 1 .. n : h[i].summary => Speaks(h[i]) /\ h[i].calls = 0
      BY <1>2 DEF Fit, Ordered
    <3> QED BY <3>1, <1>1, <1>3, <1>4
  <2>4. \A i \in 1 .. n + c : g[i].hidden => \A j \in 1 .. i - 1 : g[j].hidden
    <3> SUFFICES ASSUME NEW i \in 1 .. n + c, g[i].hidden, NEW j \in 1 .. i - 1
                 PROVE  g[j].hidden
      OBVIOUS
    <3>1. i \in 1 .. n BY <1>3, <1>4
    <3>2. h[j].hidden BY <3>1, <1>1, <1>2 DEF Fit, Ordered
    <3>3. j \in 1 .. n BY <3>1
    <3> QED BY <3>2, <3>3, <1>1
  <2> QED BY <2>1, <2>2, <2>3, <2>4, <1>2 DEF Ordered
<1>7. g[n] = h[n] /\ n \in 1 .. n BY <1>1
<1>8. Owned(g)
  <2> SUFFICES ASSUME NEW i \in 1 .. n + c, Answers(g[i])
               PROVE  \E d \in 1 .. i - 1 : Owner(g, i, d)
    BY <1>2 DEF Owned
  <2>1. CASE i \in 1 .. n
    <3>1. Answers(h[i]) BY <2>1, <1>1
    <3>2. PICK d \in 1 .. i - 1 : Owner(h, i, d) BY <2>1, <3>1, <1>2 DEF Fit, Owned
    <3>3. i - d \in 1 .. n /\ i - d + 1 .. i \subseteq 1 .. n BY <2>1
    <3>4. Owner(g, i, d) BY <3>2, <3>3, <1>1 DEF Owner
    <3> QED BY <3>4
  <2>2. CASE i \in n + 1 .. n + c
    <3>0. i - n \in 1 .. c BY <2>2
    <3>1. PICK d \in 1 .. c : d = i - n BY <3>0
    <3>2. d \in 1 .. i - 1 /\ i - d = n /\ d <= c BY <2>2, <3>1, <1>7
    <3>3. i - d + 1 .. i \subseteq n + 1 .. n + c BY <2>2, <3>2
    <3>4. Speaks(g[i - d]) /\ g[i - d].calls >= d BY <3>2, <1>7
    <3>5. \A j \in i - d + 1 .. i : Answers(g[j]) BY <3>3, <1>4
    <3>6. Owner(g, i, d) BY <3>2, <3>4, <3>5 DEF Owner
    <3> QED BY <3>2, <3>6
  <2> QED BY <2>1, <2>2, <1>3
<1>9. Covered(g, l)
  <2>1. Continues(h, g) /\ Covered(h, l) BY DEF More, Fit
  <2>2. \A i \in Len(h) + 1 .. Len(g) : ~g[i].hidden BY <1>1, <1>4
  <2> QED BY <2>1, <2>2, CoveredOn
<1>10. Mute(g)
  <2> SUFFICES ASSUME NEW i \in 1 .. n + c, g[i].role = "system" PROVE g[i].tells = {}
    BY <1>2 DEF Mute
  <2>1. i \in 1 .. n BY <1>3, <1>5
  <2> QED BY <2>1, <1>1, <1>2 DEF Mute, Fit
<1>11. ASSUME SettledTo(h, n - 1) PROVE Settled(g)
  <2> SUFFICES ASSUME NEW i \in 1 .. n + c, Speaks(g[i]), NEW j \in 1 .. g[i].calls
               PROVE  i + j \in 1 .. n + c /\ Answers(g[i + j])
    BY <1>2 DEF Settled
  <2>1. i \in 1 .. n BY <1>3, <1>5
  <2>2. CASE i = n
    <3>1. j \in 1 .. c BY <2>2, <1>7
    <3>2. i + j \in n + 1 .. n + c BY <2>2, <3>1
    <3> QED BY <3>2, <1>4
  <2>3. CASE i # n
    <3>1. i \in 1 .. n - 1 BY <2>1, <2>3
    <3>2. Speaks(h[i]) /\ j \in 1 .. h[i].calls BY <2>1, <1>1
    <3>3. i + j \in 1 .. n - 1 /\ Answers(h[i + j]) BY <3>1, <3>2, <1>11 DEF SettledTo
    <3>4. i + j \in 1 .. n BY <3>3
    <3>5. g[i + j] = h[i + j] BY <3>4, <1>1
    <3> QED BY <3>3, <3>4, <3>5
  <2> QED BY <2>2, <2>3
<1>12. Awaits(g[Len(g)])
  <2>1. n + c \in n + 1 .. n + c OBVIOUS
  <2> QED BY <2>1, <1>1, <1>4 DEF Awaits
<1>13. Len(g) \in Verbatim(g)
  <2>1. n + c \in n + 1 .. n + c /\ n + c \in 1 .. n + c OBVIOUS
  <2>2. ~g[n + c].hidden /\ ~g[n + c].summary /\ g[n + c].role # "system"
    BY <1>4, <1>5, <2>1
  <2>3. n + c \in Verbatim(g) BY <1>2, <2>1, <2>2 DEF Verbatim
  <2> QED BY <1>1, <2>3
<1> QED BY <1>1, <1>6, <1>8, <1>9, <1>10, <1>11, <1>12, <1>13 DEF Fit

-----------------------------------------------------------------------------
(* A split leaves a tail.                                                  *)

\* Nothing has no size.
LEMMA SizeOfNone ==
  ASSUME NEW e, e = <<>>
  PROVE  Size(e) = 0
<1> PICK S : S = DOMAIN e OBVIOUS
<1>1. S = {} /\ \A s \in SUBSET S : s = {} OBVIOUS
<1>2. PICK g : g = [s \in SUBSET S |-> 0] OBVIOUS
<1>3. g = [s \in SUBSET S |->
             IF s = {} THEN 0 ELSE LET x == Max(s) IN g[s \ {x}] + e[x].size]
  BY <1>1, <1>2
<1> DEFINE iter[s \in SUBSET S] ==
             IF s = {} THEN 0 ELSE LET x == Max(s) IN iter[s \ {x}] + e[x].size
<1>4. Size(e) = iter[S] BY DEF Size, FoldLeft, MapThenFoldSet
<1>5. iter = [s \in SUBSET S |->
                IF s = {} THEN 0 ELSE LET x == Max(s) IN iter[s \ {x}] + e[x].size]
  BY <1>3
<1> HIDE DEF iter
<1>6. iter[S] = 0 BY <1>1, <1>5
<1> QED BY <1>4, <1>6

\* Of no messages none are visible.
LEMMA NoneVisible ==
  ASSUME NEW e \in Seq(Message), e = <<>>
  PROVE  Visible(e) = <<>>
<1>1. DOMAIN e = {} /\ Len(e) = 0 OBVIOUS
<1>2. PICK S : S = {i \in DOMAIN e : ~e[i].hidden} OBVIOUS
<1>3. S = {} /\ S \in SUBSET (DOMAIN e) BY <1>1, <1>2
<1>4. PICK x : x = Selection(e, S) OBVIOUS
<1>5. PICK f : Takes(x, e, S, f) BY <1>3, <1>4, SelectionTakes
<1>6. x \in Seq(Message) /\ Lists(f, Len(x), S) BY <1>5 DEF Takes
<1>7. PICK k \in Nat : k = Len(x) BY <1>6
<1>8. \A i \in 1 .. k : f[i] \in S BY <1>6, <1>7 DEF Lists
<1>9. k = 0
  <2> SUFFICES ASSUME k # 0 PROVE FALSE OBVIOUS
  <2>1. 1 \in 1 .. k OBVIOUS
  <2> QED BY <1>3, <1>8, <2>1
<1>10. x = e
  <2>1. Len(x) = Len(e) /\ 1 .. Len(x) = {} BY <1>1, <1>7, <1>9
  <2>2. \A i \in 1 .. Len(x) : x[i] = e[i] BY <2>1
  <2> QED BY <1>6, <2>1, <2>2, SeqEqual
<1> QED BY <1>2, <1>4, <1>10 DEF Visible

\* MaybeCompactThenSend keeps the newest message.
LEMMA TailSplit ==
  ASSUME NEW h \in Seq(Message), Len(h) \in Verbatim(h)
  PROVE  Tails(h, SelectTailSplit(h))
<1> PICK k \in Nat : k = Len(h) OBVIOUS
<1>0. /\ DOMAIN h = 1 .. k /\ k \in 1 .. k
      /\ ~h[k].hidden /\ ~h[k].summary /\ h[k].role # "system"
  BY DEF Verbatim
<1> DEFINE visible == {i \in DOMAIN h : ~h[i].hidden}
           B == {0} \cup {i \in visible : h[i].summary \/ h[i].role = "system"}
           border == Max(B)
           from(i) == Size(Visible(SubSeq(h, i, Len(h))))
           tail == {i \in visible : /\ i > border
                                    /\ from(i) <= TailBudget \/ from(i + 1) = 0}
<1>1. SelectTailSplit(h) = IF tail = {} THEN k ELSE Min(tail) - 1 BY DEF SelectTailSplit
<1>2. border \in 0 .. k - 1
  <2>1. B \in SUBSET (0 .. k) /\ B # {} /\ k \notin B BY <1>0
  <2> HIDE DEF B
  <2>2. Max(B) \in B BY <2>1, MaxOf
  <2>3. border = Max(B) OBVIOUS
  <2> HIDE DEF border
  <2>4. border \in 0 .. k /\ border # k BY <2>1, <2>2, <2>3
  <2> QED BY <2>4
<1>3. from(k + 1) = 0
  <2>1. PICK e : e = SubSeq(h, k + 1, k) OBVIOUS
  <2>2. e \in Seq(Message) /\ e = <<>> BY <2>1
  <2>3. Visible(e) = <<>> BY <2>2, NoneVisible
  <2>4. Size(Visible(e)) = 0 BY <2>3, SizeOfNone
  <2> QED BY <2>1, <2>4
<1>4. k \in visible BY <1>0
<1> HIDE DEF B, border, from
<1>5. k \in tail BY <1>0, <1>2, <1>3, <1>4
<1>6. tail \in SUBSET (1 .. k) BY <1>0
<1> HIDE DEF tail, visible
<1>7. tail \in SUBSET Nat /\ tail # {} BY <1>5, <1>6
<1>8. Min(tail) \in tail /\ Min(tail) <= k BY <1>5, <1>7, MinOf
<1>9. Min(tail) \in 1 .. k BY <1>6, <1>8
<1>10. SelectTailSplit(h) = Min(tail) - 1 BY <1>1, <1>7
<1>11. k > SelectTailSplit(h) BY <1>9, <1>10
<1> QED BY <1>11 DEF Tails

\* ForceCompactForOverflow keeps the last prompt.
LEMMA TurnSplit ==
  ASSUME NEW h \in Seq(Message), Ordered(h), LastTurnSplit(h) > 1
  PROVE  Tails(h, LastTurnSplit(h))
<1> PICK k \in Nat : k = Len(h) OBVIOUS
<1>0. DOMAIN h = 1 .. k OBVIOUS
<1> DEFINE turns == {i \in DOMAIN h : ~h[i].hidden /\ h[i].role = "user"}
<1>1. LastTurnSplit(h) = IF turns = {} THEN 0 ELSE Max(turns) - 1 BY DEF LastTurnSplit
<1>2. turns \in SUBSET (0 .. k) /\ turns \in SUBSET (1 .. k) BY <1>0
<1>3. \A i \in turns : i \in Verbatim(h)
  <2> SUFFICES ASSUME NEW i \in turns PROVE i \in Verbatim(h) OBVIOUS
  <2>1. i \in DOMAIN h /\ ~h[i].hidden /\ h[i].role = "user" OBVIOUS
  <2>2. ~h[i].summary BY <2>1 DEF Ordered, Speaks
  <2> QED BY <2>1, <2>2 DEF Verbatim
<1> HIDE DEF turns
<1>4. turns # {} BY <1>1
<1>5. Max(turns) \in turns BY <1>2, <1>4, MaxOf
<1>6. Max(turns) \in 1 .. k BY <1>2, <1>5
<1>7. Max(turns) > LastTurnSplit(h) BY <1>1, <1>4, <1>6
<1> QED BY <1>3, <1>5, <1>7 DEF Tails

-----------------------------------------------------------------------------
(* The steps keep the history in order.                                    *)

\* The history is in order, up to the calls that wait for their results.
InOrder ==
  /\ Fit(hist, lost)
  /\ ~torn /\ phase # "tools" => Settled(hist)
  /\ phase = "tools" =>
       /\ Speaks(hist[Len(hist)]) /\ hist[Len(hist)].calls > 0
       /\ ~torn => SettledTo(hist, Len(hist) - 1)
  /\ phase \in {"request", "summary"} => Awaits(hist[Len(hist)]) /\ Tails(hist, split)
  /\ phase = "claude" =>
       /\ Claims(hist[Len(hist)]) /\ Covered(before, lost)
       /\ Len(run.pending) <= 1
       /\ \A i \in DOMAIN run.pending :
            /\ FromClaude(run.pending[i]) /\ run.pending[i].role = "assistant"
            /\ ~run.pending[i].hidden /\ ~run.pending[i].summary

\* What a step of an API turn leaves.
Leaves(h, l, to, s) ==
  /\ Fit(h, l) /\ (~torn => Settled(h))
  /\ to \in {"request", "summary", "idle"}
  /\ to # "idle" => Awaits(h[Len(h)]) /\ Tails(h, s)

\* The history is in order then.
LEMMA LeavesInOrder ==
  ASSUME Leaves(hist', lost', phase', split'), torn' = torn
  PROVE  InOrder'
BY DEF Leaves, InOrder

\* A history whose turn waits for a model.
Waits(b, h, l) ==
  /\ Ready(b, h) /\ Fit(h, l) /\ (~torn => Settled(h))
  /\ Awaits(h[Len(h)])

\* A turn that waits has begun.
LEMMA ReadyBegun ==
  ASSUME NEW b, NEW h, Ready(b, h)
  PROVE  h \in Seq(Message) /\ Len(h) > 0 /\ Len(b) \in 0 .. Len(h) /\ Len(b) < Len(h)
<1> PICK n \in Nat : n = Len(b) BY DEF Ready
<1> PICK k \in Nat : k = Len(h) BY DEF Ready
<1>1. n < k BY DEF Ready, Grown
<1> QED BY <1>1 DEF Ready

\* It fails.
LEMMA FailLeaves ==
  ASSUME NEW b, NEW h, NEW l, NEW s, Ready(b, h), Fit(h, l), ~torn => Settled(h)
  PROVE  Leaves(RolledBack(h), l \cup LostBy(h), "idle", s)
<1>a. PICK n : n = Len(b) OBVIOUS
<1>b. PICK r : r = RolledBack(h) OBVIOUS
<1>c. PICK l2 : l2 = l \cup LostBy(h) OBVIOUS
<1>1. h \in Seq(Message) /\ n \in 0 .. Len(h) /\ n < Len(h) BY <1>a, ReadyBegun
<1>2. r = SubSeq(h, 1, n) BY <1>a, <1>b, Back DEF Ready
<1>3. Covered(r, l2) BY <1>b, <1>c DEF Covered, LostBy
<1>4. h[n + 1].role = "user" BY <1>a DEF Ready, Grown
<1>5. Fit(r, l2) BY <1>1, <1>2, <1>3, FitBack
<1>6. Settled(h) => Settled(r) BY <1>1, <1>2, <1>3, <1>4, FitBack
<1> QED BY <1>b, <1>c, <1>5, <1>6 DEF Leaves

\* Send.
LEMMA SendLeaves ==
  ASSUME NEW b, NEW h, NEW key \in BOOLEAN, Waits(b, h, lost), Send(h, key), split' = 0,
         Tails(h, 0)
  PROVE  Leaves(hist', lost', phase', split')
<1>1. CASE key
  <2>1. hist' = h /\ lost' = lost /\ phase' = "request" BY <1>1 DEF Send, Goes
  <2> QED BY <2>1 DEF Waits, Leaves
<1>2. CASE ~key
  <2>1. hist' = RolledBack(h) /\ lost' = lost \cup LostBy(h) /\ phase' = "idle"
    BY <1>2 DEF Send, Finalize
  <2>2. Leaves(RolledBack(h), lost \cup LostBy(h), "idle", split') BY FailLeaves DEF Waits
  <2> QED BY <2>1, <2>2
<1> QED BY <1>1, <1>2

\* ApplyCompaction.
LEMMA ApplyLeaves ==
  ASSUME NEW b, NEW h, NEW n \in 0 .. Len(h), NEW success \in BOOLEAN, NEW key \in BOOLEAN,
         Waits(b, h, lost), Tails(h, n), ApplyCompaction(h, n, success, key)
  PROVE  Leaves(hist', lost', phase', split')
<1>a. PICK c : c = Compacted(h, n, success) OBVIOUS
<1>b. PICK l : l = lost \cup Forgets(h, n, success) OBVIOUS
<1>c. l = lost \cup (IF success THEN PassedOver(SubSeq(h, 1, n)) ELSE Seen(SubSeq(h, 1, n)))
  BY <1>b DEF Forgets
<1>1. b \in Seq(Message) /\ h \in Seq(Message) /\ Len(h) > 0 /\ Ready(b, h)
  BY ReadyBegun DEF Waits, Ready
<1>2. /\ Fit(c, l) /\ (Settled(h) => Settled(c)) /\ c \in Seq(Message) /\ Awaits(c[Len(c)])
      /\ Tails(c, 0)
  BY <1>a, <1>b, <1>1, FitCompacted DEF Waits
<1>3. Ready(b, c)
  <2>1. Quiet(h, c) /\ Replies(h, c) BY <1>a, <1>1, CompactedQuiet
  <2>2. Keeps(h, c) BY <2>1 DEF Quiet
  <2>3. Grown(b, c) BY <1>1, <2>2, GrownOn DEF Ready
  <2>4. Answered(b, c) BY <1>1, <2>1, AnsweredOn DEF Ready
  <2> QED BY <1>1, <1>2, <2>3, <2>4 DEF Ready
<1>4. ~torn => Settled(c) BY <1>2 DEF Waits
<1>5. CASE key
  <2>1. hist' = c /\ lost' = l /\ phase' = "request" /\ split' = 0
    BY <1>a, <1>c, <1>5 DEF ApplyCompaction, Goes
  <2> QED BY <2>1, <1>2, <1>4 DEF Leaves
<1>6. CASE ~key
  <2>1. hist' = RolledBack(c) /\ lost' = l \cup LostBy(c) /\ phase' = "idle"
    BY <1>a, <1>c, <1>6 DEF ApplyCompaction, Finalize
  <2>2. Leaves(RolledBack(c), l \cup LostBy(c), "idle", split') BY <1>2, <1>3, <1>4, FailLeaves
  <2> QED BY <2>1, <2>2
<1> QED BY <1>5, <1>6

\* RunSummaryThenSend.
LEMMA SummaryLeaves ==
  ASSUME NEW b, NEW h, NEW n \in 0 .. Len(h), NEW key \in BOOLEAN, Waits(b, h, lost),
         Tails(h, n), RunSummaryThenSend(h, n, key)
  PROVE  Leaves(hist', lost', phase', split')
<1>1. CASE key
  <2>1. hist' = h /\ lost' = lost /\ phase' = "summary" /\ split' = n
    BY <1>1 DEF RunSummaryThenSend, Goes
  <2> QED BY <2>1 DEF Waits, Leaves
<1>2. CASE ~key
  <2> PICK f \in BOOLEAN : f = FALSE OBVIOUS
  <2>1. ApplyCompaction(h, n, f, key) BY <1>2 DEF RunSummaryThenSend
  <2> QED BY <2>1, ApplyLeaves
<1> QED BY <1>1, <1>2

\* StartCompletion.
LEMMA CompletionLeaves ==
  ASSUME NEW b, NEW h, NEW key \in BOOLEAN, Waits(b, h, lost), Len(h) \in Verbatim(h),
         split = 0, StartCompletion(h, key)
  PROVE  Leaves(hist', lost', phase', split')
<1>1. CASE MustCompact(h)
  <2>1. RunSummaryThenSend(h, SelectTailSplit(h), key) BY <1>1 DEF StartCompletion
  <2>2. h \in Seq(Message) BY DEF Waits, Ready
  <2>3. SelectTailSplit(h) \in 0 .. Len(h) BY <2>2, Splits
  <2>4. Tails(h, SelectTailSplit(h)) BY <2>2, TailSplit
  <2> QED BY <2>1, <2>3, <2>4, SummaryLeaves
<1>2. CASE ~MustCompact(h)
  <2>1. Send(h, key) /\ split' = 0 BY <1>2 DEF StartCompletion
  <2>2. Len(h) > 0
    <3>1. h \in Seq(Message) BY DEF Waits, Ready
    <3> QED BY <3>1 DEF Verbatim
  <2>3. Tails(h, 0) BY <2>2 DEF Tails
  <2> QED BY <2>1, <2>3, SendLeaves
<1> QED BY <1>1, <1>2

\* A prompt suits any history; a turn begins with it.
LEMMA PromptOn ==
  ASSUME NEW b \in Seq(Message), NEW claude \in BOOLEAN, NEW t, NEW p, NEW h, NEW l,
         IsPlain(p, "user", claude, t), h = Append(b, p), Fit(b, l), ~torn => Settled(b)
  PROVE  /\ Ready(b, h) /\ Fit(h, l) /\ (~torn => Settled(h))
         /\ Awaits(h[Len(h)]) /\ Claims(h[Len(h)]) /\ Len(h) \in Verbatim(h)
<1>1. p \in Message /\ p.role = "user" /\ p.session = NoSession /\ ~p.hidden /\ ~p.summary
  BY DEF IsPlain
<1>2. OneMore(b, p, h)
  <2>1. OneMore(b, p, Append(b, p)) BY <1>1, Appended
  <2> QED BY <2>1
<1>3. ~Speaks(p) /\ ~Answers(p) /\ ~FromClaude(p) /\ Awaits(p) /\ Claims(p)
  BY <1>1 DEF Speaks, Answers, FromClaude, Awaits, Claims
<1>4. Suits(b, p) BY <1>1, <1>3 DEF Suits
<1>5. Fit(h, l) BY <1>2, <1>4, FitOn
<1>6. ~torn => Settled(h) BY <1>2, <1>3, <1>4, FitOn
<1>7. h[Len(h)] = p BY <1>2 DEF OneMore
<1>8. Ready(b, h)
  <2>a. PICK n \in Nat : n = Len(b) OBVIOUS
  <2>1. h \in Seq(Message) /\ Len(h) = n + 1 /\ h[n + 1] = p /\ \A i \in 1 .. n : h[i] = b[i]
    BY <1>2, <2>a DEF OneMore, Continues
  <2>2. Grown(b, h)
    <3>1. Len(b) < Len(h) BY <2>a, <2>1
    <3>2. \A i \in 1 .. Len(b) : h[i] = b[i] BY <2>a, <2>1
    <3>3. h[Len(b) + 1] = p BY <2>a, <2>1
    <3> QED BY <3>1, <3>2, <3>3, <1>1 DEF Grown
  <2>3. Len(b) + 2 .. Len(h) = {} BY <2>a, <2>1
  <2>4. Answered(b, h) BY <2>3 DEF Answered
  <2> QED BY <2>1, <2>2, <2>4 DEF Ready
<1>9. Len(h) \in Verbatim(h)
  <2>1. h \in Seq(Message) /\ Len(h) = Len(b) + 1 BY <1>2 DEF OneMore, Continues
  <2>2. Len(h) \in DOMAIN h BY <2>1
  <2> QED BY <1>1, <1>7, <2>2 DEF Verbatim
<1> QED BY <1>3, <1>5, <1>6, <1>7, <1>8, <1>9

\* The new prompt.
LEMMA PromptIs ==
  ASSUME Shaped, ids + 1 < MaxIds, NEW claude \in BOOLEAN
  PROVE  IsPlain(Prompt(claude), "user", claude, {ids + 1})
<1>1. {ids + 1} \in SUBSET Id BY ConversationAssumption DEF Shaped, Id
<1>2. IsPlain(Plain("user", claude, {ids + 1}), "user", claude, {ids + 1})
  BY <1>1, PlainMessage
<1> QED BY <1>2 DEF Prompt

\* StartTurn.
LEMMA StartTurnInOrder ==
  ASSUME IInv, InOrder, NEW key \in BOOLEAN, StartTurn(key)
  PROVE  InOrder'
<1>0. /\ hist \in Seq(Message) /\ phase = "idle" /\ ids + 1 < MaxIds /\ Shaped
      /\ torn' = torn /\ split = 0
  BY DEF IInv, Shaped, StartTurn
<1>1. Fit(hist, lost) /\ (~torn => Settled(hist)) BY <1>0 DEF InOrder
<1>a. PICK p : p = Prompt(FALSE) OBVIOUS
<1>b. PICK h : h = Append(hist, p) OBVIOUS
<1>2. Waits(hist, h, lost) /\ Len(h) \in Verbatim(h)
  <2>a. PICK f \in BOOLEAN : f = FALSE OBVIOUS
  <2>1. IsPlain(p, "user", f, {ids + 1}) BY <1>0, <1>a, <2>a, PromptIs
  <2> QED BY <1>0, <1>1, <1>b, <2>1, PromptOn DEF Waits
<1>3. StartCompletion(h, key) BY <1>a, <1>b DEF StartTurn
<1>4. Leaves(hist', lost', phase', split') BY <1>0, <1>2, <1>3, CompletionLeaves
<1> QED BY <1>0, <1>4, LeavesInOrder

\* StartTurnOnClaude.
LEMMA StartTurnOnClaudeInOrder ==
  ASSUME IInv, InOrder, NEW installed \in BOOLEAN, StartTurnOnClaude(installed)
  PROVE  InOrder'
<1>0. /\ hist \in Seq(Message) /\ phase = "idle" /\ ids + 1 < MaxIds /\ Shaped
      /\ torn' = torn /\ lost' = lost
  BY DEF IInv, Shaped, StartTurnOnClaude
<1>1. Fit(hist, lost) /\ (~torn => Settled(hist)) BY <1>0 DEF InOrder
<1>2. CASE ~installed
  <2>1. hist' = hist /\ phase' = "idle" BY <1>2 DEF StartTurnOnClaude, Finalize
  <2>2. Leaves(hist', lost', phase', split') BY <1>0, <1>1, <2>1 DEF Leaves
  <2> QED BY <1>0, <2>2, LeavesInOrder
<1>3. CASE installed
  <2>a. PICK p : p = Prompt(TRUE) OBVIOUS
  <2>b. PICK h : h = Append(hist, p) OBVIOUS
  <2>1. Fit(h, lost) /\ (~torn => Settled(h)) /\ Claims(h[Len(h)])
    <3>a. PICK f \in BOOLEAN : f = TRUE OBVIOUS
    <3>1. IsPlain(p, "user", f, {ids + 1}) BY <1>0, <2>a, <3>a, PromptIs
    <3> QED BY <1>0, <1>1, <2>b, <3>1, PromptOn
  <2>2. StartClaudeTurn(h, FALSE) BY <1>3, <2>a, <2>b DEF StartTurnOnClaude
  <2>3. hist' = h /\ phase' = "claude" /\ before' = hist /\ run'.pending = <<>>
    BY <1>0, <2>2 DEF StartClaudeTurn, Goes
  <2>4. Covered(hist, lost) BY <1>1 DEF Fit
  <2>5. Len(run'.pending) <= 1 /\ DOMAIN run'.pending = {} BY <2>3
  <2> QED BY <1>0, <2>1, <2>3, <2>4, <2>5 DEF InOrder
<1> QED BY <1>2, <1>3

\* In a turn on an API model.
LEMMA InOrderTurn ==
  ASSUME IInv, InOrder, phase \in {"request", "summary"}
  PROVE  Waits(before, hist, lost) /\ Tails(hist, split)
<1>1. Ready(before, hist) BY InTurn
<1> QED BY <1>1 DEF InOrder, Waits

\* RequestOverflows.
LEMMA RequestOverflowsInOrder ==
  ASSUME IInv, InOrder, NEW key \in BOOLEAN, RequestOverflows(key)
  PROVE  InOrder'
<1> USE DEF RequestOverflows
<1>1. Waits(before, hist, lost) BY InOrderTurn
<1>2. LastTurnSplit(hist) \in 0 .. Len(hist) BY <1>1, Splits DEF Waits, Ready
<1>3. Tails(hist, LastTurnSplit(hist)) BY <1>1, TurnSplit DEF Waits, Ready, Fit
<1>4. Leaves(hist', lost', phase', split') BY <1>1, <1>2, <1>3, SummaryLeaves
<1> QED BY <1>4, LeavesInOrder

\* SummaryDone.
LEMMA SummaryDoneInOrder ==
  ASSUME IInv, InOrder, NEW success \in BOOLEAN, NEW key \in BOOLEAN,
         SummaryDone(success, key)
  PROVE  InOrder'
<1> USE DEF SummaryDone
<1>1. Waits(before, hist, lost) /\ Tails(hist, split) BY InOrderTurn
<1>2. split \in 0 .. Len(hist) BY DEF IInv, Shaped
<1>3. Leaves(hist', lost', phase', split') BY <1>1, <1>2, ApplyLeaves
<1> QED BY <1>3, LeavesInOrder

\* RequestCancelled and SummaryCancelled.
LEMMA CancelledInOrder ==
  ASSUME IInv, InOrder, RequestCancelled \/ SummaryCancelled
  PROVE  InOrder'
<1>1. /\ phase \in {"request", "summary"} /\ hist' = hist /\ lost' = lost /\ phase' = "idle"
      /\ torn' = torn
  BY DEF RequestCancelled, SummaryCancelled, Finalize
<1>2. Waits(before, hist, lost) BY <1>1, InOrderTurn
<1>3. Leaves(hist', lost', phase', split') BY <1>1, <1>2 DEF Waits, Leaves
<1> QED BY <1>1, <1>3, LeavesInOrder

\* RequestFails.
LEMMA RequestFailsInOrder ==
  ASSUME IInv, InOrder, RequestFails
  PROVE  InOrder'
<1>1. /\ phase = "request" /\ hist' = RolledBack(hist) /\ lost' = lost \cup LostBy(hist)
      /\ phase' = "idle" /\ torn' = torn
  BY DEF RequestFails, Finalize
<1>2. Waits(before, hist, lost) BY <1>1, InOrderTurn
<1>3. Leaves(RolledBack(hist), lost \cup LostBy(hist), "idle", split')
  BY <1>2, FailLeaves DEF Waits
<1>4. Leaves(hist', lost', phase', split') BY <1>1, <1>3
<1> QED BY <1>1, <1>4, LeavesInOrder

\* A message of an API model with n calls.
IsReply(m, n) ==
  /\ m \in Message /\ m.role = "assistant" /\ ~m.claude /\ ~m.hidden /\ ~m.summary
  /\ m.calls = n

\* What an API model says.
LEMMA ReplyOn ==
  ASSUME NEW h \in Seq(Message), NEW l, NEW n \in 0 .. MaxCalls, NEW m, NEW g,
         IsReply(m, n), g = Append(h, m), Fit(h, l), Len(h) > 0, Awaits(h[Len(h)])
  PROVE  /\ Fit(g, l) /\ (n = 0 /\ Settled(h) => Settled(g))
         /\ Len(g) = Len(h) + 1 /\ g[Len(g)] = m /\ Speaks(m) /\ m.calls = n
         /\ Settled(h) => SettledTo(g, Len(g) - 1)
<1>1. /\ m \in Message /\ m.role = "assistant" /\ ~m.claude /\ ~m.hidden /\ ~m.summary
      /\ m.calls = n
  BY DEF IsReply
<1>2. OneMore(h, m, g)
  <2>1. OneMore(h, m, Append(h, m)) BY <1>1, Appended
  <2> QED BY <2>1
<1>3. Speaks(m) /\ ~Answers(m) /\ ~FromClaude(m) BY <1>1 DEF Speaks, Answers, FromClaude
<1>4. Suits(h, m) BY <1>1, <1>3 DEF Suits
<1>5. Fit(g, l) BY <1>2, <1>4, FitOn
<1>6. n = 0 /\ Settled(h) => Settled(g) BY <1>1, <1>2, <1>4, FitOn
<1>7. Len(g) = Len(h) + 1 /\ g[Len(g)] = m /\ \A i \in 1 .. Len(h) : g[i] = h[i]
  BY <1>2 DEF OneMore, Continues
<1>8. ASSUME Settled(h) PROVE SettledTo(g, Len(g) - 1)
  <2>1. SettledTo(h, Len(h)) BY <1>8, SettledAll
  <2>2. Len(g) - 1 = Len(h) BY <1>7
  <2> SUFFICES ASSUME NEW i \in 1 .. Len(h), Speaks(g[i]), NEW k \in 1 .. g[i].calls
               PROVE  i + k \in 1 .. Len(h) /\ Answers(g[i + k])
    BY <2>2 DEF SettledTo
  <2>3. Speaks(h[i]) /\ k \in 1 .. h[i].calls BY <1>7
  <2>4. i + k \in 1 .. Len(h) /\ Answers(h[i + k]) BY <2>1, <2>3 DEF SettledTo
  <2> QED BY <2>4, <1>7
<1> QED BY <1>1, <1>3, <1>5, <1>6, <1>7, <1>8

\* Reply.
LEMMA ReplyInOrder ==
  ASSUME IInv, InOrder, NEW empty \in BOOLEAN, Reply(empty)
  PROVE  InOrder'
<1>0. /\ hist \in Seq(Message) /\ phase = "request" /\ lost' = lost /\ torn' = torn
      /\ ids \in 0 .. MaxIds /\ (~empty => ids < MaxIds)
  BY DEF IInv, Shaped, Reply
<1>1. Waits(before, hist, lost) BY <1>0, InOrderTurn
<1>2. CASE empty
  <2>1. hist' = hist /\ phase' = "idle" BY <1>2 DEF Reply, Finalize
  <2>2. Leaves(hist', lost', phase', split') BY <1>0, <1>1, <2>1 DEF Waits, Leaves
  <2> QED BY <1>0, <2>2, LeavesInOrder
<1>3. CASE ~empty
  <2>a. PICK p : p = Plain("assistant", FALSE, {ids + 1}) OBVIOUS
  <2>b. PICK m : m = [p EXCEPT !.calls = 0] OBVIOUS
  <2>c. PICK g : g = Append(hist, m) OBVIOUS
  <2>1. IsPlain(p, "assistant", FALSE, {ids + 1})
    <3>1. {ids + 1} \in SUBSET Id BY <1>0, <1>3, ConversationAssumption DEF Id
    <3> QED BY <2>a, <3>1, PlainMessage
  <2>2. m = p
    <3>1. p.calls = 0 /\ p \in Message BY <2>1 DEF IsPlain
    <3> QED BY <2>b, <3>1 DEF Message
  <2>3. hist' = g /\ phase' = "idle" BY <1>3, <2>a, <2>2, <2>c DEF Reply, Finalize
  <2>4. 0 \in 0 .. MaxCalls /\ IsReply(m, 0)
    <3>1. 0 \in 0 .. MaxCalls BY ConversationAssumption
    <3>2. IsReply(m, 0) BY <2>1, <2>2 DEF IsPlain, IsReply
    <3> QED BY <3>1, <3>2
  <2>5. Len(hist) > 0 BY <1>1, ReadyBegun DEF Waits
  <2>6. Fit(g, lost) /\ (Settled(hist) => Settled(g))
    <3>1. Fit(hist, lost) /\ Awaits(hist[Len(hist)]) BY <1>1 DEF Waits
    <3> QED BY <3>1, <1>0, <2>c, <2>4, <2>5, ReplyOn
  <2>7. Leaves(hist', lost', phase', split') BY <1>0, <1>1, <2>3, <2>6 DEF Waits, Leaves
  <2> QED BY <1>0, <2>7, LeavesInOrder
<1> QED BY <1>2, <1>3

\* ToolCalls.
LEMMA ToolCallsInOrder ==
  ASSUME IInv, InOrder, NEW n \in 1 .. MaxCalls, ToolCalls(n)
  PROVE  InOrder'
<1>0. /\ hist \in Seq(Message) /\ phase = "request" /\ lost' = lost /\ torn' = torn
      /\ ids \in 0 .. MaxIds /\ ids + n < MaxIds
  BY DEF IInv, Shaped, ToolCalls
<1>1. Waits(before, hist, lost) BY <1>0, InOrderTurn
<1>a. PICK p : p = Plain("assistant", FALSE, {ids + 1}) OBVIOUS
<1>b. PICK m : m = [p EXCEPT !.calls = n] OBVIOUS
<1>c. PICK g : g = Append(hist, m) OBVIOUS
<1>2. IsPlain(p, "assistant", FALSE, {ids + 1})
  <2>1. {ids + 1} \in SUBSET Id BY <1>0, ConversationAssumption DEF Id
  <2> QED BY <1>a, <2>1, PlainMessage
<1>3. hist' = g /\ phase' = "tools" BY <1>a, <1>b, <1>c DEF ToolCalls, Goes
<1>4. n \in 0 .. MaxCalls /\ n > 0 /\ IsReply(m, n)
  <2>1. n \in 0 .. MaxCalls /\ n > 0 OBVIOUS
  <2>2. IsReply(m, n) BY <1>2, <1>b, <2>1 DEF IsPlain, IsReply, Message
  <2> QED BY <2>1, <2>2
<1>5. Len(hist) > 0 BY <1>1, ReadyBegun DEF Waits
<1>6. /\ Fit(g, lost) /\ g[Len(g)] = m /\ Speaks(m) /\ m.calls = n
      /\ Settled(hist) => SettledTo(g, Len(g) - 1)
  <2>1. Fit(hist, lost) /\ Awaits(hist[Len(hist)]) BY <1>1 DEF Waits
  <2>2. Fit(g, lost) BY <2>1, <1>0, <1>c, <1>4, <1>5, ReplyOn
  <2>3. g[Len(g)] = m /\ Speaks(m) /\ m.calls = n
    BY <2>1, <1>0, <1>c, <1>4, <1>5, ReplyOn
  <2>4. Settled(hist) => SettledTo(g, Len(g) - 1)
    BY <2>1, <1>0, <1>c, <1>4, <1>5, ReplyOn
  <2> QED BY <2>2, <2>3, <2>4
<1>7. ~torn => SettledTo(g, Len(g) - 1) BY <1>1, <1>6 DEF Waits
<1> QED BY <1>0, <1>3, <1>4, <1>6, <1>7 DEF InOrder

\* BatchDone.
LEMMA BatchDoneInOrder ==
  ASSUME IInv, InOrder, NEW size \in OutputSize, NEW stopped \in BOOLEAN,
         NEW key \in BOOLEAN, BatchDone(size, stopped, key)
  PROVE  InOrder'
<1>0. /\ Shaped /\ hist \in Seq(Message) /\ Len(hist) > 0 /\ phase = "tools" /\ torn' = torn
      /\ split = 0
  BY DEF IInv, Shaped, BatchDone
<1>1. /\ Fit(hist, lost) /\ Speaks(hist[Len(hist)]) /\ hist[Len(hist)].calls > 0
      /\ ~torn => SettledTo(hist, Len(hist) - 1)
  BY <1>0 DEF InOrder
<1>a. PICK s : s = Results(size) OBVIOUS
<1>b. PICK g : g = hist \o s OBVIOUS
<1>2. /\ Last(hist).calls \in Nat /\ s \in Seq(Message) /\ Len(s) = Last(hist).calls
      /\ \A i \in 1 .. Len(s) :
           /\ s[i].role = "tool" /\ ~s[i].claude /\ ~s[i].hidden /\ ~s[i].summary
           /\ s[i].session = NoSession
  BY <1>0, <1>a, ResultsAre
<1>c. PICK c \in Nat \ {0} : c = hist[Len(hist)].calls BY <1>1, <1>2 DEF Last
<1>3. Len(s) = c BY <1>2, <1>c DEF Last
<1>4. \A i \in 1 .. c : Answers(s[i]) /\ ~s[i].hidden /\ ~s[i].summary
  BY <1>2, <1>3 DEF Answers
<1>5. More(hist, s, g)
  <2>1. More(hist, s, hist \o s) BY <1>0, <1>2, Joined
  <2> QED BY <2>1, <1>b
<1>6. /\ Fit(g, lost) /\ (SettledTo(hist, Len(hist) - 1) => Settled(g))
      /\ g \in Seq(Message) /\ Len(g) > 0 /\ Awaits(g[Len(g)]) /\ Len(g) \in Verbatim(g)
  BY <1>0, <1>1, <1>2, <1>c, <1>3, <1>4, <1>5, FitResults
<1>7. ~torn => Settled(g) BY <1>1, <1>6
<1>8. CASE stopped
  <2>1. hist' = g /\ phase' = "idle" /\ lost' = lost
    BY <1>8, <1>a, <1>b DEF BatchDone, Finalize
  <2>2. Leaves(hist', lost', phase', split') BY <1>6, <1>7, <2>1 DEF Leaves
  <2> QED BY <1>0, <2>2, LeavesInOrder
<1>9. CASE ~stopped
  <2>1. StartCompletion(g, key) BY <1>9, <1>a, <1>b DEF BatchDone
  <2>2. Ready(before, g)
    <3>1. Ready(before, hist) BY <1>0, InTurn
    <3>2. \A i \in Len(hist) + 1 .. Len(g) :
            /\ g[i].role = "tool" /\ ~g[i].claude /\ ~g[i].hidden
            /\ g[i].session = NoSession
      <4>1. \A i \in Len(hist) + 1 .. Len(g) :
              i - Len(hist) \in DOMAIN s /\ g[i] = s[i - Len(hist)]
        BY <1>5 DEF More
      <4>2. DOMAIN s = 1 .. Len(s) BY <1>2
      <4> QED BY <4>1, <4>2, <1>2
    <3>3. Continues(hist, g) BY <1>5 DEF More
    <3>4. Replies(hist, g) BY <3>2 DEF Replies
    <3> QED BY <3>1, <3>2, <3>3, <3>4, RecordOn
  <2>3. Waits(before, g, lost) BY <1>6, <1>7, <2>2 DEF Waits
  <2>4. Leaves(hist', lost', phase', split') BY <1>0, <1>6, <2>1, <2>3, CompletionLeaves
  <2> QED BY <1>0, <2>4, LeavesInOrder
<1> QED BY <1>8, <1>9

\* In a run, with what it had kept back recorded.
LEMMA FlushedInOrder ==
  ASSUME IInv, InOrder, phase = "claude"
  PROVE  LET h == hist \o run.pending
         IN  /\ h \in Seq(Message) /\ Len(h) > 0
             /\ Fit(h, lost) /\ (~torn => Settled(h)) /\ Claims(h[Len(h)])
<1>a. PICK h : h = hist \o run.pending OBVIOUS
<1>b. PICK w : w = run.pending OBVIOUS
<1>0. /\ hist \in Seq(Message) /\ before \in Seq(Message) /\ w \in Seq(Message)
      /\ Len(hist) > 0
  <2>1. /\ hist \in Seq(Message) /\ before \in Seq(Message) /\ run \in RunType
        /\ Grown(before, hist)
    BY DEF IInv, Shaped, Turn
  <2>2. w \in Seq(Message) BY <1>b, <2>1 DEF RunType
  <2>3. Len(before) \in Nat /\ Len(hist) \in Nat /\ Len(before) < Len(hist)
    BY <2>1 DEF Grown
  <2> QED BY <2>1, <2>2, <2>3
<1>1. /\ Fit(hist, lost) /\ (~torn => Settled(hist)) /\ Claims(hist[Len(hist)])
      /\ Len(w) <= 1
      /\ \A i \in DOMAIN w : FromClaude(w[i]) /\ w[i].role = "assistant"
                             /\ ~w[i].hidden /\ ~w[i].summary
  BY <1>b DEF InOrder
<1>2. More(hist, w, h)
  <2>1. More(hist, w, hist \o w) BY <1>0, Joined
  <2> QED BY <2>1, <1>a, <1>b
<1>c. PICK k \in Nat : k = Len(hist) BY <1>0
<1>3. /\ h \in Seq(Message) /\ Len(h) = k + Len(w) /\ \A i \in 1 .. k : h[i] = hist[i]
  BY <1>2, <1>c DEF More, Continues
<1>4. CASE Len(w) = 0
  <2>1. Len(h) = Len(hist) /\ \A i \in 1 .. Len(h) : h[i] = hist[i] BY <1>c, <1>3, <1>4
  <2>2. h = hist BY <1>0, <1>3, <2>1, SeqEqual
  <2> QED BY <1>a, <1>0, <1>1, <2>2
<1>5. CASE Len(w) = 1
  <2>a. PICK m : m = w[1] OBVIOUS
  <2>1. 1 \in DOMAIN w BY <1>0, <1>5
  <2>2. m \in Message /\ FromClaude(m) /\ m.role = "assistant" /\ ~m.hidden /\ ~m.summary
    BY <1>0, <1>1, <2>a, <2>1
  <2>3. OneMore(hist, m, h)
    <3>1. Len(h) = k + 1 BY <1>3, <1>5
    <3>2. h[k + 1] = m
      <4>1. k + 1 \in k + 1 .. Len(h) /\ (k + 1) - k = 1 BY <3>1
      <4>2. h[k + 1] = w[(k + 1) - Len(hist)] BY <4>1, <1>2, <1>c DEF More
      <4> QED BY <4>1, <4>2, <1>c, <2>a
    <3>3. \A i \in k + 1 .. Len(h) : i = k + 1 BY <3>1
    <3>4. Continues(hist, h) BY <1>2 DEF More
    <3> QED BY <3>1, <3>2, <3>3, <3>4, <1>c DEF OneMore
  <2>4. ~Speaks(m) /\ ~Answers(m) BY <2>2 DEF FromClaude, Speaks, Answers
  <2>5. Suits(hist, m) BY <1>0, <1>1, <2>2, <2>4 DEF Suits
  <2>6. Fit(h, lost) BY <1>0, <1>1, <2>3, <2>5, FitOn
  <2>7. Settled(hist) => Settled(h) BY <1>0, <1>1, <2>3, <2>4, <2>5, FitOn
  <2>8. Len(h) > 0 /\ h[Len(h)] = m BY <2>3, <1>0 DEF OneMore
  <2>9. Claims(m) BY <2>2 DEF Claims
  <2> QED BY <1>a, <1>1, <1>3, <2>6, <2>7, <2>8, <2>9
<1>6. Len(w) = 0 \/ Len(w) = 1
  <2>a. PICK e \in Nat : e = Len(w) BY <1>0
  <2>1. e <= 1 BY <1>1, <2>a
  <2>2. e = 0 \/ e = 1 BY <2>1
  <2> QED BY <2>a, <2>2
<1> QED BY <1>4, <1>5, <1>6

\* ClaudeInit.
LEMMA ClaudeInitInOrder ==
  ASSUME IInv, InOrder, NEW s \in Session, ClaudeInit(s)
  PROVE  InOrder'
<1>1. /\ phase = "claude" /\ run \in RunType /\ hist' = hist /\ phase' = phase
      /\ before' = before /\ lost' = lost /\ torn' = torn
      /\ run' = [run EXCEPT !.session = s]
  BY DEF IInv, Shaped, ClaudeInit
<1>2. run'.pending = run.pending BY <1>1 DEF RunType
<1> QED BY <1>1, <1>2 DEF InOrder

\* ClaudeMessage.
LEMMA ClaudeMessageInOrder ==
  ASSUME IInv, InOrder, NEW n \in 0 .. MaxCalls, ClaudeMessage(n)
  PROVE  InOrder'
<1>0. /\ phase = "claude" /\ run \in RunType /\ phase' = phase /\ before' = before
      /\ lost' = lost /\ torn' = torn /\ ids \in 0 .. MaxIds /\ ids + n < MaxIds
      /\ run.session # NoSession
  BY DEF IInv, Shaped, ClaudeMessage
<1>a. PICK h : h = hist \o run.pending OBVIOUS
<1>1. Fit(h, lost) /\ (~torn => Settled(h)) /\ Claims(h[Len(h)])
  BY <1>0, <1>a, FlushedInOrder
<1>b. PICK s \in Session : s = run.session BY <1>0, RunFields
<1>c. PICK p : p = Plain("assistant", TRUE, {ids + 1}) OBVIOUS
<1>2. IsPlain(p, "assistant", TRUE, {ids + 1})
  <2>1. {ids + 1} \in SUBSET Id BY <1>0, ConversationAssumption DEF Id
  <2> QED BY <1>c, <2>1, PlainMessage
<1>d. PICK q : q = [p EXCEPT !.calls = n] OBVIOUS
<1>e. PICK m : m = [q EXCEPT !.session = s] OBVIOUS
<1>3. q \in Message /\ q.claude = TRUE /\ ~q.hidden /\ ~q.summary /\ q.role = "assistant"
  BY <1>2, <1>d DEF IsPlain, Message
<1>4. m \in Message /\ m.claude = TRUE /\ ~m.hidden /\ ~m.summary /\ m.role = "assistant"
  BY <1>3, <1>e DEF Message
<1>5. m = [p EXCEPT !.calls = n, !.session = s] BY <1>d, <1>e
<1>6. <<m>> \in Seq(Message) BY <1>4
<1>f. PICK w \in Seq(Message) : w = <<m>> BY <1>6
<1>7. hist' = h /\ run'.pending = w
  BY <1>0, <1>a, <1>b, <1>c, <1>5, <1>f DEF ClaudeMessage, RunType
<1>8. Len(w) = 1 /\ DOMAIN w = {1} /\ w[1] = m BY <1>f
<1>9. FromClaude(m) BY <1>4 DEF FromClaude
<1>10. \A i \in DOMAIN w : FromClaude(w[i]) /\ w[i].role = "assistant"
                           /\ ~w[i].hidden /\ ~w[i].summary
  BY <1>4, <1>8, <1>9
<1>11. Len(w) <= 1 BY <1>8
<1>12. Covered(before, lost) BY <1>0 DEF InOrder
<1> QED BY <1>0, <1>1, <1>7, <1>10, <1>11, <1>12 DEF InOrder

\* ClaudeToolResult.
LEMMA ClaudeToolResultInOrder ==
  ASSUME IInv, InOrder, NEW size \in OutputSize, ClaudeToolResult(size)
  PROVE  InOrder'
<1>0. /\ phase = "claude" /\ run \in RunType /\ phase' = phase /\ before' = before
      /\ lost' = lost /\ torn' = torn /\ ids \in 0 .. MaxIds /\ ids < MaxIds
  BY DEF IInv, Shaped, ClaudeToolResult
<1>a. PICK h : h = hist \o run.pending OBVIOUS
<1>1. /\ h \in Seq(Message) /\ Len(h) > 0 /\ Fit(h, lost) /\ (~torn => Settled(h))
      /\ Claims(h[Len(h)])
  BY <1>0, <1>a, FlushedInOrder
<1>b. PICK p : p = Plain("tool", TRUE, {ids + 1}) OBVIOUS
<1>2. IsPlain(p, "tool", TRUE, {ids + 1})
  <2>1. {ids + 1} \in SUBSET Id BY <1>0, ConversationAssumption DEF Id
  <2> QED BY <1>b, <2>1, PlainMessage
<1>c. PICK m : m = [p EXCEPT !.size = size] OBVIOUS
<1>3. m \in Message /\ m.claude = TRUE /\ ~m.hidden /\ ~m.summary /\ m.role = "tool"
  <2>1. size \in Nat BY ConversationAssumption
  <2> QED BY <1>2, <1>c, <2>1 DEF IsPlain, Message
<1>d. PICK g : g = Append(h, m) OBVIOUS
<1>4. hist' = g /\ run'.pending = <<>>
  BY <1>0, <1>a, <1>b, <1>c, <1>d DEF ClaudeToolResult, RunType
<1>5. OneMore(h, m, g)
  <2>1. OneMore(h, m, Append(h, m)) BY <1>1, <1>3, Appended
  <2> QED BY <2>1, <1>d
<1>6. FromClaude(m) /\ Claims(m) /\ ~Speaks(m) /\ ~Answers(m)
  BY <1>3 DEF FromClaude, Claims, Speaks, Answers
<1>7. Suits(h, m) BY <1>1, <1>3, <1>6 DEF Suits
<1>8. Fit(g, lost) BY <1>1, <1>5, <1>7, FitOn
<1>9. Settled(h) => Settled(g) BY <1>1, <1>5, <1>6, <1>7, FitOn
<1>10. g[Len(g)] = m BY <1>5 DEF OneMore
<1>11. Len(<<>>) <= 1 /\ DOMAIN <<>> = {} OBVIOUS
<1>12. Covered(before, lost) BY <1>0 DEF InOrder
<1> QED BY <1>0, <1>1, <1>4, <1>6, <1>8, <1>9, <1>10, <1>11, <1>12 DEF InOrder

\* ClaudeDone.
LEMMA ClaudeDoneInOrder ==
  ASSUME IInv, InOrder, NEW how \in {"ok", "cancelled"}, ClaudeDone(how)
  PROVE  InOrder'
<1>1. /\ phase = "claude" /\ hist' = hist \o run.pending /\ phase' = "idle"
      /\ lost' = lost /\ torn' = torn
  BY DEF ClaudeDone, Finalize
<1>a. PICK h : h = hist \o run.pending OBVIOUS
<1>2. Fit(h, lost) /\ (~torn => Settled(h)) BY <1>1, <1>a, FlushedInOrder
<1>3. Leaves(hist', lost', phase', split') BY <1>1, <1>a, <1>2 DEF Leaves
<1> QED BY <1>1, <1>3, LeavesInOrder

\* ClaudeFails: a run that recorded nothing leaves what there was before it.
LEMMA ClaudeFailsInOrder ==
  ASSUME IInv, InOrder, ClaudeFails
  PROVE  InOrder'
<1>a. PICK h : h = hist \o run.pending OBVIOUS
<1>b. PICK b : b = before OBVIOUS
<1>0. /\ phase = "claude" /\ phase' = "idle" /\ lost' = lost /\ torn' = torn
      /\ hist' = IF Len(h) = run.start THEN Front(h) ELSE h
  BY <1>a DEF ClaudeFails, Finalize
<1>1. h \in Seq(Message) /\ Fit(h, lost) /\ (~torn => Settled(h))
  BY <1>0, <1>a, FlushedInOrder
<1>2. /\ b \in Seq(Message) /\ run.start = Len(b) + 1 /\ Grown(b, h) /\ Followed(b, h)
      /\ Covered(b, lost)
  <2>1. /\ before \in Seq(Message) /\ run.start = Len(before) + 1
        /\ Covered(before, lost)
    BY <1>0 DEF IInv, Shaped, Turn, InOrder
  <2>2. Grown(before, h) /\ Followed(before, h) BY <1>0, <1>a, Flushed
  <2> QED BY <1>b, <2>1, <2>2
<1>3. CASE Len(h) # run.start
  <2>1. hist' = h BY <1>0, <1>3
  <2>2. Leaves(hist', lost', phase', split') BY <1>0, <1>1, <2>1 DEF Leaves
  <2> QED BY <1>0, <2>2, LeavesInOrder
<1>4. CASE Len(h) = run.start
  <2>a. PICK n \in Nat : n = Len(b) BY <1>2
  <2>b. PICK g : g = Front(h) OBVIOUS
  <2>1. Len(h) = n + 1 /\ h[n + 1].role = "user" BY <1>2, <1>4, <2>a DEF Grown
  <2>2. g = SubSeq(h, 1, n) /\ n \in 0 .. Len(h) /\ n < Len(h)
    BY <1>1, <2>b, <2>1 DEF Front
  <2>3. g = b
    <3>1. g \in Seq(Message) /\ Len(g) = n /\ \A i \in 1 .. n : g[i] = h[i]
      BY <1>1, <2>2
    <3>2. \A i \in 1 .. n : h[i] = b[i] BY <1>2, <2>a DEF Followed
    <3>3. Len(g) = Len(b) /\ \A i \in 1 .. Len(g) : g[i] = b[i] BY <2>a, <3>1, <3>2
    <3> QED BY <1>2, <3>1, <3>3, SeqEqual
  <2>4. Covered(g, lost) BY <1>2, <2>3
  <2>5. Fit(g, lost) BY <1>1, <2>2, <2>4, FitBack
  <2>6. Settled(h) => Settled(g) BY <1>1, <2>1, <2>2, <2>4, FitBack
  <2>7. hist' = g BY <1>0, <1>4, <2>b
  <2>8. Leaves(hist', lost', phase', split') BY <1>0, <1>1, <2>5, <2>6, <2>7 DEF Leaves
  <2> QED BY <1>0, <2>8, LeavesInOrder
<1> QED BY <1>3, <1>4

\* ClaudeForgot.
LEMMA ClaudeForgotInOrder ==
  ASSUME IInv, InOrder, ClaudeForgot
  PROVE  InOrder'
<1>1. StartClaudeTurn(hist, TRUE) /\ phase = "claude" /\ lost' = lost /\ torn' = torn
  BY DEF ClaudeForgot
<1>2. hist' = hist /\ phase' = "claude" /\ before' = before /\ run'.pending = <<>>
  BY <1>1 DEF StartClaudeTurn, Goes
<1>3. Len(<<>>) <= 1 /\ DOMAIN <<>> = {} OBVIOUS
<1> QED BY <1>1, <1>2, <1>3 DEF InOrder

\* Restart: a frame that closes amid tools leaves calls without results.
LEMMA RestartInOrder ==
  ASSUME InOrder, Restart
  PROVE  InOrder'
<1>1. hist' = hist /\ phase' = "idle" /\ lost' = lost /\ torn' = (torn \/ phase = "tools")
  BY DEF Restart, Finalize
<1> QED BY <1>1 DEF InOrder

\* The first history.
LEMMA InitInOrder == Init => InOrder
<1> SUFFICES ASSUME Init PROVE InOrder OBVIOUS
<1>a. PICK p : p = SystemPrompt OBVIOUS
<1>1. p \in Message /\ p.role = "system" /\ p.tells = {} /\ ~p.hidden /\ ~p.summary
  <2>1. IsPlain(Plain("system", FALSE, {}), "system", FALSE, {}) BY PlainMessage
  <2> QED BY <1>a, <2>1 DEF IsPlain, SystemPrompt
<1>0. <<p>> \in Seq(Message) BY <1>1
<1>b. PICK h \in Seq(Message) : h = <<p>> BY <1>0
<1>2. DOMAIN h = {1} /\ h[1] = p BY <1>b
<1>3. ~Speaks(p) /\ ~Answers(p) /\ ~FromClaude(p)
  BY <1>1 DEF Speaks, Answers, FromClaude
<1>4. Ordered(h) BY <1>1, <1>2, <1>3 DEF Ordered
<1>5. Owned(h) BY <1>2, <1>3 DEF Owned
<1>6. Settled(h) BY <1>2, <1>3 DEF Settled
<1>7. Covered(h, {}) BY <1>1, <1>2 DEF Covered, Told
<1>8. Mute(h) BY <1>1, <1>2 DEF Mute
<1>9. hist = h /\ lost = {} /\ phase = "idle" BY <1>a, <1>b DEF Init
<1> QED BY <1>4, <1>5, <1>6, <1>7, <1>8, <1>9 DEF Fit, InOrder

\* Every step.
LEMMA NextInOrder ==
  ASSUME IInv, InOrder, [Next]_vars
  PROVE  InOrder'
<1>1. ASSUME NEW key \in BOOLEAN,
             \/ StartTurn(key)
             \/ RequestOverflows(key)
             \/ \E success \in BOOLEAN : SummaryDone(success, key)
             \/ \E size \in OutputSize, stopped \in BOOLEAN : BatchDone(size, stopped, key)
      PROVE  InOrder'
  BY <1>1, StartTurnInOrder, RequestOverflowsInOrder, SummaryDoneInOrder, BatchDoneInOrder
<1>2. CASE UNCHANGED vars
  BY <1>2 DEF vars, InOrder
<1> QED
  BY <1>1, <1>2, StartTurnOnClaudeInOrder, ReplyInOrder, ToolCallsInOrder,
     RequestFailsInOrder, CancelledInOrder, ClaudeInitInOrder, ClaudeMessageInOrder,
     ClaudeToolResultInOrder, ClaudeDoneInOrder, ClaudeFailsInOrder, ClaudeForgotInOrder,
     RestartInOrder
  DEF Next

\* What a history tells is lost, is sent, or gave way on the wire.
LEMMA SeenIsSent ==
  ASSUME NEW h \in Seq(Message), NEW l, Fit(h, l), Tails(h, 0), Awaits(Last(h))
  PROVE  Told(h) \subseteq Told(Wire(h)) \cup l \cup Superseded(h) \cup Displaced(h)
<1> PICK out : out = Told(Wire(h)) \cup Superseded(h) \cup Displaced(h) OBVIOUS
<1>1. Told(h) \subseteq l \cup Seen(h) BY DEF Fit, Covered
<1>2. \A i \in Heads(h) \cup Verbatim(h) : h[i].tells \subseteq out
  <2>1. Sent(h, Wire(h)) BY SentIs DEF Fit
  <2> QED BY <2>1 DEF Sent
<1>3. ASSUME NEW i \in DOMAIN h, ~h[i].hidden, i \notin Heads(h) \cup Verbatim(h)
      PROVE  h[i].tells = {}
  <2>1. h[i].role = "system" BY <1>3 DEF Heads, Verbatim
  <2> QED BY <2>1 DEF Fit, Mute
<1>4. Seen(h) \subseteq out BY <1>2, <1>3 DEF Seen
<1> QED BY <1>1, <1>4

\* The history is in order in every state of every behaviour.
LEMMA Tidiness == Spec => []InOrder
<1>1. Init => InOrder BY InitInOrder
<1>2. IInv /\ InOrder /\ [Next]_vars => InOrder' BY NextInOrder
<1> QED BY <1>1, <1>2, Invariance, PTL DEF Spec

\* Requests are what the APIs accept, wherever compaction cut: unless a frame
\* closed amid tools every call has its results right behind it, a result has
\* its call or is at the head of a tail that was cut between them, no two
\* neighbours have one role, and it is the model's turn (BuildModelView,
\* PruneToolOutputs, FlattenClaudeTurns, and DoSendActualRequest, which drops
\* doubled roles).
THEOREM WellFormedCorrect == Spec => []WellFormed
<1>1. IInv /\ InOrder => WellFormed
  <2> SUFFICES ASSUME IInv, InOrder, phase = "request"
               PROVE  LET w == Wire(hist)
                      IN  /\ ~torn => Paired(w)
                          /\ \A i \in DOMAIN w :
                               w[i].role = "tool" => HasCall(w, i) \/ CutOff(w, i)
                          /\ NoDoubles(w)
                          /\ Last(w).role \in {"user", "tool"}
    BY DEF WellFormed
  <2>1. hist \in Seq(Message) /\ split = 0 BY DEF IInv, Shaped
  <2>2. Ordered(hist) /\ Owned(hist) /\ (~torn => Settled(hist)) BY DEF InOrder, Fit
  <2>3. Awaits(Last(hist)) /\ Tails(hist, 0) BY <2>1 DEF InOrder, Last
  <2>4. Sent(hist, Wire(hist)) BY <2>1, <2>2, <2>3, SentIs
  <2> QED BY <2>2, <2>4 DEF Sent
<1> QED BY <1>1, Invariance, Tidiness, PTL

\* ... and tell the model of every message of the conversation, itself or in a
\* summary, but for what failures took, summaries that another one passed over
\* or displaced, and prompts that were never answered.
THEOREM RememberedCorrect == Spec => []Remembered
<1>1. IInv /\ InOrder => Remembered
  <2> SUFFICES ASSUME IInv, InOrder, phase = "request"
               PROVE  Told(hist) \subseteq
                        Told(Wire(hist)) \cup lost \cup Superseded(hist) \cup Displaced(hist)
    BY DEF Remembered
  <2>1. hist \in Seq(Message) /\ split = 0 BY DEF IInv, Shaped
  <2>2. Fit(hist, lost) BY DEF InOrder
  <2>3. Awaits(Last(hist)) /\ Tails(hist, 0) BY <2>1 DEF InOrder, Last
  <2> QED BY <2>1, <2>2, <2>3, SeenIsSent
<1> QED BY <1>1, Invariance, Tidiness, PTL

-----------------------------------------------------------------------------
(* ClaudeProcess.                                                          *)

\* An output pipe at its end has nothing in it and nobody to write to it;
\* before the CLI is waited for no time has passed since its end; and when it
\* has been, the loop's read came after all it wrote.
ReadInv ==
  /\ at = "spawn" => cli = "none"
  /\ cli = "none" => at \in {"spawn", "over"} /\ unread = {} /\ ~ToolLives
  /\ cli # "reaped" => sinceExit = 0
  /\ \A p \in Output : eof[p] => p \notin unread /\ ~Held /\ cli # "none"
  /\ at = "reap" /\ cli = "reaped" => unread = {}

ProcessInv == ProcessTypeOK /\ ReadInv /\ AllRead /\ Graceful

\* Nothing has happened when the run begins.
LEMMA InitProcessInv == ProcessInit => ProcessInv
<1> SUFFICES ASSUME ProcessInit PROVE ProcessInv OBVIOUS
<1>1. ProcessTypeOK
  <2>1. waited \in 0..KillAfter + 1 /\ sinceExit \in 0..DrainAfter + 1
    BY ProcessAssumption DEF ProcessInit
  <2>2. left \in 0..Payload /\ fed \in 0..PipeSize /\ owes \in 0..Echo
    BY ProcessAssumption DEF ProcessInit
  <2>3. full \in [Output -> 0..PipeSize] BY ProcessAssumption DEF ProcessInit
  <2>4. eof \in [Output -> BOOLEAN] BY DEF ProcessInit
  <2> QED BY <2>1, <2>2, <2>3, <2>4 DEF ProcessInit, ProcessTypeOK
<1>2. ReadInv
  <2>1. \A p \in Output : ~eof[p] BY DEF ProcessInit
  <2> QED BY <2>1 DEF ProcessInit, ReadInv, ToolLives
<1>3. AllRead /\ Graceful BY DEF ProcessInit, AllRead, Graceful
<1> QED BY <1>1, <1>2, <1>3 DEF ProcessInv

\* A step of the loop's top keeps the type.
LEMMA TopType ==
  ASSUME ProcessInv, NEW d \in 0..KillAfter + 1, Top(d)
  PROVE  ProcessTypeOK'
<1> USE ProcessAssumption DEF ProcessInv, ProcessTypeOK
<1>1. Older(waited, d, KillAfter) \in 0..KillAfter + 1 BY DEF Older
<1>2. Older(sinceExit, d, DrainAfter) \in 0..DrainAfter + 1 BY DEF Older
<1>3. waited' \in 0..KillAfter + 1 /\ sinceExit' \in 0..DrainAfter + 1 BY <1>1, <1>2 DEF Top
<1>4. due' \in BOOLEAN BY DEF Top
<1>5. sent' \subseteq {"int", "term", "kill"} BY DEF Top, Ladder
<1>6. cli' \in {"none", "runs", "zombie", "reaped"} /\ tool' \in {"none", "group", "own"}
  BY DEF Top, Struck
<1> QED BY <1>3, <1>4, <1>5, <1>6 DEF Top

\* The two limits are met in their order, even when both have passed.
LEMMA TopGraceful ==
  ASSUME ProcessInv, NEW d \in 0..KillAfter + 1, Top(d)
  PROVE  Graceful'
<1> DEFINE w == Older(waited, d, KillAfter)
           hard == killNow \/ due'
           s == IF cli = "reaped" THEN {} ELSE Ladder(w, hard)
<1>1. w \in Nat BY ProcessAssumption DEF ProcessInv, ProcessTypeOK, Older
<1>2. sent' = sent \cup s /\ killNow' = killNow BY DEF Top
<1>3. due => due' BY DEF Top
<1> SUFFICES ASSUME "kill" \in sent', ~killNow', ~due' PROVE {"int", "term"} \subseteq sent'
  BY DEF Graceful
<1>4. ~hard BY <1>2
<1> HIDE DEF w, hard
<1>5. CASE "kill" \in sent BY <1>2, <1>3, <1>5 DEF ProcessInv, Graceful
<1>6. CASE "kill" \notin sent
  <2>1. "kill" \in Ladder(w, hard) BY <1>2, <1>6
  <2>2. "int" \in sent /\ ~("term" \notin sent /\ w > TermAfter) /\ w > KillAfter
    BY <1>4, <1>6, <2>1 DEF Ladder
  <2>3. w > TermAfter BY <1>1, <2>2, ProcessAssumption
  <2> QED BY <1>2, <2>2, <2>3
<1> QED BY <1>5, <1>6

\* Reading after the CLI was waited for finds all it wrote.
LEMMA IoRead ==
  ASSUME ProcessInv, Io
  PROVE  ProcessTypeOK' /\ ReadInv' /\ AllRead' /\ Graceful'
<1> USE ProcessAssumption DEF ProcessInv, ProcessTypeOK
<1>1. unread' = {} BY DEF Io, Drain
<1>2. left' \in 0..Payload /\ fed' \in 0..PipeSize BY DEF Io, Feed
<1>3. full' \in [Output -> 0..PipeSize] /\ eof' \in [Output -> BOOLEAN] BY DEF Io, Drain
<1>4. ProcessTypeOK' BY <1>1, <1>2, <1>3 DEF Io, flags
<1>5. \A p \in Output : eof'[p] => ~Held
  BY DEF Io, Drain, ReadInv
<1>6. ReadInv' BY <1>1, <1>5 DEF ReadInv, Io, Held, ToolLives, flags
<1> QED BY <1>1, <1>4, <1>6 DEF AllRead, Graceful, Io, flags

\* The loop is left with nothing unread.
LEMMA ReapRead ==
  ASSUME ProcessInv, Reap
  PROVE  ProcessTypeOK' /\ ReadInv' /\ AllRead' /\ Graceful'
<1> USE DEF ProcessInv
<1>1. /\ at = "reap" /\ at' \in {"top", "over"} /\ cli' \in {cli, "reaped"}
      /\ cli # "reaped" /\ cli' = "reaped" => cli = "zombie"
      /\ UNCHANGED <<flags, sent, waited, sinceExit, left, eof, fed, full, unread, owes, tool>>
  BY DEF Reap
<1>2. ProcessTypeOK' BY <1>1 DEF ProcessTypeOK, Reap, Return, flags
<1>3. ReadInv' BY <1>1 DEF ReadInv, Held, ToolLives
<1>4. ASSUME at' = "over" PROVE unread = {} /\ cli' = "reaped"
  <2>1. cli' = "reaped" /\ ((\A p \in Output : eof[p]) \/ sinceExit > DrainAfter)
    BY <1>4 DEF Reap
  <2>2. CASE cli = "reaped" BY <1>1, <2>1, <2>2 DEF ReadInv
  <2>3. CASE cli # "reaped"
    <3>1. sinceExit = 0 /\ ~(sinceExit > DrainAfter) BY <2>3, ProcessAssumption DEF ReadInv
    <3> QED BY <2>1, <3>1 DEF ReadInv, ProcessTypeOK
  <2> QED BY <2>1, <2>2, <2>3
<1>5. AllRead' BY <1>1, <1>4 DEF AllRead
<1> QED BY <1>1, <1>2, <1>3, <1>5 DEF Graceful, flags

\* Every step keeps ProcessInv.
LEMMA NextProcessInv == ProcessInv /\ [ProcessNext]_processVars => ProcessInv'
<1> SUFFICES ASSUME ProcessInv, [ProcessNext]_processVars PROVE ProcessInv' OBVIOUS
<1>1. CASE Spawn
  <2>1. ProcessTypeOK' BY <1>1 DEF ProcessInv, ProcessTypeOK, Spawn, flags
  <2>2. ReadInv' /\ AllRead'
    BY <1>1 DEF ProcessInv, ReadInv, AllRead, Spawn, flags, Held, ToolLives
  <2> QED BY <1>1, <2>1, <2>2 DEF ProcessInv, Graceful, Spawn, flags
<1>2. ASSUME NEW d \in 0..KillAfter + 1, Top(d) PROVE ProcessInv'
  <2>1. ReadInv' /\ AllRead'
    BY <1>2 DEF ProcessInv, ProcessTypeOK, ReadInv, AllRead, Top, Struck, Held, ToolLives
  <2> QED BY <1>2, <2>1, TopType, TopGraceful DEF ProcessInv
<1>3. CASE Io BY <1>3, IoRead DEF ProcessInv
<1>4. CASE Reap BY <1>4, ReapRead DEF ProcessInv
<1>5. CASE Processes
  <2>1. ProcessTypeOK'
    <3>1. CASE CliRead
      BY <1>5, <3>1, ProcessAssumption DEF ProcessInv, ProcessTypeOK, CliRead, worker, flags
    <3>2. CASE CliWrite
      BY <1>5, <3>2, ProcessAssumption DEF ProcessInv, ProcessTypeOK, CliWrite, worker, flags
    <3>3. CASE CliEnds BY <3>3 DEF ProcessInv, ProcessTypeOK, CliEnds, worker, flags
    <3>5. CASE ToolStarts BY <3>5 DEF ProcessInv, ProcessTypeOK, ToolStarts, worker, flags
    <3>6. CASE ToolEnds BY <3>6 DEF ProcessInv, ProcessTypeOK, ToolEnds, worker, flags
    <3>4. CASE ToolWrites
      BY <3>4, ProcessAssumption DEF ProcessInv, ProcessTypeOK, ToolWrites, worker, flags
    <3> QED BY <1>5, <3>1, <3>2, <3>3, <3>4, <3>5, <3>6 DEF Processes
  <2>2. ReadInv' /\ AllRead' /\ Graceful'
    BY <1>5 DEF ProcessInv, ReadInv, AllRead, Graceful, Processes, CliRead, CliWrite, CliEnds,
       ToolStarts, ToolWrites, ToolEnds, worker, flags, Held, ToolLives
  <2> QED BY <2>1, <2>2 DEF ProcessInv
<1>6. CASE Cancel \/ Destroy
  <2>1. ProcessTypeOK'
    <3>1. CASE Cancel BY <3>1 DEF ProcessInv, ProcessTypeOK, Cancel, worker
    <3>2. CASE Destroy BY <3>2 DEF ProcessInv, ProcessTypeOK, Destroy, worker
    <3> QED BY <1>6, <3>1, <3>2
  <2>2. ReadInv' /\ AllRead' /\ Graceful'
    BY <1>6 DEF ProcessInv, ReadInv, AllRead, Graceful, Cancel, Destroy, worker, Held, ToolLives
  <2> QED BY <2>1, <2>2 DEF ProcessInv
<1>7. CASE UNCHANGED processVars
  BY <1>7 DEF ProcessInv, ProcessTypeOK, ReadInv, AllRead, Graceful, Held, ToolLives,
     processVars, worker, flags
<1> QED BY <1>1, <1>2, <1>3, <1>4, <1>5, <1>6, <1>7 DEF ProcessNext, Worker

\* RunProcess never returns before it has read all that the CLI wrote, whatever
\* the CLI, its children and the user do.
THEOREM AllReadCorrect == ProcessSpec => []AllRead
<1>1. ProcessInv => AllRead BY DEF ProcessInv
<1> QED BY <1>1, InitProcessInv, NextProcessInv, PTL DEF ProcessSpec

\* A cancelled CLI is asked twice before it is killed, however long the worker
\* is away from the clock.
THEOREM GracefulCorrect == ProcessSpec => []Graceful
<1>1. ProcessInv => Graceful BY DEF ProcessInv
<1> QED BY <1>1, InitProcessInv, NextProcessInv, PTL DEF ProcessSpec
=============================================================================
