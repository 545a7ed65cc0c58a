-------------------------- MODULE ConversationView --------------------------
(***************************************************************************)
(* What a conversation's history becomes on its way to a model: the view   *)
(* compaction leaves, the pruning of old tool outputs, the folding of      *)
(* Claude turns, the removal of doubled roles, and the transcript that is  *)
(* handed to Claude Code.  Pure operators; Conversation is the machine     *)
(* that builds the history.                                                *)
(*                                                                         *)
(* A message keeps its role, the kind of model its turn went to, how many  *)
(* tool calls it makes, its size and the marks compaction puts on it.  Its *)
(* text is the set `tells`: the messages of the conversation it lets a     *)
(* model know of: itself, or for a summary all that was summarised.        *)
(***************************************************************************)
EXTENDS Naturals, Sequences, SequencesExt, FiniteSetsExt

CONSTANTS
  TailBudget,  \* kTailBudgetTokens
  Usable,      \* the context window less kBufferTokens
  FreshTurns,  \* kPruneFreshTurns
  Protect,     \* kPruneProtectTokens
  MinFreed,    \* kPruneMinFreedTokens
  OutputMax    \* kToolOutputMaxChars

ASSUME ViewAssumption ==
  /\ {TailBudget, Usable, FreshTurns, Protect, MinFreed} \subseteq Nat
  /\ OutputMax \in Nat \ {0}

Size(messages) == FoldLeft(LAMBDA n, m : n + m.size, 0, messages)

----------------------------------------------------------------------------
(* BuildModelView: the system prompt, the summaries, the rest of what is   *)
(* not hidden.                                                             *)

(* The messages at the indices in S, in their order.                       *)
Selection(h, S) ==
  FoldLeftDomain(LAMBDA out, i : IF i \in S THEN Append(out, h[i]) ELSE out, <<>>, h)

Visible(h) == Selection(h, {i \in DOMAIN h : ~h[i].hidden})

Summaries(h) == Selection(h, {i \in DOMAIN h : ~h[i].hidden /\ h[i].summary})

Rest(h) ==
  Selection(h, {i \in DOMAIN h : ~h[i].hidden /\ ~h[i].summary /\ h[i].role # "system"})

(* A tool output is stale when enough turns and enough output came after   *)
(* it.  Stale outputs are cut short, but only if that frees enough.        *)
TurnsAfter(tail, i) == Cardinality({j \in i + 1 .. Len(tail) : tail[j].role = "user"})

OutputAfter(tail, i) ==
  Size(SelectSeq(SubSeq(tail, i + 1, Len(tail)), LAMBDA m : m.role = "tool"))

Stale(tail, i) ==
  /\ tail[i].role = "tool"
  /\ TurnsAfter(tail, i) >= FreshTurns
  /\ OutputAfter(tail, i) >= Protect
  /\ tail[i].size > OutputMax

PruneToolOutputs(tail) ==
  LET stale == {i \in DOMAIN tail : Stale(tail, i)}
      freed == MapThenSumSet(LAMBDA i : tail[i].size - OutputMax, stale)
  IN  IF freed < MinFreed
      THEN tail
      ELSE [i \in DOMAIN tail |->
              IF i \in stale THEN [tail[i] EXCEPT !.size = OutputMax] ELSE tail[i]]

BuildModelView(h) ==
  Selection(h, {i \in DOMAIN h : h[i].role = "system"})
    \o Summaries(h) \o PruneToolOutputs(Rest(h))

----------------------------------------------------------------------------
(* The messages of a request.                                              *)

FromClaude(m) == m.claude /\ m.role \in {"assistant", "tool"}

\* Slip: the calls of a Claude message stay calls.
FoldedWithCalls(out, m) ==
  IF ~FromClaude(m)
  THEN Append(out, m)
  ELSE IF out # <<>> /\ FromClaude(Last(out))
  THEN [out EXCEPT ![Len(out)].tells = @ \cup m.tells]
  ELSE Append(out, [m EXCEPT !.role = "assistant"])

(* A run of Claude's messages becomes one assistant message without calls. *)
Folded(out, m) ==
  IF ~FromClaude(m)
  THEN Append(out, m)
  ELSE IF out # <<>> /\ FromClaude(Last(out))
  THEN [out EXCEPT ![Len(out)].tells = @ \cup m.tells]
  ELSE Append(out, [m EXCEPT !.role = "assistant", !.calls = 0])

FlattenClaudeTurns(messages) == FoldLeft(Folded, <<>>, messages)

(* Of neighbours with one role, user or assistant, the last one is kept.   *)
Deduped(out, m) ==
  IF out # <<>> /\ Last(out).role = m.role /\ m.role \in {"user", "assistant"}
  THEN [out EXCEPT ![Len(out)] = m]
  ELSE Append(out, m)

Wire(h) == FoldLeft(Deduped, <<>>, FlattenClaudeTurns(BuildModelView(h)))

----------------------------------------------------------------------------
(* Where compaction cuts.  A split is the number of messages of the head.  *)

(* The tail that stays verbatim: what is visible after the last visible    *)
(* summary, as far back as the budget reaches, one message at least.       *)
SelectTailSplit(h) ==
  LET visible == {i \in DOMAIN h : ~h[i].hidden}
      border  == Max({0} \cup {i \in visible : h[i].summary \/ h[i].role = "system"})
      from(i) == Size(Visible(SubSeq(h, i, Len(h))))
      tail    == {i \in visible : /\ i > border
                                  /\ from(i) <= TailBudget \/ from(i + 1) = 0}
  IN  IF tail = {} THEN Len(h) ELSE Min(tail) - 1

(* ForceCompactForOverflow keeps the last turn only. *)
LastTurnSplit(h) ==
  LET turns == {i \in DOMAIN h : ~h[i].hidden /\ h[i].role = "user"}
  IN  IF turns = {} THEN 0 ELSE Max(turns) - 1

Overflows(h) == Size(BuildModelView(h)) >= Usable

----------------------------------------------------------------------------
\* Slip: summaries are not handed over.
HandoverOfTurns(h, from, to, skip) ==
  UNION {h[i].tells : i \in {j \in from .. to : /\ ~h[j].hidden /\ ~h[j].summary
                                                /\ h[j].role # "system"
                                                /\ ~(skip /\ h[j].claude)}}

(* What the history between two messages tells Claude Code.  With skip,    *)
(* the messages of Claude turns are left out.                              *)

HandoverTranscript(h, from, to, skip) ==
  UNION {h[i].tells : i \in {j \in from .. to : /\ ~h[j].hidden
                                                /\ h[j].role # "system"
                                                /\ ~(skip /\ h[j].claude)}}
============================================================================
