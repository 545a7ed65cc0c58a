---------------------------- MODULE Conversation ----------------------------
(***************************************************************************)
(* The history of one top-level conversation of gritcode: how turns on API *)
(* models and on Claude Code record messages in it, how a failed turn is   *)
(* rolled back, how compaction hides its head behind a summary, and what a *)
(* restart makes of it.  ThreadRuntime says when the handlers run; here    *)
(* one conversation runs its turns one after the other.                    *)
(*                                                                         *)
(* The variables in the first group are fields of struct Thread.  The      *)
(* others record what the code never keeps: what each Claude session has   *)
(* been told, and what is no longer told to anyone.                        *)
(***************************************************************************)
EXTENDS ConversationView

CONSTANTS
  Session,      \* names for Claude Code sessions
  NoSession,    \* the empty session id
  Growth,       \* messages since the last compaction that allow another one
  OutputSize,   \* sizes of a tool output
  MaxCalls,     \* bound: tool calls of a message
  MaxIds,       \* bound: messages recorded in all
  EarlyCancel   \* may a cancelled Claude Code end before it has a session?

ASSUME ConversationAssumption ==
  /\ NoSession \notin Session
  /\ Growth \in Nat /\ MaxIds \in Nat /\ MaxCalls \in Nat \ {0}
  /\ OutputSize \subseteq Nat \ {0}
  /\ EarlyCancel \in BOOLEAN

VARIABLES
  hist,      \* history
  base,      \* historyCompactBaseCount
  phase,     \* what the turn waits for
  split,     \* compactionSplitIdx
  forced,    \* overflowRetried
  run,       \* the Claude Code run of the turn
  before,    \* aux: history when the turn began
  failed,    \* aux: the last turn failed
  ids,       \* aux: messages recorded so far
  knows,     \* aux: what each Claude session has been told
  gone,      \* aux: the sessions Claude Code has pruned
  lost,      \* aux: what was hidden and has no summary any more
  torn       \* aux: the frame closed while tools ran

vars == <<hist, base, phase, split, forced, run, before, failed, ids, knows, gone, lost, torn>>

Id == 1 .. MaxIds

Message ==
  [ role    : {"system", "user", "assistant", "tool"},
    claude  : BOOLEAN,      \* "model" names a Claude model
    calls   : 0 .. MaxCalls,
    size    : Nat,
    hidden  : BOOLEAN,      \* "compacted"
    summary : BOOLEAN,      \* "isSummary"
    session : Session \cup {NoSession},
    tells   : SUBSET Id ]

Plain(role, claude, tells) ==
  [ role |-> role, claude |-> claude, calls |-> 0, size |-> 1, hidden |-> FALSE,
    summary |-> FALSE, session |-> NoSession, tells |-> tells ]

SystemPrompt == Plain("system", FALSE, {})

(* The run: the session it resumes and the one it reports, what it was     *)
(* told, claudePendingMsg (as a sequence), claudeTurnHistoryStart.         *)
NoRun == [resumes |-> NoSession, session |-> NoSession, told |-> {},
          pending |-> <<>>, start |-> 0, retried |-> FALSE]

Told(h) == UNION {h[i].tells : i \in DOMAIN h}

(* What the messages that are not hidden tell.                             *)
Seen(h) == UNION {h[i].tells : i \in {j \in DOMAIN h : ~h[j].hidden}}

----------------------------------------------------------------------------
Init ==
  /\ hist = <<SystemPrompt>>
  /\ base = 0
  /\ phase = "idle"
  /\ split = 0
  /\ forced = FALSE
  /\ run = NoRun
  /\ before = <<>>
  /\ failed = FALSE
  /\ ids = 0
  /\ knows = [s \in Session |-> {}]
  /\ gone = {}
  /\ lost = {}
  /\ torn = FALSE

(* FinalizeTurn. *)
Finalize(h, failure) ==
  /\ hist' = h
  /\ phase' = "idle"
  /\ before' = <<>>
  /\ failed' = failure

(* A step inside a turn, or its first one. *)
Goes(h, to) ==
  /\ hist' = h
  /\ phase' = to
  /\ before' = IF phase = "idle" THEN hist ELSE before
  /\ failed' = FALSE

\* Slip: only the prompt is taken back, and only if nothing followed it.
RolledBackPromptOnly(h) == IF Last(h).role = "user" THEN Front(h) ELSE h

(* A failed turn takes its messages with it: all that tools and the model  *)
(* said since the last user message, and that message.                     *)
RolledBack(h) ==
  LET last == Max({i \in DOMAIN h : h[i].role \in {"system", "user"}})
  IN  SubSeq(h, 1, IF h[last].role = "user" THEN last - 1 ELSE last)

(* What is lost with it: what only a popped summary still told of. *)
LostBy(h) == Told(RolledBack(h)) \ Seen(RolledBack(h))

(* DoSendActualRequest.  Without a key the turn fails at once. *)
Send(h, key) ==
  IF key
  THEN Goes(h, "request") /\ UNCHANGED lost
  ELSE /\ Finalize(RolledBack(h), TRUE)
       /\ lost' = lost \cup LostBy(h)

\* Slip: the summary before is not summarised again.
TranscribedAnew(h) == Told(Rest(h))

(* The transcript the summary is made of: of several summaries the newest. *)
NewestSummary(h) == IF Summaries(h) = <<>> THEN {} ELSE Last(Summaries(h)).tells
Transcribed(h) == Told(Rest(h)) \cup NewestSummary(h)

(* Summaries the head hides and the transcript passes over.                *)
PassedOver(h) == Told(Summaries(h)) \ (Told(Rest(h)) \cup NewestSummary(h))

(* ApplyCompaction: hides the head and appends the summary to the history. *)
Compacted(h, n, success) ==
  LET head == SubSeq(h, 1, n)
  IN  Append([i \in DOMAIN h |-> [h[i] EXCEPT !.hidden = @ \/ i <= n]],
             [Plain("assistant", FALSE, IF success THEN Transcribed(head) ELSE {})
                EXCEPT !.summary = TRUE])

ApplyCompaction(h, n, success, key) ==
  LET c    == Compacted(h, n, success)
      head == SubSeq(h, 1, n)
      l    == lost \cup (IF success THEN PassedOver(head) ELSE Seen(head))
  IN  /\ base' = Len(c)
      /\ split' = 0
      /\ IF key
         THEN Goes(c, "request") /\ lost' = l
         ELSE /\ Finalize(RolledBack(c), TRUE)
              /\ lost' = l \cup LostBy(c)

(* RunSummaryThenSend: a request for the summary, or none without a key. *)
RunSummaryThenSend(h, n, key) ==
  IF key
  THEN /\ Goes(h, "summary")
       /\ split' = n
       /\ UNCHANGED <<base, lost>>
  ELSE ApplyCompaction(h, n, FALSE, key)

(* MaybeCompactThenSend's three reasons not to compact, negated. *)
MustCompact(h) ==
  /\ base = 0 \/ Len(h) >= base + Growth
  /\ SelectTailSplit(h) > 1
  /\ Overflows(h)

(* StartCompletion on an API model. *)
StartCompletion(h, key) ==
  IF MustCompact(h)
  THEN RunSummaryThenSend(h, SelectTailSplit(h), key)
  ELSE Send(h, key) /\ UNCHANGED <<base, split>>

(* StartClaudeTurn: resume the newest session unless the run is a fresh    *)
(* one, and hand over what was said after it.                              *)
LastSession(h) ==
  Max({0} \cup {i \in 1 .. Len(h) - 1 : h[i].session # NoSession})

StartClaudeTurn(h, fresh) ==
  LET at      == IF fresh THEN 0 ELSE LastSession(h)
      resumes == IF at = 0 THEN NoSession ELSE h[at].session
  IN  /\ Goes(h, "claude")
      /\ run' = [ resumes |-> resumes, session |-> NoSession,
                  told    |-> HandoverTranscript(h, at + 1, Len(h) - 1, at # 0)
                              \cup h[Len(h)].tells,
                  pending |-> <<>>, start |-> Len(h), retried |-> fresh ]

----------------------------------------------------------------------------
(* The user starts a turn on an API model or on a Claude one. *)

Prompt(claude) == Plain("user", claude, {ids + 1})

StartTurn(key) ==
  LET h == Append(hist, Prompt(FALSE))
  IN  /\ phase = "idle" /\ ids + 1 < MaxIds
      /\ ids' = ids + 1
      /\ forced' = FALSE
      /\ StartCompletion(h, key)
      /\ UNCHANGED <<run, knows, gone, torn>>

(* Without an installed claude the prompt is taken back. *)
StartTurnOnClaude(installed) ==
  LET h == Append(hist, Prompt(TRUE))
  IN  /\ phase = "idle" /\ ids + 1 < MaxIds
      /\ ids' = ids + 1
      /\ forced' = FALSE
      /\ IF installed
         THEN StartClaudeTurn(h, FALSE)
         ELSE Finalize(hist, TRUE) /\ UNCHANGED run
      /\ UNCHANGED <<base, split, knows, gone, lost, torn>>

----------------------------------------------------------------------------
(* The end of a request: OnStreamDone and HandleCompletion. *)

(* A reply without calls; an empty one is not recorded. *)
Reply(empty) ==
  /\ phase = "request"
  /\ empty \/ ids < MaxIds
  /\ IF empty
     THEN Finalize(hist, FALSE) /\ UNCHANGED ids
     ELSE /\ Finalize(Append(hist, Plain("assistant", FALSE, {ids + 1})), FALSE)
          /\ ids' = ids + 1
  /\ UNCHANGED <<base, split, forced, run, knows, gone, lost, torn>>

ToolCalls(n) ==
  /\ phase = "request"
  /\ ids + n < MaxIds
  /\ Goes(Append(hist, [Plain("assistant", FALSE, {ids + 1}) EXCEPT !.calls = n]), "tools")
  /\ ids' = ids + 1
  /\ UNCHANGED <<base, split, forced, run, knows, gone, lost, torn>>

RequestFails ==
  /\ phase = "request"
  /\ Finalize(RolledBack(hist), TRUE)
  /\ lost' = lost \cup LostBy(hist)
  /\ UNCHANGED <<base, split, forced, run, ids, knows, gone, torn>>

(* The provider refuses the request as too long: compact once, and retry. *)
RequestOverflows(key) ==
  /\ phase = "request"
  /\ ~forced
  /\ LastTurnSplit(hist) > 1
  /\ forced' = TRUE
  /\ RunSummaryThenSend(hist, LastTurnSplit(hist), key)
  /\ UNCHANGED <<run, ids, knows, gone, torn>>

RequestCancelled ==
  /\ phase = "request"
  /\ Finalize(hist, FALSE)
  /\ UNCHANGED <<base, split, forced, run, ids, knows, gone, lost, torn>>

----------------------------------------------------------------------------
(* OnToolBatchDone: every call gets its result, a cancelled one too. *)

Results(size) ==
  [i \in 1 .. Last(hist).calls |-> [Plain("tool", FALSE, {ids + i}) EXCEPT !.size = size]]

BatchDone(size, cancelled, key) ==
  LET h == hist \o Results(size)
  IN  /\ phase = "tools"
      /\ ids' = ids + Last(hist).calls
      /\ IF cancelled
         THEN Finalize(h, FALSE) /\ UNCHANGED <<base, split, lost>>
         ELSE StartCompletion(h, key)
      /\ UNCHANGED <<forced, run, knows, gone, torn>>

----------------------------------------------------------------------------
(* OnSummaryStreamDone. *)

SummaryDone(success, key) ==
  /\ phase = "summary"
  /\ ApplyCompaction(hist, split, success, key)
  /\ UNCHANGED <<forced, run, ids, knows, gone, torn>>

SummaryCancelled ==
  /\ phase = "summary"
  /\ split' = 0
  /\ Finalize(hist, FALSE)
  /\ UNCHANGED <<base, forced, run, ids, knows, gone, lost, torn>>

----------------------------------------------------------------------------
(* A Claude Code run: HandleClaudeEvent and OnClaudeDone. *)

(* The init event names the session, the resumed one or a new one. *)
ClaudeInit(s) ==
  /\ phase = "claude" /\ run.session = NoSession
  /\ run.resumes # NoSession \/ \E n \in Session : knows[n] = {}
  /\ IF run.resumes # NoSession THEN s = run.resumes /\ s \notin gone ELSE s = CHOOSE n \in Session : knows[n] = {}
  /\ run' = [run EXCEPT !.session = s]
  /\ knows' = [knows EXCEPT ![s] = @ \cup run.told]
  /\ UNCHANGED <<hist, base, phase, split, forced, before, failed, ids, gone, lost, torn>>

(* An assistant message is kept back until it is complete. *)
ClaudeMessage(n) ==
  /\ phase = "claude" /\ run.session # NoSession
  /\ ids + n < MaxIds
  /\ hist' = hist \o run.pending
  /\ ids' = ids + 1
  /\ run' = [run EXCEPT !.pending =
               <<[Plain("assistant", TRUE, {ids + 1}) EXCEPT
                    !.calls = n, !.session = run.session]>>]
  /\ knows' = [knows EXCEPT ![run.session] = @ \cup {ids + 1}]
  /\ UNCHANGED <<base, phase, split, forced, before, failed, gone, lost, torn>>

(* A tool result; the message that called comes first. *)
ClaudeToolResult(size) ==
  LET h == hist \o run.pending
  IN  /\ phase = "claude" /\ run.session # NoSession
      /\ Len(h) > run.start
      /\ ids < MaxIds
      /\ hist' = Append(h, [Plain("tool", TRUE, {ids + 1}) EXCEPT !.size = size])
      /\ ids' = ids + 1
      /\ run' = [run EXCEPT !.pending = <<>>]
      /\ knows' = [knows EXCEPT ![run.session] = @ \cup {ids + 1}]
      /\ UNCHANGED <<base, phase, split, forced, before, failed, gone, lost, torn>>

(* A cancelled Claude Code ends when it likes. *)
MayEnd == run.session # NoSession \/ EarlyCancel

(* A run that succeeded, or was cancelled, keeps what it recorded. *)
ClaudeDone(how) ==
  /\ phase = "claude"
  /\ IF how = "cancelled" THEN MayEnd ELSE run.session # NoSession
  /\ Finalize(hist \o run.pending, FALSE)
  /\ run' = NoRun
  /\ UNCHANGED <<base, split, forced, ids, knows, gone, lost, torn>>

(* FailClaudeTurn: the prompt is taken back if nothing was recorded. *)
ClaudeFails ==
  LET h == hist \o run.pending
  IN  /\ phase = "claude"
      /\ Finalize(IF Len(h) = run.start THEN Front(h) ELSE h, TRUE)
      /\ run' = NoRun
      /\ UNCHANGED <<base, split, forced, ids, knows, gone, lost, torn>>

(* The session to resume is gone: the same turn on a new session. *)
ClaudeForgot ==
  /\ phase = "claude"
  /\ run.resumes # NoSession /\ run.session = NoSession /\ ~run.retried
  /\ gone' = gone \cup {run.resumes}
  /\ StartClaudeTurn(hist, TRUE)
  /\ UNCHANGED <<base, split, forced, ids, knows, lost, torn>>

----------------------------------------------------------------------------
(* The frame closes and the conversation is opened again.  The handlers of *)
(* a closing frame record nothing: calls stay without results, and what    *)
(* Claude Code said last is dropped.                                       *)

Restart ==
  /\ hist # <<SystemPrompt>>
  /\ phase = "claude" => MayEnd
  /\ Finalize(hist, FALSE)
  /\ base' = 0
  /\ split' = 0
  /\ forced' = FALSE
  /\ run' = NoRun
  /\ torn' = (torn \/ phase = "tools")
  /\ UNCHANGED <<ids, knows, gone, lost>>

Next ==
  \/ \E key \in BOOLEAN :
       \/ StartTurn(key)
       \/ RequestOverflows(key)
       \/ \E success \in BOOLEAN : SummaryDone(success, key)
       \/ \E size \in OutputSize, cancelled \in BOOLEAN : BatchDone(size, cancelled, key)
  \/ \E installed \in BOOLEAN : StartTurnOnClaude(installed)
  \/ \E empty \in BOOLEAN : Reply(empty)
  \/ \E n \in 1 .. MaxCalls : ToolCalls(n)
  \/ RequestFails
  \/ RequestCancelled
  \/ SummaryCancelled
  \/ \E s \in Session : ClaudeInit(s)
  \/ \E n \in 0 .. MaxCalls : ClaudeMessage(n)
  \/ \E size \in OutputSize : ClaudeToolResult(size)
  \/ \E how \in {"ok", "cancelled"} : ClaudeDone(how)
  \/ ClaudeFails
  \/ ClaudeForgot
  \/ Restart

Spec == Init /\ [][Next]_vars

----------------------------------------------------------------------------
(* Types of everything a conversation keeps; a split is inside the history *)
(* while a summary is written, and the system prompt stays first (the      *)
(* check ApplyCompaction makes "to be safe").                              *)
TypeOK ==
  /\ hist \in Seq(Message) /\ Len(hist) > 0 /\ hist[1].role = "system"
  /\ base \in Nat
  /\ phase \in {"idle", "request", "summary", "tools", "claude"}
  /\ split \in 0 .. Len(hist)
  /\ phase = "summary" => split \in 2 .. Len(hist) - 1
  /\ phase = "tools" => Last(hist).calls > 0
  /\ forced \in BOOLEAN
  /\ run \in [resumes : Session \cup {NoSession}, session : Session \cup {NoSession},
              told : SUBSET Id, pending : Seq(Message), start : Nat, retried : BOOLEAN]
  /\ before \in Seq(Message)
  /\ failed \in BOOLEAN
  /\ ids \in 0 .. MaxIds
  /\ knows \in [Session -> SUBSET Id]
  /\ gone \subseteq Session
  /\ lost \subseteq Id
  /\ torn \in BOOLEAN

Unmarked(h) == [i \in DOMAIN h |-> [h[i] EXCEPT !.hidden = FALSE]]

(* The durable history only grows: whatever a turn does, compaction        *)
(* included, the messages recorded before it stay, in their order.  A      *)
(* failed turn leaves nothing but them, unless Claude Code had already     *)
(* answered: then its answer stays together with its prompt.               *)
RollBack ==
  [][phase # "idle" /\ phase' = "idle" =>
       /\ IsPrefix(Unmarked(before), Unmarked(hist'))
       /\ failed' => \/ Len(hist') = Len(before)
                     \/ \E i \in Len(before) + 2 .. Len(hist') : hist'[i].claude]_vars

(* Every call has its results right behind it.                             *)
Paired(w) ==
  \A i \in DOMAIN w : w[i].role = "assistant" =>
    \A k \in 1 .. w[i].calls : i + k \in DOMAIN w /\ w[i + k].role = "tool"

(* The result at i has its call before it, with results between.           *)
HasCall(w, i) ==
  \E k \in 1 .. i - 1 : /\ w[i - k].role = "assistant" /\ w[i - k].calls >= k
                         /\ \A j \in i - k + 1 .. i : w[j].role = "tool"

(* Compaction cut its call off: it is at the head of the tail.             *)
CutOff(w, i) == \A j \in 1 .. i : w[j].role \in {"system", "tool"} \/ w[j].summary

NoDoubles(w) ==
  \A i \in 2 .. Len(w) : w[i].role \in {"user", "assistant"} => w[i - 1].role # w[i].role

(* Requests are what the APIs accept, through failures, cancels, overflows,*)
(* Claude turns and compactions (BuildModelView, DoSendActualRequest): a   *)
(* call has its results, unless a frame closed amid tools; a result has    *)
(* its call, unless compaction has cut between them; no two neighbours of  *)
(* one role; and it is the model's turn to speak.                          *)
WellFormed ==
  phase = "request" =>
    LET w == Wire(hist)
    IN  /\ ~torn => Paired(w)
        /\ \A i \in DOMAIN w : w[i].role = "tool" => HasCall(w, i) \/ CutOff(w, i)
        /\ NoDoubles(w)
        /\ Last(w).role \in {"user", "tool"}

(* MaybeCompactThenSend's comment: "tail = history[split..] stays intact   *)
(* (so we never break tool_call / tool_result pairs)".  Not so: the tail   *)
(* is cut by its size, message by message.                                 *)
PairsKept ==
  phase = "request" =>
    LET w == Wire(hist)
    IN  \A i \in DOMAIN w : w[i].role = "tool" => HasCall(w, i)

(* Prompts without an answer, which give way to the prompt behind them.    *)
Superseded(h) ==
  LET t == Rest(h)
  IN  UNION {t[i].tells : i \in {j \in 1 .. Len(t) - 1 :
               t[j].role = "user" /\ t[j + 1].role = "user"}}

(* Summaries that give way to the assistant message behind them: a newer   *)
(* summary, or a tail that begins with one.                                *)
Displaced(h) ==
  LET r == Rest(h)
      cut == r # <<>> /\ (r[1].role = "assistant" \/ FromClaude(r[1]))
  IN  IF Summaries(h) = <<>> THEN {}
      ELSE Told(IF cut THEN Summaries(h) ELSE Front(Summaries(h)))

(* Nothing is forgotten but what the code lets go: a request tells the     *)
(* model of every message of the conversation, itself or in a summary, but *)
(* for what a failed summary or a failed turn took with it, a summary that *)
(* another one passed over, prompts that were never answered, and          *)
(* summaries displaced on the wire.  Chains of summaries, rolled back      *)
(* turns and cancelled ones included (RunSummaryThenSend,                  *)
(* ApplyCompaction, DoSendActualRequest).                                  *)
Remembered ==
  phase = "request" =>
    Told(hist) \subseteq Told(Wire(hist)) \cup lost \cup Superseded(hist) \cup Displaced(hist)

(* RunSummaryThenSend's comment: "A previous summary checkpoint is carried *)
(* forward", so that the chain does not break: the newest summary tells of *)
(* all the ones before it.  Not so when a second compaction of a turn cuts *)
(* before the prompt, and the first summary is behind it.                  *)
ChainKept == Told(Summaries(hist)) \subseteq NewestSummary(hist)

(* A Claude Code session knows, once it has its message, all of the        *)
(* conversation: from the transcript, from a summary in it, or from the    *)
(* turns it ran itself, whatever API turns, compactions, cancelled and     *)
(* failed runs and lost sessions came in between.                          *)
HandsOver ==
  phase = "claude" /\ run.session # NoSession =>
    Told(hist) \subseteq knows[run.session] \cup lost

(* ApplyCompaction's comment: "Append the summary checkpoint as the new    *)
(* head of the model view": the model is told what it tells.  Not so when  *)
(* the tail begins with an assistant message: the summary, one as well, is *)
(* dropped from the wire as a doubled role.                                *)
SummarySent ==
  phase = "request" => Told(Summaries(hist)) \subseteq Told(Wire(hist))
============================================================================
