--------------------------- MODULE ThreadRuntime ---------------------------
(***************************************************************************)
(* How gritcode's threads run: ChatFrame's turns, tool batches, subagents, *)
(* message queue, cancelling and closing (chat_frame.cpp), over the        *)
(* workers that call back into the GUI thread.                             *)
(*                                                                         *)
(* The GUI thread runs one handler at a time, so a handler is one action.  *)
(* Workers run at any time and append their callbacks to `mail`, the       *)
(* frame's CallAfter queue, which the GUI thread takes in order.           *)
(*                                                                         *)
(* Handlers call one another, so they are operators from the state of all  *)
(* threads to the next one, and the actions below apply them.  `how` says  *)
(* what a completion that is about to start meets: the model chosen, the   *)
(* size of the history, a missing API key or Claude Code executable.       *)
(***************************************************************************)
EXTENDS ThreadState

CONSTANTS
  MaxTurns,        \* bound: messages and Play presses of the user
  MaxRounds,       \* bound: rounds of tool calls in one turn
  SubRounds,       \* bound: the same for a subagent
  MaxLines,        \* bound: lines of Claude output waiting in mail
  UserMay,         \* bound: what else the user does, of UserMoves
  EditorPrompt     \* may the editor's save prompt refuse a close?

\* "play": Play is pressed while a subagent is shown.  "late": a message arrives
\* over MCP after the frame was hidden to close.
UserMoves == {"cancel", "close", "late", "play"}

ASSUME RuntimeAssumption ==
  /\ MaxTurns \in Nat /\ MaxLines \in Nat
  /\ MaxRounds \in Nat /\ SubRounds \in Nat
  /\ UserMay \subseteq UserMoves /\ EditorPrompt \in BOOLEAN

VARIABLES
  thr,     \* threads_: the record of each thread
  mail,    \* the GUI thread's queue of callbacks
  quit,    \* quitRequested_
  closed,  \* the frame is gone
  turns    \* messages and Play presses so far

vars == <<thr, mail, quit, closed, turns>>

Init ==
  /\ thr = [t \in Thread |-> IF t \in Top THEN [Unused EXCEPT !.open = TRUE] ELSE Unused]
  /\ mail = <<>>
  /\ quit = FALSE
  /\ closed = FALSE
  /\ turns = 0

-----------------------------------------------------------------------------
(***************************************************************************)
(* Starting work and ending turns.                                         *)
(***************************************************************************)
ApiHow    == {"completion", "summary", "nokey"}
ClaudeHow == {"resume", "fresh", "noexe"}
Refusal   == {"nokey", "noexe"}

\* Slip: the request takes the number of the one before.
SendRequestSameGen(ts, t, kind) ==
  [ts EXCEPT ![t].request = [kind |-> kind, gen |-> ts[t].gen, cancelled |-> FALSE]]

\* DoSendActualRequest with a key.
SendRequest(ts, t, kind) ==
  [ts EXCEPT
     ![t].gen = @ + 1,
     ![t].request = [kind |-> kind, gen |-> ts[t].gen + 1, cancelled |-> FALSE]]

\* RunSummaryThenSend.
SendSummary(ts, t) == SendRequest([ts EXCEPT ![t].compacting = TRUE], t, "summary")

\* StartClaudeTurn with an executable.
SpawnClaude(ts, t, resumed) ==
  [ts EXCEPT
     ![t].gen = @ + 1,
     ![t].proc = [on |-> TRUE, gen |-> ts[t].gen + 1, cancelled |-> FALSE],
     ![t].resumed = resumed,
     ![t].result = "none"]

\* Slip: subagents outlive the turn they ran in.
FinalizedAlone(ts, t) == [ts EXCEPT ![t].streaming = FALSE]

\* FinalizeTurn as far as it concerns t itself and the subagents it stops.
Finalized(ts, t) ==
  [u \in Thread |->
     IF u = t THEN [ts[u] EXCEPT !.streaming = FALSE]
     ELSE IF u \in RunningChildren(ts, t)
          THEN [ts[u] EXCEPT !.streaming = FALSE, !.failure = TRUE]
          ELSE ts[u]]

\* ShowTurnFailure keeps the reason.
Failed(ts, t) == [ts EXCEPT ![t].failure = TRUE]

\* A refused completion ends the turn at once; the summary request is left out
\* while one is being applied.
StartCompletion(ts, t, how) ==
  CASE how = "completion" -> SendRequest(ts, t, "completion")
    [] how = "summary" /\ ~ts[t].compacting -> SendSummary(ts, t)
    [] how = "summary" /\ ts[t].compacting -> SendRequest(ts, t, "completion")
    [] how \in {"resume", "fresh"} ->
         SpawnClaude([ts EXCEPT ![t].fresh = FALSE], t, how = "resume")
    [] OTHER -> Finalized(Failed(ts, t), t)

StartTurn(ts, t, how) ==
  StartCompletion(
    [ts EXCEPT
       ![t].forced = FALSE, ![t].stop = FALSE, ![t].failure = FALSE,
       ![t].claude = how \in ClaudeHow, ![t].streaming = TRUE, ![t].round = 0],
    t, how)

\* Slip: the last message of the queue is left waiting.
DispatchAllButLast(ts, t, how) ==
  IF ts[t].queue <= 1 THEN ts ELSE StartTurn([ts EXCEPT ![t].queue = @ - 1], t, how)

\* Slip: an empty queue is not noticed.
DispatchUnchecked(ts, t, how) == StartTurn([ts EXCEPT ![t].queue = @ - 1], t, how)

DispatchNextQueued(ts, t, how) ==
  IF ts[t].queue = 0 THEN ts ELSE StartTurn([ts EXCEPT ![t].queue = @ - 1], t, how)

-----------------------------------------------------------------------------
(***************************************************************************)
(* Tool batches and subagents.  Subagents are one level deep: the parent   *)
(* that a subagent's end wakes is a top-level thread.                      *)
(***************************************************************************)
\* Slip: only the worker is waited for.
WorkerOver(ts, t) == ts[t].tools.state = "off"

BatchOver(ts, t) == ts[t].tools.state = "off" /\ ~HasRunningChild(ts, t)

BatchRecorded(ts, t) == [ts EXCEPT ![t].token = "none", ![t].batch = NoBatch]

NextRound(ts, t, how) ==
  StartCompletion([BatchRecorded(ts, t) EXCEPT ![t].round = @ + 1], t, how)

\* OnToolBatchDone of a top-level thread.
WakeParent(ts, p, how) ==
  IF ~BatchOver(ts, p) THEN ts
  ELSE IF ts[p].token = "cancelled" THEN Finalized(BatchRecorded(ts, p), p)
       ELSE NextRound(ts, p, how)

\* Slip: the report is written but the parent is not woken.
ReportUnheard(ts, c, failed, how) ==
  LET p == ts[c].parent
  IN  IF p = NoThread \/ ts[p].batch[c] = "absent" THEN ts
      ELSE [ts EXCEPT ![p].batch[c] = "report"]

\* A Claude Code subagent has no entry in its parent's batch.
ReportToParent(ts, c, failed, how) ==
  LET p == ts[c].parent
      report == CASE ~failed -> "report"
                  [] failed /\ ts[c].failure -> "failed"
                  [] OTHER -> "cancelled"
  IN  IF p = NoThread \/ ts[p].batch[c] = "absent" THEN ts
      ELSE WakeParent([ts EXCEPT ![p].batch[c] = report], p, how)

\* FinalizeTurn.
EndTurn(ts, t, failed, how, phow) ==
  IF t \in Sub THEN ReportToParent(Finalized(ts, t), t, failed, phow)
  ELSE IF failed THEN Finalized(ts, t)
       ELSE DispatchNextQueued(Finalized(ts, t), t, how)

\* StartCompletion of any thread: a refused subagent reports.
Proceed(ts, t, how, phow) ==
  LET e == StartCompletion(ts, t, how)
  IN  IF how \in Refusal THEN ReportToParent(e, t, TRUE, phow) ELSE e

\* OnToolBatchDone of any thread.
OnToolBatchDone(ts, t, how, phow) ==
  CASE ~BatchOver(ts, t) -> ts
    [] BatchOver(ts, t) /\ ts[t].token = "cancelled" ->
         EndTurn(BatchRecorded(ts, t), t, TRUE, how, phow)
    [] OTHER -> Proceed([BatchRecorded(ts, t) EXCEPT ![t].round = @ + 1], t, how, phow)

\* OpenChild: a thread of its own that shows a running turn.
Child(t) == [Unused EXCEPT !.open = TRUE, !.parent = t, !.streaming = TRUE]

\* StartSubagent: its first completion; a refused one has reported already.
TaskChild(t, how) ==
  IF how = "nokey" THEN [Child(t) EXCEPT !.streaming = FALSE, !.failure = TRUE]
  ELSE [Child(t) EXCEPT
          !.gen = 1, !.request = [kind |-> "completion", gen |-> 1, cancelled |-> FALSE]]

\* HandleCompletion with tool calls: the worker, and one subagent per `task`.
StartToolBatch(ts, t, kids, how) ==
  [u \in Thread |->
     CASE u = t -> [ts[u] EXCEPT
            !.gen = @ + 1,
            !.tools = [state |-> "running", gen |-> ts[t].gen + 1],
            !.token = "live",
            !.batch = [c \in Sub |-> IF c \notin kids THEN "absent"
                                     ELSE IF how = "nokey" THEN "failed" ELSE "empty"]]
       [] u \in kids -> TaskChild(t, how)
       [] OTHER -> ts[u]]

-----------------------------------------------------------------------------
(***************************************************************************)
(* Cancelling and closing.                                                 *)
(***************************************************************************)
Signalled(r) ==
  [r EXCEPT !.stop = r.stop \/ r.streaming,
            !.request = [r.request EXCEPT !.cancelled = r.request.kind # "off"],
            !.proc = [r.proc EXCEPT !.cancelled = r.proc.on],
            !.token = IF @ = "none" THEN "none" ELSE "cancelled"]

\* The thread that runs t: a Claude Code subagent runs in its parent's process.
Runner(ts, t) ==
  IF t \in Sub /\ ts[t].parent # NoThread /\ ts[ts[t].parent].proc.on THEN ts[t].parent ELSE t

\* Slip: a batch is cancelled without its subagents.
ReachedAlone(ts, t) == {Runner(ts, t)}

\* The threads RequestCancel(t) signals: a batch's subagents with it.
Reached(ts, t) ==
  LET u == Runner(ts, t)
  IN  {u} \cup (IF ts[u].token = "none" THEN {} ELSE RunningChildren(ts, u))

Signal(ts, S) == [u \in Thread |-> IF u \in S THEN Signalled(ts[u]) ELSE ts[u]]

RequestCancel(ts, t) == Signal(ts, Reached(ts, t))

CancelAll(ts) == Signal(ts, UNION {Reached(ts, t) : t \in {u \in Thread : ts[u].open}})

\* OnClose; a refused save prompt vetoes it.
Close(ts) ==
  IF \E t \in Thread : Busy(ts, t)
  THEN quit' = TRUE /\ thr' = CancelAll(ts) /\ UNCHANGED closed
  ELSE /\ \/ closed' = TRUE
          \/ EditorPrompt /\ UNCHANGED closed
       /\ thr' = ts
       /\ UNCHANGED quit

-----------------------------------------------------------------------------
(***************************************************************************)
(* The user, and the MCP server acting for one.  Any open thread can be    *)
(* the shown one.                                                          *)
(***************************************************************************)
UserInput ==
  /\ ~closed /\ (quit => "late" \in UserMay)
  /\ turns < MaxTurns /\ turns' = turns + 1
  /\ UNCHANGED <<mail, quit, closed>>

\* OnSend on an idle thread.  Subagent threads are view-only.
Send(t) ==
  /\ UserInput
  /\ t \in Top /\ ~thr[t].streaming
  /\ \E how \in ApiHow \cup ClaudeHow : thr' = StartTurn(thr, t, how)

\* OnSend on a running one: EnqueueMessage, up to kMaxQueue_.
Enqueue(t) ==
  /\ UserInput
  /\ t \in Top /\ thr[t].streaming /\ thr[t].queue < MaxQueue
  /\ thr' = [thr EXCEPT ![t].queue = @ + 1]

\* OnPlay with no command stored for the folder.
Play(t) ==
  /\ UserInput
  /\ thr[t].open /\ ~thr[t].streaming
  /\ t \in Sub => "play" \in UserMay /\ ~quit
  /\ \E how \in ApiHow \cup ClaudeHow, phow \in ApiHow :
       /\ t \in Sub => how \in ApiHow
       /\ LET e == StartTurn(thr, t, how)
          IN  thr' = IF how \in Refusal THEN ReportToParent(e, t, TRUE, phow) ELSE e

\* A hidden frame has no buttons; MCP can still cancel.
UserChoice(t) == ~closed /\ thr[t].open /\ UNCHANGED <<mail, quit, closed, turns>>

\* The queue row's buttons: Continue and Clear when idle, a chip's x always.
ContinueQueue(t) ==
  /\ UserChoice(t) /\ ~quit
  /\ ~thr[t].streaming /\ thr[t].queue > 0
  /\ \E how \in ApiHow \cup ClaudeHow : thr' = DispatchNextQueued(thr, t, how)

ClearQueue(t) ==
  /\ UserChoice(t) /\ ~quit
  /\ ~thr[t].streaming /\ thr[t].queue > 0
  /\ thr' = [thr EXCEPT ![t].queue = 0]

RemoveChip(t) ==
  /\ UserChoice(t) /\ ~quit
  /\ thr[t].queue > 0
  /\ thr' = [thr EXCEPT ![t].queue = @ - 1]

\* Escape, "Stop" in the thread list, MCP's cancel.
Cancel(t) ==
  /\ "cancel" \in UserMay
  /\ UserChoice(t)
  /\ thr' = RequestCancel(thr, t)

CloseWindow == "close" \in UserMay /\ ~closed /\ ~quit /\ Close(thr) /\ UNCHANGED <<mail, turns>>

-----------------------------------------------------------------------------
(***************************************************************************)
(* The workers.  A worker stops being active just before it posts.         *)
(***************************************************************************)
Post(t, gen, kind, out) ==
  mail' = Append(mail, [to |-> t, gen |-> gen, kind |-> kind, out |-> out])

Rounds(t) == IF t \in Sub THEN SubRounds ELSE MaxRounds

\* curl returns: a cancelled transfer may still have completed.
RequestEnds(t) ==
  /\ ~closed
  /\ thr[t].request.kind # "off"
  /\ \E out \in {"text", "calls", "overflow", "error", "ended", "cancelled"} :
       /\ out = "cancelled" => thr[t].request.cancelled
       /\ out = "calls" => thr[t].round < Rounds(t)
       /\ thr[t].request.kind = "completion" => out # "ended"
       /\ thr[t].request.kind = "summary" => out \in {"ended", "cancelled"}
       /\ Post(t, thr[t].request.gen, thr[t].request.kind, out)
  /\ thr' = [thr EXCEPT ![t].request = RequestOff]
  /\ UNCHANGED <<quit, closed, turns>>

ToolsEnd(t) ==
  /\ ~closed
  /\ thr[t].tools.state = "running"
  /\ Post(t, thr[t].tools.gen, "tools", "ended")
  /\ thr' = [thr EXCEPT ![t].tools.state = "reported"]
  /\ UNCHANGED <<quit, closed, turns>>

\* A line of Claude Code's output.
ClaudeSays(t) ==
  /\ ~closed
  /\ thr[t].proc.on
  /\ Cardinality({i \in DOMAIN mail : mail[i].kind \in ClaudeLine}) < MaxLines
  /\ \E kind \in ClaudeLine : Post(t, thr[t].proc.gen, kind, "line")
  /\ UNCHANGED <<thr, quit, closed, turns>>

\* RunProcess returns: "error" is a process that never started.  A cancel can
\* come too late to show in the result.
ClaudeEnds(t) ==
  /\ ~closed
  /\ thr[t].proc.on
  /\ \E out \in {"ended", "gone", "error", "cancelled"} :
       /\ out = "cancelled" => thr[t].proc.cancelled
       /\ Post(t, thr[t].proc.gen, "claude", out)
  /\ thr' = [thr EXCEPT ![t].proc = ProcOff]
  /\ UNCHANGED <<quit, closed, turns>>

-----------------------------------------------------------------------------
(***************************************************************************)
(* The callbacks, on the GUI thread.                                       *)
(***************************************************************************)
TakeCall == ~closed /\ mail # <<>> /\ mail' = Tail(mail) /\ UNCHANGED turns

\* Find(id, gen) fails: the thread's work has been replaced since.
DropStale ==
  /\ TakeCall
  /\ ~Found(thr, Head(mail))
  /\ UNCHANGED <<thr, quit, closed>>

Take(kind) == TakeCall /\ Found(thr, Head(mail)) /\ Head(mail).kind = kind

Handle(kind, out) ==
  ~quit /\ Take(kind) /\ Head(mail).out = out /\ UNCHANGED <<quit, closed>>

\* Slip: the frame closes again before the tool worker is marked done.
CloseAgainStillRunning ==
  quit /\ \E kind \in {"completion", "summary", "claude", "tools"} : Take(kind) /\ Close(thr)

\* A phase ends while the frame waits to close.
CloseAgain ==
  /\ quit
  /\ \/ \E kind \in {"completion", "summary", "claude"} : Take(kind) /\ Close(thr)
     \/ Take("tools") /\ Close([thr EXCEPT ![Head(mail).to].tools = ToolsOff])

\* OnStreamDone, by how the response ended; HandleCompletion.
OnCompletionCancelled(t) ==
  /\ Handle("completion", "cancelled") /\ t = Head(mail).to
  /\ \E phow \in ApiHow :
       thr' = IF thr[t].streaming THEN EndTurn(thr, t, TRUE, "nokey", phow) ELSE thr

OnCompletionFailed(t) ==
  /\ \E out \in {"error", "overflow"} : Handle("completion", out)
  /\ t = Head(mail).to
  /\ \E phow \in ApiHow : thr' = EndTurn(Failed(thr, t), t, TRUE, "nokey", phow)

\* ForceCompactForOverflow, once a turn.
OnOverflow(t) ==
  /\ Handle("completion", "overflow") /\ t = Head(mail).to
  /\ ~thr[t].forced
  /\ \E phow \in ApiHow :
       LET e == [thr EXCEPT ![t].forced = TRUE]
       IN  thr' \in {SendSummary(e, t), Proceed(e, t, "nokey", phow)}

OnReply(t) ==
  /\ Handle("completion", "text") /\ t = Head(mail).to
  /\ \E how \in ApiHow \cup ClaudeHow, phow \in ApiHow : thr' = EndTurn(thr, t, FALSE, how, phow)

OnToolCalls(t) ==
  /\ Handle("completion", "calls") /\ t = Head(mail).to
  /\ \E kids \in SUBSET {c \in Sub : ~thr[c].open}, how \in {"completion", "nokey"} :
       /\ t \in Sub => kids = {}
       /\ thr' = StartToolBatch(thr, t, kids, how)

\* OnSummaryStreamDone and ApplyCompaction, which sends the request itself.
OnSummaryCancelled(t) ==
  /\ Handle("summary", "cancelled") /\ t = Head(mail).to
  /\ \E phow \in ApiHow :
       thr' = EndTurn([thr EXCEPT ![t].compacting = FALSE], t, TRUE, "nokey", phow)

OnSummary(t) ==
  /\ Handle("summary", "ended") /\ t = Head(mail).to
  /\ \E how \in {"completion", "nokey"}, phow \in ApiHow :
       thr' = Proceed([thr EXCEPT ![t].compacting = FALSE], t, how, phow)

\* The tool worker's last callback.
OnToolsDone(t) ==
  /\ Handle("tools", "ended") /\ t = Head(mail).to
  /\ \E how, phow \in ApiHow :
       thr' = OnToolBatchDone([thr EXCEPT ![t].tools = ToolsOff], t, how, phow)

\* OnClaudeDone.
OnClaudeCancelled(t) ==
  /\ Handle("claude", "cancelled") /\ t = Head(mail).to
  /\ thr' = Finalized(thr, t)

OnClaudeGone(t) ==
  /\ Handle("claude", "gone") /\ t = Head(mail).to
  /\ thr[t].resumed /\ ~thr[t].fresh /\ thr[t].result # "ok"
  /\ LET e == [thr EXCEPT ![t].fresh = TRUE]
     IN  thr' \in {SpawnClaude(e, t, FALSE), Finalized(Failed(e, t), t)}

OnClaudeReply(t) ==
  /\ \E out \in {"ended", "gone"} : Handle("claude", out)
  /\ t = Head(mail).to
  /\ thr[t].result = "ok"
  /\ \E how \in ApiHow \cup ClaudeHow, phow \in ApiHow : thr' = EndTurn(thr, t, FALSE, how, phow)

OnClaudeFailed(t) ==
  /\ \/ Handle("claude", "error")
     \/ Handle("claude", "ended") /\ thr[t].result # "ok"
     \/ Handle("claude", "gone") /\ thr[t].result # "ok" /\ ~(thr[t].resumed /\ ~thr[t].fresh)
  /\ t = Head(mail).to
  /\ thr' = Finalized(Failed(thr, t), t)

\* HandleClaudeEvent.  Lines are handled even while the frame waits to close.
ClaudeEvent(t, kind) == Take(kind) /\ t = Head(mail).to /\ UNCHANGED <<quit, closed>>

OnAgentStarted(t) ==
  /\ ClaudeEvent(t, "agent")
  /\ IF t \in Top /\ \E c \in Sub : ~thr[c].open
     THEN \E c \in Sub : ~thr[c].open /\ thr' = [thr EXCEPT ![c] = Child(t)]
     ELSE UNCHANGED thr

\* Claude names the agent; any that runs under t may be the one.
OnAgentEnded(t) ==
  /\ \E kind \in {"agentOk", "agentFailed"} :
       /\ ClaudeEvent(t, kind)
       /\ IF HasRunningChild(thr, t)
          THEN \E c \in RunningChildren(thr, t), phow \in ApiHow :
                 LET e == IF kind = "agentOk" THEN thr ELSE Failed(thr, c)
                 IN  thr' = EndTurn(e, c, kind = "agentFailed", "nokey", phow)
          ELSE UNCHANGED thr

OnResult(t) ==
  /\ \E kind \in {"resultOk", "resultError"} :
       /\ ClaudeEvent(t, kind)
       /\ thr' = [thr EXCEPT ![t].result = IF kind = "resultOk" THEN "ok" ELSE "error"]

-----------------------------------------------------------------------------
User(t) ==
  \/ Send(t) \/ Enqueue(t) \/ Play(t)
  \/ ContinueQueue(t) \/ ClearQueue(t) \/ RemoveChip(t)
  \/ Cancel(t)

Worker(t) == RequestEnds(t) \/ ToolsEnd(t) \/ ClaudeSays(t) \/ ClaudeEnds(t)

Callback(t) ==
  \/ OnCompletionCancelled(t) \/ OnCompletionFailed(t) \/ OnOverflow(t)
  \/ OnReply(t) \/ OnToolCalls(t)
  \/ OnSummaryCancelled(t) \/ OnSummary(t)
  \/ OnToolsDone(t)
  \/ OnClaudeCancelled(t) \/ OnClaudeGone(t) \/ OnClaudeReply(t) \/ OnClaudeFailed(t)
  \/ OnAgentStarted(t) \/ OnAgentEnded(t) \/ OnResult(t)

GuiThread == DropStale \/ CloseAgain \/ \E t \in Thread : Callback(t)

Next ==
  \/ \E t \in Thread : User(t) \/ Worker(t)
  \/ CloseWindow
  \/ GuiThread

Spec == Init /\ [][Next]_vars

(***************************************************************************)
(* Fairness.  The event loop runs.  A request ends by its idle timeout, a  *)
(* tool by its own timeout (unless what bash left behind writes to its     *)
(* pipe for ever: Returns in Bash), and a cancelled Claude process by the  *)
(* signals RunProcess sends it; one nobody cancels may run for ever.       *)
(***************************************************************************)
Fairness ==
  /\ WF_vars(GuiThread)
  /\ \A t \in Thread :
       /\ WF_vars(RequestEnds(t))
       /\ WF_vars(ToolsEnd(t))
       /\ WF_vars(thr[t].proc.cancelled /\ ClaudeEnds(t))

FairSpec == Spec /\ Fairness

-----------------------------------------------------------------------------
\* Every record keeps the shape of `struct Thread`, and mail holds callbacks.
TypeOK ==
  /\ thr \in [Thread -> ThreadType]
  /\ mail \in Seq(Call)
  /\ quit \in BOOLEAN
  /\ closed \in BOOLEAN
  /\ turns \in 0..MaxTurns

\* The work t waits for itself: a worker, or the last callback of one, that it
\* has not moved on from.
Requesting(t) == thr[t].request.kind # "off" /\ thr[t].request.gen = thr[t].gen
ToolsRun(t)   == thr[t].tools.state = "running" /\ thr[t].tools.gen = thr[t].gen
ClaudeRuns(t) == thr[t].proc.on /\ thr[t].proc.gen = thr[t].gen

Awaited(t, m) == m.to = t /\ m.gen = thr[t].gen /\ m.kind \in LastCall

Announced(t) == \E i \in DOMAIN mail : Awaited(t, mail[i])

Pending(t) == Requesting(t) \/ ToolsRun(t) \/ ClaudeRuns(t) \/ Announced(t)

\* A turn that runs is always woken: by a worker of its own, by a `task`
\* subagent whose report the batch waits for, or, in a Claude Code subagent,
\* by its parent's process.  No turn waits for something that never comes.
NeverStuck ==
  \A t \in Thread : thr[t].streaming /\ ~quit =>
    \/ Pending(t)
    \/ \E c \in RunningChildren(thr, t) : thr[t].batch[c] = "empty" /\ Pending(c)
    \/ t \in Sub /\ thr[thr[t].parent].claude /\ Pending(thr[t].parent)

\* A thread waits for one thing at a time: Find(id, gen) never lets a reply
\* in while another worker of the turn runs, nor two replies to one wait.
OneJob ==
  \A t \in Thread :
    /\ ~(Requesting(t) /\ ToolsRun(t))
    /\ ~(Requesting(t) /\ ClaudeRuns(t))
    /\ ~(ToolsRun(t) /\ ClaudeRuns(t))
    /\ Announced(t) => ~Requesting(t) /\ ~ToolsRun(t) /\ ~ClaudeRuns(t)
    /\ \A i, j \in DOMAIN mail : Awaited(t, mail[i]) /\ Awaited(t, mail[j]) => i = j

\* A subagent runs only inside its parent's turn: in the batch that waits for
\* its report, or in the Claude run that streams it.
Nested ==
  \A c \in Sub : thr[c].streaming =>
    LET p == thr[c].parent
    IN  /\ thr[p].streaming
        /\ thr[p].batch[c] = "empty" \/ thr[p].claude

\* Messages stay queued behind no turn only after a failure or a cancel.
IdleQueue ==
  \A t \in Thread : thr[t].queue > 0 /\ ~thr[t].streaming => thr[t].failure \/ thr[t].stop

\* Cancelling a batch has told every subagent of it to stop.
CancelReachesSubagents ==
  \A p \in Top : thr[p].token = "cancelled" => \A c \in RunningChildren(thr, p) : thr[c].stop

\* A batch's results are recorded once every `task` has one.
BatchComplete ==
  [][\A t \in Thread : thr[t].batch # NoBatch /\ thr'[t].batch = NoBatch =>
       \A c \in Sub : thr[t].batch[c] = "empty" => thr'[c].streaming = FALSE /\ thr[c].streaming]_vars

\* A tool batch ends once its worker and its subagents are done: none is left
\* over with nobody to record it.
\* Does not hold: see "What does not hold" in the README.
BatchEnds ==
  \A t \in Thread : thr[t].token # "none" /\ ~quit => ~BatchOver(thr, t)

\* FinalizeTurn's comment: "Error/cancel: drop into idle-queue mode [...], so the
\* user decides what to do": a turn that was stopped is not followed at once by
\* the next message of the queue. Not so when its worker's answer was complete
\* by then: the end of the turn does not look at stopRequested.
StoppedKeepsQueue ==
  [][\A t \in Top : thr[t].streaming /\ thr[t].stop => thr'[t].stop]_vars

\* A turn that waits for a Claude Code process nobody cancels may wait for ever.
ClaudeWait(t) == thr[t].proc.on /\ ~thr[t].proc.cancelled

AtRest ==
  \/ closed
  \/ /\ ~quit
     /\ \A t \in Thread : \/ ~thr[t].streaming
                         \/ ClaudeWait(t) \/ (t \in Sub /\ ClaudeWait(thr[t].parent))

\* Left alone, every turn comes to an end, and a frame that waits to close
\* does: each worker that is due reports, and the last report of a phase goes
\* on to the next phase, the parent, the queue or the close.
Settles == []<>AtRest
=============================================================================
