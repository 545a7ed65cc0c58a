# gritcode, specified

gritcode is a desktop client for coding agents: one frame (`ChatFrame`), several
conversations ("threads"), each running turns against an HTTP model or through
the user's own Claude Code CLI, with tools, subagents, a message queue and an MCP
server that can drive the frame. This directory specifies it in TLA+, checks
small instances with TLC and proves what matters for all of them with TLAPS.

## The system

| Part | State it keeps | Operations | Hard about it |
|---|---|---|---|
| Thread runtime (`chat_frame.cpp`) | `threads_`: per thread the turn (`streaming`, `stopRequested`, `failure`, `gen`), its three workers, the tool batch and its cancel token, compaction and retry flags, the queue; `quitRequested_` | send, enqueue, continue/clear the queue, Play, cancel, close; the callbacks of the workers | handlers calling one another (a refused request ends a turn that reports to a parent that starts the next request); callbacks arriving after a cancel, in any order; batches that wait for several workers |
| API requests (`streaming_web_request.cpp`) | a curl thread per request, `cancelled`, `active` | start, cancel, data, done | a transfer completes although it was cancelled; chunks cut lines |
| Claude Code process (`claude_agent.cpp`) | a child process and its reader thread | start, cancel (SIGINT, SIGTERM, SIGKILL), lines, done | escalation by time against an exiting process; pipes that fill both ways |
| Conversation history (`chat_frame.cpp`) | the messages of a thread, which of them are compacted, the summary, the Claude session | record, roll back, compact, build the wire view, hand over to Claude Code | roll-back past a summary; cutting between a call and its result; sessions that know only a part |
| Frame (`chat_frame.cpp`, `thread_list.cpp`) | shown thread, input, images, drafts, `unseen`, `failureNotice`, `failedPrompt`, the list as drawn, briefs | open, show, switch, type, attach, turns that end in the background, briefs that arrive | the save dialog inside `ShowThread` runs everything else nested; MCP acts between any two steps |
| Session store (`session_store.cpp`, `memory.cpp`) | session files, the index, the search index, a persist worker per window | open, save, reindex, quit | turns kept in memory until they end; crashes and failing writes between the files; several windows; 0.5.x windows |
| Editor (`chat_frame.cpp`) | the open file, its text and flags, its stamp, the refresh timer | load, edit, save, rename, switch folder, changed-on-disk prompt | dialogs inside dialogs; agents writing the open file |
| Tools (`tools.cpp`) | the bash subprocess, the cancel token | read, write, bash, search | timeout against exit against cancel; processes that keep the pipe, or write on and on |
| MCP server and Play runs (`mcp_server.cpp`, `chat_frame.cpp`) | the server thread and its client, `guiSync` calls, one Play run per folder | serve, call, play, stop, tear down | everyone waits for the GUI thread, and it joins everyone; clients that hang up or do not read |
| Markdown stream and rendering (`md_parser.cpp`, `chat_frame.cpp`) | the open block, the blocks drawn, what is in flight | feed, flush, draw anew | blocks drawn live and blocks drawn from the history must agree |
| Canvas (`chat_canvas.cpp`) | blocks, cached heights and lines, `blockTops_`, the view | add, grow, fold, resize, scroll, paint | estimates, stale layouts, a view that moves while blocks are measured |
| Settings, themes, preferences, images | | drawing, dialogs, stored values | no protocol |

The GUI thread runs handlers one at a time. Workers (curl, the tool worker, the
Claude reader, Play, the brief, the persist worker) run beside it and talk to it
by `CallAfter`: closures in a queue that carry a thread id and a `gen`, and are
dropped by `Find(id, gen)` when the thread has moved on. The MCP server's thread
waits for the GUI thread (`guiSync`). A modal dialog runs the same queue nested.

## Modules

| Module | Of the code | Composes / is composed by |
|---|---|---|
| `ThreadState`, `ThreadRuntime` | turns, batches, subagents, queue, cancel, close | workers are `StreamEvents`, `Bash`, `ClaudeProcess` seen from outside: they end once, in any way |
| `ClaudeProcess` | POSIX `RunProcess`, one run of the CLI | |
| `StreamEvents` | `TakeSseEvents` | |
| `ConversationView`, `Conversation` | history, roll-back, compaction, wire messages, hand-over | the machine EXTENDS the view |
| `ThreadLog` | what the store promises, abstractly | |
| `SessionStore`, `MCSessionStore` | index, session files, persist worker, search index | implements `ThreadLog` |
| `Editor` | the editor pane and the tools that write files | |
| `Bash` | `ToolBash` and `ToolBashDirect` | |
| `Frame` | threads shown and left, what the user is told, briefs | turns of `ThreadRuntime` begin and end here |
| `Bridge` | MCP server thread, `guiSync`, Play runs, destructor | a Play command is `Bash` seen from outside |
| `Markdown`, `Rendering` | `MdStream`; blocks drawn live and drawn anew | `Rendering` EXTENDS `Markdown` |
| `Canvas` | layout of the chat canvas | |
| `ThreadRuntimeProofs`, `ConversationProofs`, `SessionStoreProofs`, `BashProofs`, `EditorProofs`, `FrameProofs`, `CanvasProofs`, `BridgeProofs` | theorems | each EXTENDS the module it is about; `ConversationProofs` those of `ClaudeProcess` as well |

### `ThreadState` and `ThreadRuntime`

`thr` is `threads_` (a function from names to records; `open` marks those that
exist), `mail` the frame's `CallAfter` queue, `quit` is `quitRequested_`, `closed`
says that the frame is gone, `turns` counts what the user did, for the bound.

How the code maps. A handler is one action. Handlers that call each other are
operators from one function of records to the next (`StartTurn`, `EndTurn`,
`ReportToParent`, `WakeParent`, ...), so `OnReply` of a subagent contains, as in
the code, the report, the parent's `OnToolBatchDone` and the parent's next
request. Workers are three fields of a record: `request` (curl), `tools` (the
worker and `toolWorkerRunning`), `proc` (Claude Code); each has the gen it
captured and ends by posting one last callback. `IsActive` turns false just
before the post; `toolWorkerRunning` only when the GUI thread handles it, so
`tools` has the state "reported".

Choices that depend on data are nondeterministic: `how` is what a completion that
is about to start meets (an API model, with a history that fits or needs a
summary first; a Claude model that resumes a session or not; a missing key or
executable, "nokey" and "noexe", which end the turn inside the call).
`out` is how a worker ended. In detail:

- `ContinueQueue`, `ClearQueue`, `RemoveChip` need a visible frame; MCP's send,
  play and cancel work in a hidden one ("late", `Cancel`).
- A summary that cannot be sent for want of a key applies a compaction without a
  summary and then meets the same missing key: "nokey".
- A Claude line names a subagent by its call; here a new name is taken when the
  line is handled, and any running subagent may be the one that ends. A line that
  starts an agent when all of `Sub` is used does nothing (a bound).
- Subagents on HTTP models never run a Claude turn: `SubagentModelIndex` and
  `CompletionRoute` see to that.
- The callback of a request that is replaced while it runs is left out when the
  replacing happens first: its gen is old, so `DropStale` would drop it. When it
  was posted before, it is in `mail` and is dropped.
- The save prompt of the editor is a modal dialog; here it is a choice within
  `OnClose`. Play in a subagent of a hidden frame is left out.
- Subagents restored from disk (all ended) are not in `Init`.

### `ClaudeProcess` and `StreamEvents`

`at` is where the worker of a run is; a turn of its loop is `Top` (signals), `Io`
(poll, feed, drain) and `Reap` (waitpid and the ways out). The CLI, and one process
it started (in its group, or in a group of its own), write to the same pipes and
end when they like.

- Data is counted in chunks. Whether an output pipe holds something the *CLI*
  wrote is kept apart (`unread`), because its children write there too.
- Only the worker reads the clock, once a loop, so time passes in `Top`, by any
  amount; ages stop one past their limit, after which nothing tells them apart.
- SIGINT and SIGTERM only let a process choose to end, which it may do anyway
  (`CliEnds`, `ToolEnds`); SIGKILL ends the CLI and what is in its group.
- Interrupted calls and full-buffer reads repeat in the code; here a drain takes
  all there is, and a feed all that fits.
- The Windows `RunProcess` (a job object and two reader threads) is not modelled.
- `StreamEvents` is called with every cut of every short text. A letter stands for
  CR, LF, `data:` or anything else. It uses recursive operators.

### `ConversationView` and `Conversation`

`hist` is `history`; a message keeps its role, its kind of turn, its calls, a size
and compaction's marks, and for text the set `tells` of the messages it lets a
model know of (itself, or for a summary all that went into it). The view operators
are pure: pruning, folding of Claude turns, doubled roles, the tail that compaction
keeps, the transcript for Claude Code. The machine runs one conversation's turns one
after the other, on an API or on Claude Code, failing, cancelled or interrupted by
a quit at each point.

- Ghost state: what each Claude session was told (`knows`), which sessions Claude Code
  has pruned (`gone`; they stay gone), what was hidden without a summary (`lost`: a
  failed summary, a summary that another one passed over, a turn rolled back after it
  compacted), a quit inside a batch (`torn`, which leaves calls without results).
- With `--resume` the CLI keeps its session id. `EarlyCancel` (may a cancelled CLI end
  before it named its session?) is FALSE in the run.
- Compaction cuts wherever the tail's budget ends (`SelectTailSplit`): between turns,
  behind a prompt, between a call and its results. `WellFormed` and `Remembered` say
  what is left of the wire then; what the code's comments say of it is under "What does
  not hold".
- Left out: that `HandoverTranscript` and the summary's prompt are cut to a maximum
  (120,000 characters; the transcript's size cap), so `HandsOver` and `Remembered` are
  about conversations below it. `Restart` is a quit with this conversation shown, which
  saves it as it is; what a turn in the background loses is `SessionStore`'s.

### `ThreadLog` and `SessionStore`

`ThreadLog` is the promise: a thread grows or falls back in memory and is saved now
and then; what is kept of it is one of its saves and only moves forward to later ones,
and reopening gives what was kept. `SessionStore` has the steps. A turn records its
prompt and its messages in memory (`TurnBegins`, `TurnRecords`); a compaction saves in
the middle of it (`Compacts`), its end saves, as it is or rolled back (`TurnEnds`). A
save writes the index through a temporary file and a rename (`IndexWrite`,
`IndexRename`), joins the previous persist worker and starts one (`StartPersist`),
which writes the session file and then the rows of `memory.db` in a transaction;
`--reindex` and a 0.5.x window come in between; each write of a file may fail, which
nobody looks at; a process dies at any step. `Quit` is the last pass of `OnClose`: it
saves the shown thread, also when it or another thread is in a turn that a deferred
close has left unfinished. `KeepsPromise` is `ThreadLog!Spec` under
`live <- hist, log <- saves, kept <- file`.

A history is known by its length, a save by its number. A failed write is one that leaves
the old file, as the temporary file and the rename do. Not modelled: one thread in
two windows, power loss, the copy that `AtomicWrite` falls back to.

### `Editor`

`stack` is what the GUI thread is in the middle of: dialogs and file accesses in
two steps, innermost first, each with what its caller goes on with (`Continuations`).
`Answer...` are the user's answers; `EventLoop` is what runs inside a dialog (the
refresh timer, MCP's switch of folder and toggle); `ToolOpens` and `ToolWrites` are a
tool that truncates and writes. A stamp is known by whether it is still that of the
file. Not modelled: New File or Rename onto the path of the open file after that was
deleted, a change in the gap between a read and its stamp leading to the
same stamp, an unnoticed failure to flush, tree items kept across a dialog, and two
threads that edit one file (the code promises nothing of those).

### `Bash`

One command: the worker's loop (`Top` looks at cancel, timeout and grace, `Poll`
reads, `Reap` waits, `Drain` and `Close` end it), bash, a process in its group that may
be deaf to SIGTERM and one in a session of its own, and `RequestCancel` in two steps
(it loads `activePgid`, then signals). Time is counted in turns of the loop. What bash
itself writes is counted and bounded; the other processes write as long as they like,
without bound. `Direct`, open at the start, is the Play button's variant, which has no
timeout and no last SIGKILL. The Windows runner is not modelled.

### `Frame`

`threads`, `active`, `input`, `images` are the frame's; `th` what each thread holds.
A text is known by the thread it was put in for. `dialogs` are the save dialogs that
`ShowThread` waits in, with the index it goes on with; meanwhile MCP calls and ends
of turns happen, as they do in its nested loop. `display` is the list and the marks
as last drawn, `owed` (history) what the user has not been shown.

- The times by which a folder's last thread is chosen are any.
- MCP's new, select, switch and play are the user's actions, allowed in a dialog.
  A user action may come between a posted event and its handling, which the
  toolkit's queue mostly prevents.
- A large history is drawn after the first paint of a placeholder (`loading`,
  `RestoreSession`).
- `OpensInDialog` (may a thread be opened while the dialog is up?) is FALSE in the
  run: see "What does not hold".

### `Bridge`

The server thread accepts one client at a time, receives in pieces, and for a "call"
posts to the GUI thread and waits in rounds of 100 ms that end with the result or with
`destroying_`; then it sends the answer, which waits as long as the client is there and
does not read (`Send`; a socket has room for `Room` answers). A client reads, or hangs
up, when it likes; one without data is dropped. `Play` joins the folder's previous run
on the GUI thread; a run ends by itself or because it is cancelled, and reports by its
token. The destructor cancels, stops the server, then joins the runs. That a cancelled
command ends is `Returns` of `Bash`, for `ToolBashDirect` as for `ToolBash`: its loop
ends whatever the processes do, and it returns unless one of them writes to its pipe
for ever. The joins
of the persist worker and of the threads' workers are not separate steps.

### `Markdown` and `Rendering`

`Markdown` is the line machine of `MdStream`: tokens say what a line is; inline marks
do not change which blocks there are. `Rendering` has one thread: its history, the
reply in flight, the stream, and the canvas, over the API and over Claude Code.
Leaving and returning (at once, or after a placeholder) come between any two steps.
`HistoryBlocks` is `RestoreCanvasFromHistory`'s loop.

- Assumed of the other side: reasoning comes first in a round, one block of it and
  one of text, deltas precede whole blocks, a round without calls is the last.
- `from` says from where canvas and history may be compared: a turn cut short leaves
  blocks that the history lacks. `from.sure` is off where Claude's partial and whole
  messages overlap (below).
- Left out: a summary's notice, notices of a model switch, Play's local blocks,
  images, links to subagents.

### `Canvas`

`d` has blocks, tops and sizes; `Relayout`, `EnsureBlockLaidOut`,
`EnsureVisibleLaidOut` and `PrepareLayoutForPaint` are the functions of that name on
it. A text's real height depends on the width; its estimate may be any of `Guesses`.
Heights are in lines. The window's height is fixed. Left out: the selection, links,
images, fonts, drawing, and the hooks MCP uses to look at the layout.

## Runs

| Run | Instance | Shows |
|---|---|---|
| `threads` | one conversation, one subagent, two turns, a tool round each, one queued message, one Claude line in flight; cancel, close, messages over MCP while closing; fairness | TypeOK, NeverStuck, Nested, CancelReachesSubagents, IdleQueue, BatchComplete, Settles |
| `play` | Play in an ended subagent, three turns, so that callbacks of abandoned work arrive and are dropped | OneJob |
| `claude_cli` | three chunks in, two out for each, pipes of one; TERM after 1, KILL after 2, drain for 1, with a deadline; fairness | AllRead, Graceful, RunEnds, NoDeadlock |
| `stream_events` | all texts of up to 7 of 4 letters, all cuts | Prompt, Complete |
| `conversation` | seven messages, up to one call each, two Claude sessions, budgets of a few sizes | RollBack, WellFormed, Remembered, HandsOver |
| `store` | one window, two threads, one that runs turns (three saves, two messages) and one to be shown meanwhile; a crash, a failed write, three starts, one file reindexed | SearchBehindFile, Listed, QuitKeeps, KeepsPromise (refinement of `ThreadLog`) |
| `editor` | one file in the folder, one in a directory of it, two dialogs deep | EditsKept, Noticed, OnePrompt |
| `bash` | either tool, timeout 2, grace 2, a pipe of 2 chunks, 2 chunks of bash, any number of the others; fairness of the worker | GroupGone, OutputRead, Signals, Returns |
| `frame` | two folders (one has a brief), the thread of the start, a saved large one and one more; a turn, a queued message, a dialog | TextsKept, Attention, BriefReachesNew |
| `bridge` | two clients, two lines, room for one answer, a folder, two Play runs; clients oblige | Answers, NoStrays, GuiReturns |
| `rendering` | both routes, two turns of up to two rounds, two calls, two pieces of paragraphs, line ends and fences | AsRecorded, LiveBlock |
| `canvas` | four blocks, two widths (one above `kMaxContentW`), four changes, estimates too small and too large | NothingStale, Stacked, PaintsMeasured |

Bounds are in the CONSTANTS sections ("bound:"). Why they are enough. `threads`: one
tool round is a batch and the request after it; a subagent and the tool worker can end
in either order; the second turn is the least that can meet what the first left behind;
a queue of one has both ends. Two subagents in a batch are not in this instance
(fairness makes it too large); no action compares two subagents, and the theorems hold
for any number. `play`: the third turn is the least that meets a callback of the second.
`claude_cli`: the limits are the least in which each delay can pass alone, together with
another or not at all; a pipe of one chunk is full at once, and the payload needs it
three times. `stream_events`: seven letters hold two events, or one with two data lines,
and a blank line of four bytes with something on both sides. `conversation`: two turns,
a compaction, and a second one. `store`: a turn compacts, which saves, is rolled back,
which saves a shorter history, and a third save follows; the crash and the failed write
fall on any of their steps; the second start reads what the first left, and the third
what the second made of it. Several windows that write the index at once make the
instance too large; the theorems hold for any number of them. `editor`: the second
dialog is the one inside the first. `bash`: each limit is passed early and late; the
pipe fills, and can be kept full for ever. `frame`: a shown thread, one left behind, and
one that is opened, as a subagent too. `bridge`: the second client waits while the first
is served; the second answer finds no room before the first is read; the second run
replaces the first. `rendering`: the second round, turn and call are the least that can
be confused with the first. `canvas`: a block above the view, one in it, one below in
the margin and one outside; a text that grows is covered by the theorem only.

Deadlock is checked in `frame` and `claude_cli`. In the other runs the system may
stop: a closed frame, a text that is read, a command that has ended, or a bound that
is used up.

Fairness. Of `ThreadRuntime`: the event loop runs; a request ends because curl's
idle timeout (60 s) ends it, a tool by its own timeout or end (which for bash supposes
that nobody writes to its pipe for ever, `Returns` of `Bash`), a *cancelled* Claude
process by the signals of `RunProcess`. A Claude process nobody cancels may run for
ever, and nothing obliges the user, so `Settles` says that again and again all is at
rest or waits for such a process; a deferred close ends the frame. Of
`ClaudeProcess`: the worker runs, and time passes (strong fairness, since the worker
is at `Top` only now and then). `NoDeadlock` supposes `CliWorks`: a CLI that reads,
writes and ends, and gets its turn on a pipe that others fill as well. Of `Bash`: the
worker runs; nothing of the processes. `Returns` has its condition in the formula: the
loop ends whatever they do, the tool returns if those other than bash stop writing at
some point. Of `Bridge` (`Spec`): the GUI thread and the server thread run. That is not
enough for `GuiReturns` (see `StopReturns` below), so its run adds what others owe
(`ObligingSpec`): a client reads its answers or hangs up, and a cancelled command
ends.

Each property has a slip in its module ("Slip: ...", an operator with a plausible
mistake) under which its run fails.

## What does not hold

Met while modelling; each was a counterexample of TLC. The formulas named are in the
modules, and no run checks them: put into the cfg of the module's run, they fail, with
the bounds said below where those of the run are not enough. First those that contradict
a comment of the code.

- `StoppedKeepsQueue` (`ThreadRuntime`): "Error/cancel: drop into idle-queue mode"
  (chat_frame.cpp:5386). Escape when the answer of a worker is complete, before it is
  handled, sets `stopRequested`, which the end of a turn does not look at; the next
  queued message is sent.
- `PairsKept` (`Conversation`): "tail = history[split..] stays intact (so we never break
  tool_call / tool_result pairs)" (chat_frame.cpp:5765). `SelectTailSplit` goes message
  by message, so the tail may begin with the result of a call that is hidden. The
  request then has a tool message that answers no call. `WellFormed` says that this
  happens at the head of the tail only.
- `ChainKept` (`Conversation`): "A previous summary checkpoint (isSummary) is carried
  forward", lest the chain break (chat_frame.cpp:5863). A turn is compacted before its
  request, overflows all the same, and is compacted again in front of its prompt. The
  first summary stands behind that cut: it is not carried forward into the second, and
  of the two in a row the wire keeps the second. What the first told is forgotten.
- `SummarySent` (`Conversation`): "Append the summary checkpoint as the new head of the
  model view" (chat_frame.cpp:6113). Compaction may cut right behind a prompt or in a
  turn; the tail then begins with an assistant message, and the summary, an assistant
  message too, is dropped as a doubled role from the wire.
- `IndexesTheFile` (`SessionStore`): "just an inverted index over the same conversation
  history that SessionStore already persists" (memory.h:14). `WriteSessionFile` drops the
  result of `AtomicWrite`; the worker indexes a history that no file has.
- `OneRowPerTurn` (`SessionStore`): "One row per turn (chat message), keyed on
  (session_id, turn_index)" (memory.h:11). `--reindex` between the two
  statements of a save leaves the rows of two saves.
- `EscapeLeavesNothing` (`Bash`): "Once bash is reaped after a timeout or Escape, the
  group gets a final SIGKILL" (tools.cpp:306). The last SIGKILL of the group
  depends on the SIGTERM of the loop. When that of `RequestCancel` ends bash while the
  worker polls, the loop has sent none, and a process of the group that ignores SIGTERM
  outlives the Escape.
- `DrainStops` (`Bash`): "Once the direct child exits we drain whatever's still queued
  and stop" (tools.cpp:358). The last reads go on until one finds nothing,
  without a look at the time or the token. A process that bash left behind and that
  writes as fast as they read keeps the tool, and its turn, for ever.
- `NothingRefersToIt` (`Frame`, with `OpensInDialog = TRUE`, `MaxThreads = 4`):
  "cancelled; nothing refers to it yet" (chat_frame.cpp:2600). A thread opened by MCP or
  a subagent while the save dialog of `NewThread` is up is the last of the list when the
  dialog is cancelled, and `pop_back` takes that one, which may run or be shown.
  `OpensInDialog = FALSE` keeps the run off this.
- `StopReturns` (`Bridge`, under `Spec`): `destroying_` is set "before we stop the
  server — otherwise mcp_.Stop()'s join would deadlock" (chat_frame.cpp:2144). The
  server thread waits in `send()` while a client does not read. `Stop()` shuts down the
  listening socket and not the client's, so the join in `~ChatFrame` waits for the
  client.

Others that may surprise:

- `BatchEnds` (`ThreadRuntime`, with "play" in `UserMay`): Play checks that the shown
  thread is idle, not that it is a conversation, although subagents are view-only. In
  an ended subagent without a stored command it starts a turn; a later batch of its
  parent waits for it, and when it ends it has no entry there and wakes nobody: the
  parent runs until the frame is closed. `OneJob` shows that the gen keeps the
  rest sane.
- `EditorPrompt = TRUE`: closing during work hides the frame; the editor's save
  prompt may then veto the close, and the hidden frame has no other way to close
  (`Settles` fails).
- `KillsTree`, `CancelledInTime` (`ClaudeProcess`): once the CLI is reaped no signal is
  sent, so a destructor in the two seconds in which output is drained leaves alone
  what is still in its group; a `Cancel()` in those two seconds makes a run that ended
  by itself a cancelled one.
- `GroupGone` without its `~Direct` (`Bash`): the Play variant has no last SIGKILL, so a
  stopped command may leave a process of its group that ignores SIGTERM. Its drain has
  no limit either.
- A turn behind the shown thread is lost when the frame closes during it
  (`SessionStore`): the handlers of a closing frame only call `Close()` again
  (chat_frame.cpp:5018, 5312, 6032, 6652), and `OnClose` (2282) persists the shown thread.
  What the turn had recorded was in memory. `QuitKeeps` says so, and that what was there
  before the turn is kept.
- A turn that fails behind a compaction is rolled back to less than what that saved. Until
  the rows of the shorter history are written, search offers messages that the thread has
  no longer, nor its file from the moment that is written. `SearchBehindFile` says that
  the rows are of something the file holds or has held.
- `HandsOver` with `EarlyCancel = TRUE` (`Conversation`): the prompt of a Claude turn
  that is cancelled before the CLI has named its session stays in the history; a later
  transcript leaves it out, as a prompt of a Claude turn, and the resumed session may
  never have seen it.
- `PlaceholderSafe` (`Editor`): the placeholder of a binary file can become editable
  again and be saved over the file.
- `ShownOnce` (`Rendering`): a thread shown again while HTTP tools run draws these calls
  twice, once when they are rebuilt and once with their results; between a Claude
  message's last partial event and its whole block the same text can be drawn twice.
  Also: text of a stream that was rebuilt after `content_block_stop` is drawn at the
  next flush only; reasoning that comes after text is missed live.
- `PostedSend` (`Frame`): MCP's sendMessage puts its text into the input and sends it
  from a later event, which sends what the input of the thread shown by then holds, the
  draft of another one perhaps. `TextsKept` allows that: no text is lost.
- A failure notice on the canvas of a thread without a finished turn is wiped when
  the folder's brief arrives, or when a placeholder is replaced by the history.
- `Canvas`: with a block whose estimate is too large by more than the margin, what
  moves into view is painted unmeasured until the next paint (the exception in
  `PaintsMeasured`), although chat_canvas.cpp says that the layout is done first "so
  PaintBlock has real line geometry". A view pinned to the bottom is not moved when
  only the window's height shrinks. A block that arrives between the user's scroll up
  and the posted `UpdateStickToBottom` undoes the scroll.

## Proofs

`TypeCorrect` (`ThreadRuntimeProofs`): `Spec => []TypeOK`, from
`ThreadAssumption` and `RuntimeAssumption` only, so for any number of threads,
any queue limit and any bound. `TypeOK` is inductive as it stands. The proof has
a lemma for each operator that a handler is made of (what it returns is a typed
function of records), and one step per action; `Setters` carries the weight of
the 19-field record. It contains the queue limit (`Enqueue` tests it, nothing
else adds) and that a report is written only into a batch of the parent.

`OneJobCorrect` (`ThreadRuntimeProofs`): `Spec => []OneJob`, from the same assumptions,
for every `UserMay`, Play in subagents included. `OneJob` speaks of the callbacks
and workers that carry the gen of their thread, and says nothing of the others;
what keeps those out for good is `GenInv`: no worker and no callback is ahead of
its thread, and a thread that does not exist has no gen yet. `IInv` is `TypeOK`,
`GenInv` and `OneJob`. A handler may touch three threads and start a worker in
each, so the step is not proved action by action from the definitions: `Moves`
says what may happen to one record (the gen never falls; while it stays no worker
becomes current; when it grows one worker at most carries it), composes
(`MovesTrans`), and is proved of each operator. `Handled` turns it into `IInv'`
for any handler that takes one callback at most, `Posted` for a worker that posts.

`AllReadCorrect` and `GracefulCorrect` (`ConversationProofs`, last section):
`ProcessSpec => []AllRead` and `ProcessSpec => []Graceful`, from `ProcessAssumption`:
for every payload, every pipe size, and all delays with that of SIGTERM before that of
SIGKILL. `AllRead` is not inductive. `ReadInv` says why it holds on either way out of
the loop: a pipe at its end is empty and nobody holds it, and no time has passed since
the CLI's end before it is waited for, so a reaped CLI has been followed by at least one
read. `Graceful` is inductive with `TypeOK`; the order of the tests in `Ladder` is all
it needs (the mutant that asks for SIGKILL first breaks it only when the worker looks at
the clock late).

`NeverStuckCorrect`, `NestedCorrect`, `CancelReachesCorrect`, `IdleQueueCorrect`,
`BatchCompleteCorrect` (`ThreadRuntimeProofs`): the first four as `Spec => []...`, the
last `Spec => BatchComplete`, from the two assumptions of the module and "play" not in
`UserMay`. With Play in a subagent's view `Nested` and `BatchEnds` are false (see "What
does not hold"), and the argument for the others rests on `Nested`. None of the five is
inductive. The invariant is `Good`, with `TypeOK`: of one thread, `Alone` (an idle
thread has no worker and no current callback; a batch exists exactly while there is a
token; callbacks and workers of the turn follow each other in the order the code posts
them); of a subagent and its parent, `Lives` (a running subagent has a running parent
that waits for it, and was told to stop if the batch was cancelled) and `Open` (an empty
entry has a running subagent); and `Settled` (an idle thread's queue). Inside a handler
`Open` is broken: a batch is set up before its subagents start. So `Good` has a set of
threads that are exempt, which each operator's lemma takes and returns, and which is
empty again at the end of every handler. Two steps are kept apart in the proofs because
the code does both at once: a subagent's last callback ends it, and may record its
parent's batch and start the parent's next request.

`ListedCorrect`, `SearchBehindFileCorrect`, `QuitKeepsCorrect`, `Implements`
(`SessionStoreProofs`): `Spec => []Listed`, `[]SearchBehindFile`, `QuitKeeps` and
`KeepsPromise`, the refinement of `ThreadLog`, for any number of windows, threads,
turns, saves, starts, crashes and failing writes. None is inductive. `IInv` says what a
running worker carries (`Carries`): a save of its thread, the newest unless the window
is about to hand over a newer one, and not older than the file; once past the file, one
that the file holds or has held, or whose write failed. No window has two (`OneWorker`,
what joining the previous worker is for). `Saving` says which thread a window is about
to hand over, and that a window that leaves does. `Settled` says where a thread stands:
its newest save, or if nothing of it is pending the file, is as good as the window can
leave it (`Fits`: all of the thread, or at least what was there before its running turn),
or its write has failed. `--reindex` holds what the file has held (`Reindexed`). With it
every step is one of `ThreadLog`'s or leaves its variables alone; a roll-back that is
saved is a `Save` with fewer messages.

`OutputReadCorrect`, `GroupGoneCorrect`, `SignalsCorrect` (`BashProofs`), for every
timeout, grace, pipe size and output. `Sound`: what was read and what bash has in the
pipe make up what it wrote (`Balanced`); the loop is left with the pipe empty of it
(`Closing`); a signal was sent for a reason (`Reasoned`); after a SIGTERM that the loop
sent the end comes behind a SIGKILL of the group (`Gone`). `GroupGone` is about those
commands: an Escape whose own signal ends bash is not among them, nor is the Play
variant, which sends no last SIGKILL.

`OnePromptCorrect`, `NoticedCorrect`, `EditsKeptCorrect` (`EditorProofs`), for any files
and any depth of dialogs. `Sound` relates the editor to the stack of what is going on:
what was started inside a dialog goes on with the switch of folder or with nothing
(`Above`); the question about a change is there at most once, and while it is, either
further ones are suppressed or nothing is dirty (`Once`, `Prompted`); and when no
refresh is due, a watched file that differs from its stamp has been asked about or is
being read anew (`Seen`). An answer pops one entry and goes on with its
continuation, so the proof is by continuation and not by dialog.

`BriefReachesNewCorrect` and `AttentionCorrect` (`FrameProofs`), for any folders, threads,
large histories and depth of dialogs. The first is unconditional. Beside it `Base` has
that a thread that never began has no turn and does not run. `Attention` needs all that
is drawn to be up to date: `Marked` says that each unseen end and each failure is noted in
its thread or as a failure, that the rows and marks drawn are those of the threads, and
that the shown thread is not marked. It is proved for `OpensInDialog = FALSE`: a thread
opened inside the save dialog of another is the one `pop_back` takes, together with what
it owed the user ("What does not hold"). `LastIsNew` is what that assumption gives:
while a dialog of `NewThread` is up, the last thread is its own.

`NothingStaleCorrect`, `StackedCorrect`, `PaintsMeasuredCorrect` (`CanvasProofs`): for
any number of blocks, any widths, margin, window height and estimates. `Sound`:
a block that carries a width has the height and lines of its present text at that
width (`Current`); unless a layout is due the tops fit the heights (`Fits`). A paint
measures all unmeasured blocks near the view at once and then stacks all of them anew;
the tops are a recursive function of the heights. That it has a value, that tops rise
and that two stacks with equal heights keep their distance are inductions along it,
which `SetInduction` and `RangeInduction` state for a set of indices instead of a
predicate, since the prover cannot instantiate an operator parameter.

`NoStraysCorrect` and `AnswersCorrect` (`BridgeProofs`): `Spec => []NoStrays` and `Spec
=> []Answers`, for any clients, lines, folders and runs. Neither is inductive. For
`NoStrays`, `Joinable`: the worker of a run that has not ended is some folder's, and a
join is of a run that is there; `Stopping`: how far the destructor is and what it has
stopped by then. For `Answers`: the buffer and the wire together are the rest of the
client's lines, kinds and ends in turn, wherever recv() cut them (`Coded`, in `Speaks`);
a client's requests are carried out and wait in the order of its lines (`Ordered`), and
only lines that were handled are among them (`Handled`); an answer that is being sent is
of the line at the head of the buffer, and true already (`Busy`); the call the server
waits for is in one place at a time, in the queue, in a join of the GUI thread, or done
(`Waiting`). That what a client asked before has been carried out follows: it was
issued, and what waits comes after what is done. The steps of the server thread are
proved by what they change of the one client it serves (`ServerKeeps`, `WaitKeeps`,
`SendKeeps`), those of the GUI thread by what they leave of the server's
(`OrderlyFrame`).

`RollBackCorrect` and `HandsOverCorrect` (`ConversationProofs`): `Spec => RollBack` and,
for `EarlyCancel = FALSE`, `Spec => []HandsOver`, from `ViewAssumption` and
`ConversationAssumption`: any budgets, tool outputs and calls, any number of messages
and sessions. `IInv` has two parts. `Turn` holds however Claude Code is cancelled, and
gives `RollBack`: the history is what it was when the turn began, but for compaction's
marks, then a prompt (`Grown`), then what models and tools answered (`Answered`,
`Followed`), among which is no prompt; so the roll-back to the last user message finds
this prompt. `Knowledge` is for `HandsOver`. What is hidden is told by what is seen, or
lost (`Covered`); the newest session that Claude Code has not pruned knows what was
said up to its last message and what Claude Code said since (`Informed`). A transcript
that starts behind that message and leaves Claude's out completes it (`RestTold`); one
of the whole history completes a new session (`WholeTold`). The step that needs care is
the roll-back: it takes back no message with a session, so the newest one stays what it
was (`InformedBack`). With `EarlyCancel = TRUE` the theorem would be
false ("What does not hold").

`WellFormedCorrect` and `RememberedCorrect` (`ConversationProofs`): `Spec => []WellFormed`
and `Spec => []Remembered`, from the same two assumptions and for both values of
`EarlyCancel`. They speak of the wire, which is the history after four passes, so the
proof has two halves.

- What a request sends (`SentIs`). A selection, the folding of Claude turns and the
  dropping of doubled roles are folds over a history. Each is first shown to be a
  sequence of steps (`Selects`, `Flattens`, `Dedupes`: the library's fold is a recursive
  function of a set of numbers, and `FoldSolved` has that there is one, by the induction
  over sets of indices that `CanvasProofs` uses too), and then a *pick*: the numbers of
  the messages that stay, in their order (`Picks`, `Takes`). A pick that takes calls and
  results together keeps them together (`PickSettled`); one that may cut them leaves a
  result with its call, or with nothing before it but results and what stands at the
  head (`Tied`, `PickTied`). The tail is of the second kind, wherever compaction cut: a
  result it begins with has lost its call, a later one has not (`RestTied`). Flattening
  takes no call of an API model away. Of doubled roles the first goes, and in a tail
  whose models speak when it is their turn that is a prompt behind which another stands,
  a superseded one, or a summary in front of a newer one or of a tail that an assistant
  message begins (`Displaced`). Pruning changes sizes and nothing else.
- What the steps keep (`InOrder`, which is inductive with `IInv`). `Fit`: an API model
  speaks only behind a prompt, a result or a summary, and Claude Code only behind a
  prompt or itself (`Ordered`); each result has its call before it with results only
  between (`Owned`); what is hidden is told by what is seen, or lost (`Covered`).
  `Settled`: each call has its results, unless a frame closed amid tools, or the last
  message's tools are still at work. And in each phase the last message is one that lets
  the model, or Claude Code, speak next. `WellFormed` is not inductive because it says
  nothing of the phases between requests, or of what roll-back leaves: a failed turn's
  history is the one it began with, marks aside (`FitBack`), which is why `IInv` is
  needed.

Model-checked only:

- Liveness (`Settles`, `RunEnds`, `NoDeadlock`, `Returns`, `GuiReturns`): it rests on
  fairness and ENABLED, which the prover does not reach.
- `StreamEvents`: its scanner and its reference are recursive operators, for which the
  prover has no SMT backend.
- `Rendering`: blocks, history and stream are related by what folds over the whole history
  compute, an induction over data.
- `TextsKept` (`Frame`): it holds with one dialog and not with two. A thread shown in the
  inner dialog, given a text by MCP, and taken off by the cancel of the outer one loses
  the text; that is the same `pop_back`.

## Not modelled

Settings, preferences, themes, the image store, mac_style: stored values, dialogs and
calls to the desktop. syntax.cpp and inline_parser.cpp: colours and marks inside a
block. read_file, list_directory, grep, web tools, ask_vision: they change nothing
here. The Windows process runners. run_config_store.cpp: a file of commands. The
worker that writes a brief. What a reader might expect and no property says: two
threads that write the same files (nothing guards it), a signal sent to a process
group whose id was reused, a tree item used after a dialog, a file that changes
between being read and being stamped, a background process that writes for ever
while Claude's output is drained.

## Plan

The model is complete as far as it is to go, and what is under "Model-checked only" is
what has no proof. Of that `AsRecorded` and `LiveBlock` come first: `Rendering` would need
what `ConversationProofs` has for the passes of `Wire`, the steps of each fold over a
history, for the blocks that are rebuilt from one.
