----------------------------- MODULE Rendering -----------------------------
(***************************************************************************)
(* What the canvas shows of one thread while its turns stream in and the   *)
(* user leaves it and comes back.                                          *)
(*                                                                         *)
(* Blocks are added as the reply arrives, only while the thread is shown.  *)
(* Showing it again draws them anew, from the history and from what is in  *)
(* flight: at once, or, for a large history, after the first paint of a    *)
(* placeholder, the reply going on meanwhile. The two ways must agree.     *)
(*                                                                         *)
(* The other side is the model's API, or Claude Code, whose output is      *)
(* taken to be: rounds of message_start, blocks (reasoning, text, tool     *)
(* calls; pieces of a block, then the whole of it, then its end), and the  *)
(* results of the calls; a round without calls is the last. Reasoning      *)
(* comes before the rest of a round, in one block, as does the text.       *)
(***************************************************************************)
EXTENDS Markdown, Naturals, FiniteSets

CONSTANTS
  Routes,     \* subset of {"http", "claude"}
  Tokens,     \* what a reply is made of (see Markdown)
  MaxTurns,   \* bound: turns
  MaxRounds,  \* bound: rounds of a turn
  MaxCalls,   \* bound: tool calls of all rounds
  MaxPieces   \* bound: pieces of reasoning and text of all rounds

ASSUME RenderingAssumption ==
  /\ Routes \subseteq {"http", "claude"}
  /\ {MaxTurns, MaxRounds, MaxCalls, MaxPieces} \subseteq Nat

VARIABLES
  t,      \* the Thread
  other,  \* where the API or Claude Code is in its turn
  spent,  \* counters, for the bounds
  from    \* history: what the canvas may be judged by (see AsRecorded)

vars == <<t, other, spent, from>>

-----------------------------------------------------------------------------
(* Blocks.                                                                 *)

Prompt       == MdBlock("UserPrompt", <<>>)
Notice       == MdBlock("Notice", <<>>)
Thinking(x)  == MdBlock("Thinking", x)
\* While it is live, its text is some part of what was received: not kept.
LiveThinking == [Thinking(<<>>) EXCEPT !.live = TRUE]
ToolCall(c, result) == [MdBlock("ToolCall", result) EXCEPT !.call = c]

Shown(x) == x.view # "away"

AddBlock(x, b) == IF Shown(x) THEN [x EXCEPT !.canvas = Append(@, b)] ELSE x

\* The sink of MakeMdStream.
Sink(x) ==
  [x EXCEPT !.canvas = IF Shown(x) THEN @ \o x.md.out ELSE @, !.md.out = <<>>]

FeedStream(x, text) == IF x.md = NoStream THEN x ELSE Sink([x EXCEPT !.md = Feed(@, text)])
FlushStream(x)      == IF x.md = NoStream THEN x ELSE Sink([x EXCEPT !.md = Flush(@)])

\* Slip: the block is always new.
EmitAnew(x) ==
  IF x.emitted \/ x.reasoning = <<>> THEN x
  ELSE AddBlock([x EXCEPT !.emitted = TRUE, !.live = 0], Thinking(x.reasoning))

\* UpdateThinkingBlock with `live` false, if there is such a block.
Settle(x) ==
  IF x.live \in DOMAIN x.canvas /\ x.canvas[x.live].type = "Thinking"
  THEN [x EXCEPT !.canvas[x.live] = Thinking(x.reasoning)] ELSE x

EmitPendingThinking(x) ==
  CASE x.emitted           -> x
    [] ~x.emitted /\ x.live # 0 -> [Settle(x) EXCEPT !.emitted = TRUE, !.live = 0]
    [] ~x.emitted /\ x.live = 0 /\ x.reasoning = <<>> -> [x EXCEPT !.emitted = TRUE]
    [] OTHER -> AddBlock([x EXCEPT !.emitted = TRUE], Thinking(x.reasoning))

UpdateLiveThinking(x) ==
  IF x.emitted \/ x.reasoning = <<>> \/ ~Shown(x) \/ x.live # 0 THEN x
  ELSE [x EXCEPT !.canvas = Append(@, LiveThinking), !.live = Len(x.canvas) + 1]

-----------------------------------------------------------------------------
(* Drawing the thread anew.                                                *)

User == [role |-> "user", reasoning |-> <<>>, content |-> <<>>, calls |-> <<>>]
Assistant(reasoning, content, calls) ==
  [role |-> "assistant", reasoning |-> reasoning, content |-> content, calls |-> calls]
Tool(c) == [role |-> "tool", reasoning |-> <<>>, content |-> <<"result">>, calls |-> <<c>>]

\* The tool result paired with a call of message i.
ResultOf(h, i, c) ==
  IF \E j \in i + 1 .. Len(h) : h[j].role = "tool" /\ h[j].calls = <<c>>
  THEN <<"result">> ELSE <<>>

MessageBlocks(h, i) ==
  CASE h[i].role = "user" -> <<Prompt>>
    [] h[i].role = "tool" -> <<>>
    [] OTHER ->
         (IF h[i].reasoning # <<>> THEN <<Thinking(h[i].reasoning)>> ELSE <<>>)
         \o Blocks(h[i].content)
         \o [k \in DOMAIN h[i].calls |-> ToolCall(h[i].calls[k], ResultOf(h, i, h[i].calls[k]))]

HistoryBlocks(h) == FlattenSeq([i \in DOMAIN h |-> MessageBlocks(h, i)])

RestoreCanvasFromHistory(x) ==
  LET drawn == [x EXCEPT !.canvas = HistoryBlocks(x.history)
                                    \o (IF x.notice THEN <<Notice>> ELSE <<>>),
                         !.live = 0, !.notice = FALSE]
      think == IF ~x.streaming THEN drawn
               ELSE IF ~x.emitted THEN UpdateLiveThinking(drawn)
               ELSE IF x.reasoning # <<>> THEN AddBlock(drawn, Thinking(x.reasoning))
               ELSE drawn
  IN  IF x.streaming /\ x.md # NoStream
      THEN FeedStream([think EXCEPT !.md = NewStream], x.text) ELSE think

-----------------------------------------------------------------------------
(* The user.                                                               *)

\* The round at hand is in history already, its text and reasoning in flight
\* still: HandleClaudeEvent, between a tool's result and the next round.
InBetween == other.at = "results" /\ (t.text # <<>> \/ t.reasoning # <<>>)

\* ShowThread to another thread.
Leave ==
  /\ Shown(t)
  /\ t' = [t EXCEPT !.view = "away", !.canvas = <<>>, !.live = 0]
  /\ UNCHANGED <<other, spent, from>>

Judged == [blocks |-> 0, messages |-> 0, sure |-> ~InBetween]

\* RestoreCanvasMaybeDeferred.
Return(large) ==
  /\ t.view = "away"
  /\ IF large THEN /\ t' = [t EXCEPT !.view = "loading"]
                   /\ UNCHANGED from
     ELSE /\ t' = RestoreCanvasFromHistory([t EXCEPT !.view = "shown"])
          /\ from' = Judged
  /\ UNCHANGED <<other, spent>>

\* RestoreSession, from the first paint of the placeholder.
RestoreSession ==
  /\ t.view = "loading"
  /\ t' = RestoreCanvasFromHistory([t EXCEPT !.view = "shown"])
  /\ from' = Judged
  /\ UNCHANGED <<other, spent>>

-----------------------------------------------------------------------------
(* A turn begins and ends.                                                 *)

NoPending == Assistant(<<"none">>, <<>>, <<>>)

\* The reset in DoSendActualRequest and StartClaudeTurn.
NewRound(x) ==
  [x EXCEPT !.text = <<>>, !.reasoning = <<>>, !.calls = <<>>, !.emitted = FALSE,
            !.live = 0, !.md = NewStream, !.pending = NoPending]

\* FinalizeTurn.
Finalized(x) ==
  [Settle(x) EXCEPT !.live = 0, !.streaming = FALSE, !.text = <<>>, !.reasoning = <<>>,
                    !.calls = <<>>, !.md = NoStream]

\* A turn cut short leaves on the canvas what the history does not have.
Judge(x) == from' = [from EXCEPT !.blocks = Len(x.canvas), !.messages = Len(x.history)]

Idle == [at |-> "idle", due |-> <<>>]

\* StartTurn; the API request, or Claude Code.
Send(route) ==
  /\ ~t.streaming /\ Shown(t)
  /\ spent.turns < MaxTurns
  /\ t' = NewRound([AddBlock(t, Prompt) EXCEPT !.streaming = TRUE,
                      !.history = Append(@, User), !.start = Len(t.history) + 1])
  /\ other' = [Idle EXCEPT !.at = IF route = "http" THEN "reply" ELSE "start"]
  /\ spent' = [spent EXCEPT !.turns = @ + 1, !.rounds = 1]
  /\ UNCHANGED from

\* ShowTurnFailure.
Fail(x) == IF Shown(x) THEN AddBlock(x, Notice) ELSE [x EXCEPT !.notice = TRUE]

\* HandleCompletion's roll-back, to before the user's message.
RolledBack(x) ==
  LET prompts == {i \in DOMAIN x.history : x.history[i].role = "user"}
      last    == CHOOSE i \in prompts : \A j \in prompts : j <= i
  IN  [x EXCEPT !.history = SubSeq(@, 1, last - 1)]

-----------------------------------------------------------------------------
(* A turn of the API.                                                      *)

More == spent.pieces < MaxPieces
Count == spent' = [spent EXCEPT !.pieces = @ + 1]

\* OnStreamData.
ReasoningDelta ==
  /\ other.at = "reply" /\ More /\ t.text = <<>> /\ t.calls = <<>>
  /\ t' = UpdateLiveThinking([t EXCEPT !.reasoning = Append(@, "thought")])
  /\ Count
  /\ UNCHANGED <<other, from>>

ContentDelta(token) ==
  /\ other.at = "reply" /\ More
  /\ t' = LET x == EmitPendingThinking(t)
          IN  FeedStream([x EXCEPT !.text = Append(@, token)], <<token>>)
  /\ Count
  /\ UNCHANGED <<other, from>>

NewCall == spent.calls + 1

CallDelta ==
  /\ other.at = "reply"
  /\ spent.calls < MaxCalls /\ spent.rounds < MaxRounds
  /\ t' = [EmitPendingThinking(t) EXCEPT !.calls = Append(@, NewCall)]
  /\ spent' = [spent EXCEPT !.calls = @ + 1]
  /\ UNCHANGED <<other, from>>

\* Slip: tool blocks come before the paragraph that is still open.
ReplyEndsUnflushed(x) == [x EXCEPT !.md = NoStream]

\* OnStreamDone, whatever the outcome.
ReplyEnds(x) == [FlushStream(x) EXCEPT !.md = NoStream]

\* HandleCompletion of a reply that came.
Completed ==
  /\ other.at = "reply"
  /\ LET x == EmitPendingThinking(ReplyEnds(t))
     IN  IF x.calls = <<>>
         THEN /\ t' = Finalized(IF x.text = <<>> /\ x.reasoning = <<>> THEN x
                                ELSE [x EXCEPT !.history =
                                        Append(@, Assistant(x.reasoning, x.text, <<>>))])
              /\ other' = Idle
         ELSE /\ t' = [x EXCEPT !.history =
                          Append(@, Assistant(x.reasoning, x.text, x.calls)),
                        !.text = <<>>, !.reasoning = <<>>]
              /\ other' = [other EXCEPT !.at = "tools"]
  /\ UNCHANGED <<spent, from>>

\* HandleCompletion of an error.
Failed ==
  /\ other.at = "reply"
  /\ t' = Finalized(RolledBack(Fail(EmitPendingThinking(ReplyEnds(t)))))
  /\ Judge(t')
  /\ other' = Idle
  /\ UNCHANGED spent

\* OnStreamDone of a request the user cancelled.
Cancelled ==
  /\ other.at = "reply"
  /\ t' = Finalized(AddBlock(ReplyEnds(t), Notice))
  /\ Judge(t')
  /\ other' = Idle
  /\ UNCHANGED spent

\* OnToolBatchDone: what it draws and records.
Answer(x, c) ==
  [AddBlock(x, ToolCall(c, <<"result">>)) EXCEPT !.history = Append(@, Tool(c))]

OnToolBatchDone(cancelled) ==
  /\ other.at = "tools"
  /\ LET x == FoldLeft(Answer, t, t.calls)
     IN  IF cancelled
         THEN /\ t' = Finalized(AddBlock(x, Notice))
              /\ other' = Idle
              /\ UNCHANGED spent
         ELSE /\ t' = NewRound(x)
              /\ other' = [other EXCEPT !.at = "reply"]
              /\ spent' = [spent EXCEPT !.rounds = @ + 1]
  /\ UNCHANGED from

-----------------------------------------------------------------------------
(* A turn of Claude Code.                                                  *)

FlushClaudePendingMessage(x) ==
  IF x.pending = NoPending \/ x.pending = Assistant(<<>>, <<>>, <<>>)
  THEN [x EXCEPT !.pending = NoPending]
  ELSE [x EXCEPT !.history = Append(@, x.pending), !.pending = NoPending]

At(stages) == other.at \in stages

\* HandleClaudeEvent, message_start.
NewMessage(x) ==
  [FlushClaudePendingMessage(EmitPendingThinking(x)) EXCEPT
     !.text = <<>>, !.reasoning = <<>>, !.emitted = FALSE, !.live = 0]

MessageStart ==
  /\ At({"start", "results"}) /\ other.due = <<>>
  /\ spent.rounds <= MaxRounds
  /\ t' = NewMessage(t)
  /\ other' = [Idle EXCEPT !.at = "message"]
  /\ spent' = [spent EXCEPT !.rounds = @ + 1]
  /\ UNCHANGED from

ThinkingDelta ==
  /\ At({"message", "thinking"}) /\ More
  /\ At({"message"}) => (t.text = <<>> /\ t.reasoning = <<>> /\ other.due = <<>>)
  /\ t' = UpdateLiveThinking([t EXCEPT !.reasoning = Append(@, "thought")])
  /\ other' = [other EXCEPT !.at = "thinking"]
  /\ Count
  /\ UNCHANGED from

TextDelta(token) ==
  /\ At({"message", "text"}) /\ More
  /\ At({"message"}) => (t.text = <<>> /\ other.due = <<>>)
  /\ t' = LET x == EmitPendingThinking(t)
          IN  FeedStream([x EXCEPT !.text = Append(@, token)], <<token>>)
  /\ other' = [other EXCEPT !.at = "text"]
  /\ Count
  /\ UNCHANGED from

\* content_block_start of a tool_use.
ToolStart ==
  /\ At({"message"}) /\ spent.calls < MaxCalls /\ spent.rounds <= MaxRounds
  /\ t' = EmitPendingThinking(t)
  /\ other' = [other EXCEPT !.at = "tool"]
  /\ UNCHANGED <<spent, from>>

\* claudePendingMsg, begun by the first block of its message.
Begun(x) == IF x.pending = NoPending THEN Assistant(<<>>, <<>>, <<>>) ELSE x.pending

\* An "assistant" event: one whole block.
WholeBlock ==
  /\ At({"thinking", "text", "tool"})
  /\ t' = [t EXCEPT !.pending =
             CASE At({"thinking"}) -> [Begun(t) EXCEPT !.reasoning = t.reasoning]
               [] At({"text"})     -> [Begun(t) EXCEPT !.content = t.text]
               [] OTHER            -> [Begun(t) EXCEPT !.calls = Append(@, NewCall)]]
  /\ other' = [other EXCEPT !.at = "stop",
                            !.due = IF At({"tool"}) THEN Append(@, NewCall) ELSE @]
  /\ spent' = [spent EXCEPT !.calls = IF At({"tool"}) THEN @ + 1 ELSE @]
  /\ UNCHANGED from

\* content_block_stop.
BlockStop ==
  /\ At({"stop"})
  /\ t' = FlushStream(t)
  /\ other' = [other EXCEPT !.at = "message"]
  /\ UNCHANGED <<spent, from>>

\* The rest of the message brings nothing.
MessageStop ==
  /\ At({"message"})
  /\ other' = [other EXCEPT !.at = "between"]
  /\ UNCHANGED <<t, spent, from>>

\* A tool_result: of any call, as they run at the same time.
ToolResult(c) ==
  /\ At({"between", "results"}) /\ Contains(other.due, c)
  /\ t' = Answer(EmitPendingThinking(FlushStream(FlushClaudePendingMessage(t))), c)
  /\ other' = [other EXCEPT !.at = "results", !.due = SelectSeq(@, LAMBDA d : d # c)]
  /\ UNCHANGED <<spent, from>>

\* OnClaudeDone, before it looks at how the run ended.
ClaudeEnds(x) == FlushClaudePendingMessage(EmitPendingThinking(ReplyEnds(x)))

ClaudeDone ==
  /\ At({"between", "results"}) /\ other.due = <<>>
  /\ t' = Finalized(ClaudeEnds(t))
  /\ other' = Idle
  /\ UNCHANGED <<spent, from>>

ClaudeStage == {"start", "between", "results", "message", "thinking", "text", "tool", "stop"}

\* OnClaudeDone of a run the user cancelled.
ClaudeCancelled ==
  /\ At(ClaudeStage)
  /\ t' = Finalized(AddBlock(ClaudeEnds(t), Notice))
  /\ Judge(t')
  /\ other' = Idle
  /\ UNCHANGED spent

\* FailClaudeTurn: it rolls back the prompt if nothing followed it.
ClaudeFailed ==
  /\ At(ClaudeStage)
  /\ LET x == ClaudeEnds(t)
     IN  t' = Finalized(Fail(IF Len(x.history) = x.start THEN RolledBack(x) ELSE x))
  /\ Judge(t')
  /\ other' = Idle
  /\ UNCHANGED spent

-----------------------------------------------------------------------------
Init ==
  /\ t = [view |-> "shown", canvas |-> <<>>, history |-> <<>>, notice |-> FALSE,
          streaming |-> FALSE, text |-> <<>>, reasoning |-> <<>>, calls |-> <<>>,
          emitted |-> FALSE, live |-> 0, md |-> NoStream, pending |-> NoPending, start |-> 0]
  /\ other = Idle
  /\ spent = [turns |-> 0, rounds |-> 0, calls |-> 0, pieces |-> 0]
  /\ from = [blocks |-> 0, messages |-> 0, sure |-> TRUE]

Next ==
  \/ Leave
  \/ \E large \in BOOLEAN : Return(large)
  \/ RestoreSession
  \/ \E route \in Routes : Send(route)
  \/ ReasoningDelta
  \/ \E token \in Tokens : ContentDelta(token)
  \/ CallDelta
  \/ Completed
  \/ Failed
  \/ Cancelled
  \/ \E cancelled \in BOOLEAN : OnToolBatchDone(cancelled)
  \/ MessageStart
  \/ ThinkingDelta
  \/ \E token \in Tokens : TextDelta(token)
  \/ ToolStart
  \/ WholeBlock
  \/ BlockStop
  \/ MessageStop
  \/ \E c \in 1 .. spent.calls : ToolResult(c)
  \/ ClaudeDone
  \/ ClaudeCancelled
  \/ ClaudeFailed

Spec == Init /\ [][Next]_vars

-----------------------------------------------------------------------------
(* Properties.                                                             *)

\* Of the round at hand, what the history does not have yet.
InFlight ==
  IF ~t.streaming \/ At({"tools", "results"}) THEN <<>>
  ELSE <<Assistant(t.reasoning, t.text, <<>>)>>

\* A canvas without notices and the calls it shows without their results (a
\* thread shown again while they run has those), calls of one kind alike, live
\* reasoning as it is to be.
Plain(blocks) ==
  LET kept == SelectSeq(blocks, LAMBDA b : b.type # "Notice"
                                           /\ (b.type = "ToolCall" => b.text # <<>>))
  IN  [i \in DOMAIN kept |-> IF kept[i].live THEN Thinking(t.reasoning)
                             ELSE [kept[i] EXCEPT !.call = 0]]

\* The canvas a cut-short turn has not set off from the history: what it would
\* show if the stream had to close its last block.
Canvas  == LET c == FlushStream(t).canvas IN SubSeq(c, from.blocks + 1, Len(c))
Record  == SubSeq(t.history, from.messages + 1, Len(t.history)) \o InFlight

CalledIn(blocks) == {blocks[i].call : i \in {j \in DOMAIN blocks : blocks[j].text = <<"result">>}}

\* The canvas shows the history and what is in flight: each piece once, in its
\* place and in the same blocks, whenever the user left and came back
\* (RestoreCanvasFromHistory against the handlers that stream).
AsRecorded ==
  (t.view = "shown" /\ from.sure) =>
     /\ Plain(Canvas) = Plain(HistoryBlocks(Record))
     /\ CalledIn(Canvas) = CalledIn(HistoryBlocks(Record))

\* A Thinking block is live only while its round's reasoning comes in, and
\* liveThinkingIdx points at it: never at a block of a canvas since redrawn
\* (UpdateThinkingBlock would write over another round's).
LiveBlock ==
  /\ \A i \in DOMAIN t.canvas : t.canvas[i].live <=> (i = t.live)
  /\ t.live # 0 => (t.live \in DOMAIN t.canvas /\ ~t.emitted)

\* What was in flight is shown again once (HandleClaudeEvent's message_start
\* says so of a thread that is switched back to).
\* Does not hold: see "What does not hold" in the README.
ShownOnce ==
  t.view = "shown" => Plain(Canvas) = Plain(HistoryBlocks(Record))
=============================================================================
