---------------------------- MODULE ThreadState ----------------------------
(***************************************************************************)
(* The data of gritcode's thread runtime: `struct Thread` of chat_frame.h, *)
(* the workers it owns and the callbacks they post to the GUI thread.      *)
(*                                                                         *)
(* Only control is kept.  What a message says, how it is drawn and how     *)
(* large it is are left out; the state of a turn, of its workers, of its   *)
(* tool batch and of its queue is all here.  `threads_` (a deque that only *)
(* grows while something refers to its elements) is a function from thread *)
(* names to records, with `open` marking the elements that exist.          *)
(***************************************************************************)
EXTENDS Naturals, Sequences, FiniteSets

CONSTANTS
  Top,       \* top-level threads: the conversations the user opened
  Sub,       \* names for subagent threads; NewThreadId never reuses one
  NoThread,  \* the empty parent id
  MaxQueue   \* kMaxQueue_: messages that can wait behind a running turn

ASSUME ThreadAssumption ==
  /\ Top # {}
  /\ Top \cap Sub = {}
  /\ NoThread \notin Top \cup Sub
  /\ MaxQueue \in Nat

Thread == Top \cup Sub

(***************************************************************************)
(* The three workers a thread owns.  A worker keeps the gen its callbacks  *)
(* captured.  `request` and `proc` are off once their worker has posted    *)
(* its last callback (IsActive turns false just before); the tool worker   *)
(* stays "reported" until the GUI thread clears toolWorkerRunning.         *)
(***************************************************************************)
RequestType == [kind : {"off", "completion", "summary"}, gen : Nat, cancelled : BOOLEAN]
ToolsType   == [state : {"off", "running", "reported"}, gen : Nat]
ProcType    == [on : BOOLEAN, gen : Nat, cancelled : BOOLEAN]

RequestOff == [kind |-> "off", gen |-> 0, cancelled |-> FALSE]
ToolsOff   == [state |-> "off", gen |-> 0]
ProcOff    == [on |-> FALSE, gen |-> 0, cancelled |-> FALSE]

(***************************************************************************)
(* A `task` entry of the tool batch, named by the child that answers it:   *)
(* no such entry, an entry without a result yet, or the kind of result     *)
(* ReportToParent wrote.                                                   *)
(***************************************************************************)
Entry == {"absent", "empty", "report", "failed", "cancelled"}

NoBatch == [c \in Sub |-> "absent"]

ThreadType ==
  [ open      : BOOLEAN,
    parent    : Top \cup {NoThread},
    streaming : BOOLEAN,                       \* a turn runs
    stop      : BOOLEAN,                       \* stopRequested
    failure   : BOOLEAN,                       \* the turn failed, and why is kept
    gen       : Nat,
    claude    : BOOLEAN,                       \* the turn's model is a Claude one
    request   : RequestType,
    tools     : ToolsType,
    proc      : ProcType,
    token     : {"none", "live", "cancelled"}, \* currentToolToken
    batch     : [Sub -> Entry],                \* the `task` entries of toolBatch
    round     : Nat,                           \* toolIter
    compacting : BOOLEAN,
    forced    : BOOLEAN,                       \* overflowRetried
    resumed   : BOOLEAN,                       \* claudeResumed
    fresh     : BOOLEAN,                       \* claudeRetriedFresh
    result    : {"none", "ok", "error"},       \* claudeResultSeen, claudeIsError
    queue     : 0..MaxQueue ]                  \* size of pendingQueue

Unused ==
  [ open |-> FALSE, parent |-> NoThread, streaming |-> FALSE, stop |-> FALSE,
    failure |-> FALSE, gen |-> 0, claude |-> FALSE, request |-> RequestOff,
    tools |-> ToolsOff, proc |-> ProcOff, token |-> "none", batch |-> NoBatch,
    round |-> 0, compacting |-> FALSE, forced |-> FALSE, resumed |-> FALSE,
    fresh |-> FALSE, result |-> "none", queue |-> 0 ]

(***************************************************************************)
(* Callbacks on the GUI thread's queue (CallAfter).  Each worker posts one *)
(* last callback; the others are lines of a Claude run's output.  `out` is *)
(* how the work ended; a line carries nothing more.                        *)
(***************************************************************************)
LastCall   == {"completion", "summary", "tools", "claude"}
ClaudeLine == {"agent", "agentOk", "agentFailed", "resultOk", "resultError"}
Outcome    == {"text", "calls", "overflow", "error", "cancelled", "ended", "gone", "line"}

Call == [to : Thread, gen : Nat, kind : LastCall \cup ClaudeLine, out : Outcome]

(***************************************************************************)
(* Queries on the threads.                                                 *)
(***************************************************************************)
Children(ts, t) == {c \in Sub : ts[c].open /\ ts[c].parent = t}

RunningChildren(ts, t) == {c \in Children(ts, t) : ts[c].streaming}

HasRunningChild(ts, t) == RunningChildren(ts, t) # {}

\* Find(id, gen): the thread still exists and has not moved on.
Found(ts, m) == ts[m.to].open /\ ts[m.to].gen = m.gen

\* `busy` of OnClose: a worker that will call back.
Busy(ts, t) ==
  \/ ts[t].request.kind # "off"
  \/ ts[t].tools.state # "off"
  \/ ts[t].proc.on
============================================================================
