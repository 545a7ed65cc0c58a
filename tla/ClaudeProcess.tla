--------------------------- MODULE ClaudeProcess ---------------------------
(***************************************************************************)
(* One run of the Claude Code CLI: ClaudeAgentProcess and the POSIX        *)
(* RunProcess of claude_agent.cpp, which feed stdin, drain stdout and      *)
(* stderr, reap the CLI and, when asked to, end it by ever harder signals. *)
(*                                                                         *)
(* Three parties run at once: the worker (RunProcess, one turn of its loop *)
(* in the steps Top, Io and Reap), the processes it started, and the GUI   *)
(* thread.  Data comes in chunks; which chunk it is does not matter, only  *)
(* whether something the CLI wrote is still in a pipe.  Only the worker    *)
(* reads the clock, once per loop, so time passes in Top.                  *)
(***************************************************************************)
EXTENDS Naturals, FiniteSets

CONSTANTS
  Payload,     \* chunks of stdinPayload
  Echo,        \* chunks the CLI writes for each one it reads
  PipeSize,    \* chunks a pipe holds
  TermAfter, KillAfter, DrainAfter,   \* the 3 s, 6 s and 2 s of RunProcess
  HasDeadline  \* ClaudeVersion's run has one, a turn's has not

ASSUME ProcessAssumption ==
  /\ Payload \in Nat /\ Echo \in Nat /\ PipeSize \in Nat \ {0}
  /\ TermAfter \in Nat /\ KillAfter \in Nat /\ DrainAfter \in Nat
  /\ TermAfter < KillAfter
  /\ HasDeadline \in BOOLEAN

Output == {"stdout", "stderr"}

VARIABLES
  at,         \* where the worker is
  result,     \* what RunProcess returned
  cancelled,  \* cancelRequested
  killNow,    \* the destructor waits in join
  due,        \* the deadline has passed
  sent,       \* sentInt, sentTerm, sentKill
  waited,     \* time since cancelAt, as of the last look at the clock
  sinceExit,  \* time since exitedAt
  left,       \* payload not written yet; stdin is closed at 0
  fed,        \* chunks in the stdin pipe
  full,       \* chunks in each output pipe
  unread,     \* the output pipes that hold something the CLI wrote
  eof,        \* outEof, errEof
  cli,        \* the CLI: a zombie has ended and was not waited for
  owes,       \* chunks the CLI has to write before it reads again
  tool        \* a process the CLI started: in its group, or in one of its own

worker == <<at, result, sent, waited, sinceExit, left, eof>>
flags == <<cancelled, killNow, due>>
processVars == <<worker, flags, fed, full, unread, cli, owes, tool>>

ProcessInit ==
  /\ at = "spawn" /\ result = "none" /\ sent = {}
  /\ waited = 0 /\ sinceExit = 0
  /\ cancelled = FALSE /\ killNow = FALSE /\ due = FALSE
  /\ left = Payload /\ fed = 0
  /\ full = [p \in Output |-> 0] /\ unread = {}
  /\ eof = [p \in Output |-> FALSE]
  /\ cli = "none" /\ owes = 0 /\ tool = "none"

ToolLives == tool \in {"group", "own"}

\* Somebody holds the other end of the pipes.
Held == cli = "runs" \/ ToolLives

-----------------------------------------------------------------------------
(***************************************************************************)
(* The GUI thread.                                                         *)
(***************************************************************************)
Cancel ==
  /\ cancelled' = TRUE
  /\ UNCHANGED <<worker, killNow, due, fed, full, unread, cli, owes, tool>>

\* The destructor, or a move onto a live run.
Destroy ==
  /\ at # "over"
  /\ killNow' = TRUE
  /\ UNCHANGED <<worker, cancelled, due, fed, full, unread, cli, owes, tool>>

-----------------------------------------------------------------------------
(***************************************************************************)
(* The worker.                                                             *)
(***************************************************************************)
\* Pipes, fork and exec; a failed exec has been waited for.
Spawn ==
  /\ at = "spawn"
  /\ \/ at' = "top" /\ cli' = "runs" /\ UNCHANGED result
     \/ at' = "over" /\ result' = "failed" /\ UNCHANGED cli
  /\ UNCHANGED <<flags, sent, waited, sinceExit, left, eof, fed, full, unread, owes, tool>>

\* An age, once it is past the limit, stays there.
Older(age, d, limit) == IF age + d > limit THEN limit + 1 ELSE age + d

\* Slip: how long the cancel was ago is all that counts, the last signal first.
LadderByTime(w, hard) ==
  IF hard /\ "kill" \notin sent THEN {"kill"}
  ELSE IF ~cancelled THEN {}
  ELSE IF "int" \notin sent THEN {"int"}
  ELSE IF "kill" \notin sent /\ w > KillAfter THEN {"kill"}
  ELSE IF "term" \notin sent /\ w > TermAfter THEN {"term"}
  ELSE {}

\* The signal of one turn of the loop, when w has passed since the first.
Ladder(w, hard) ==
  IF hard /\ "kill" \notin sent THEN {"kill"}
  ELSE IF ~cancelled THEN {}
  ELSE IF "int" \notin sent THEN {"int"}
  ELSE IF "term" \notin sent /\ w > TermAfter THEN {"term"}
  ELSE IF "kill" \notin sent /\ w > KillAfter THEN {"kill"}
  ELSE {}

\* SIGKILL to the group; the milder signals only let a process choose to end.
Struck(s) ==
  /\ cli' = IF "kill" \in s /\ cli = "runs" THEN "zombie" ELSE cli
  /\ tool' = IF "kill" \in s /\ tool = "group" THEN "none" ELSE tool

Top(d) ==
  /\ at = "top" /\ at' = "io"
  /\ due' \in {due, due \/ (HasDeadline /\ d > 0)}
  /\ LET w == Older(waited, d, KillAfter)
         s == IF cli = "reaped" THEN {} ELSE Ladder(w, killNow \/ due')
     IN  /\ sent' = sent \cup s
         /\ waited' = IF "int" \in sent THEN w ELSE 0
         /\ Struck(s)
  /\ sinceExit' = IF cli = "reaped" THEN Older(sinceExit, d, DrainAfter) ELSE 0
  /\ UNCHANGED <<result, cancelled, killNow, left, eof, fed, full, unread, owes>>

\* poll returns; write as much as fits, or close a stdin nobody reads.
Feed ==
  IF left > 0 /\ ~Held
  THEN left' = 0 /\ UNCHANGED fed
  ELSE \E n \in 0..left :
         /\ fed + n <= PipeSize
         /\ n = left \/ fed + n = PipeSize
         /\ left' = left - n /\ fed' = fed + n

\* A drained pipe is empty; one that was empty is at its end if nobody holds it.
Drain(P) ==
  /\ full' = [p \in Output |-> IF p \in P THEN 0 ELSE full[p]]
  /\ unread' = unread \ P
  /\ eof' = [p \in Output |-> eof[p] \/ (p \in P /\ full[p] = 0 /\ ~Held)]

\* Slip: stdin is fed to the end before any output is read.
FeedFirst ==
  /\ at = "io" /\ at' = "reap"
  /\ Feed /\ Drain(IF left > 0 THEN {} ELSE Output)
  /\ UNCHANGED <<flags, result, sent, waited, sinceExit, cli, owes, tool>>

Io ==
  /\ at = "io" /\ at' = "reap"
  /\ Feed /\ Drain(Output)
  /\ UNCHANGED <<flags, result, sent, waited, sinceExit, cli, owes, tool>>

Return == result' = IF cancelled \/ killNow THEN "cancelled" ELSE "ended"

\* Slip: the run is over as soon as the CLI is.
ReapAndReturn ==
  /\ at = "reap"
  /\ cli' = IF cli = "zombie" THEN "reaped" ELSE cli
  /\ IF cli' = "reaped" THEN at' = "over" /\ Return ELSE at' = "top" /\ UNCHANGED result
  /\ UNCHANGED <<flags, sent, waited, sinceExit, left, eof, fed, full, unread, owes, tool>>

\* Slip: a process the CLI left behind is waited for.
ReapUntilEof ==
  /\ at = "reap"
  /\ cli' = IF cli = "zombie" THEN "reaped" ELSE cli
  /\ IF cli' = "reaped" /\ \A p \in Output : eof[p]
     THEN at' = "over" /\ Return ELSE at' = "top" /\ UNCHANGED result
  /\ UNCHANGED <<flags, sent, waited, sinceExit, left, eof, fed, full, unread, owes, tool>>

\* waitpid, and the two ways out of the loop.
Reap ==
  /\ at = "reap"
  /\ cli' = IF cli = "zombie" THEN "reaped" ELSE cli
  /\ IF cli' = "reaped" /\ ((\A p \in Output : eof[p]) \/ sinceExit > DrainAfter)
     THEN at' = "over" /\ Return ELSE at' = "top" /\ UNCHANGED result
  /\ UNCHANGED <<flags, sent, waited, sinceExit, left, eof, fed, full, unread, owes, tool>>

-----------------------------------------------------------------------------
(***************************************************************************)
(* The CLI, which reads a line, answers it, and ends when stdin does; it   *)
(* may die at any time.  A process it started may outlive it.              *)
(***************************************************************************)
CliRead ==
  /\ cli = "runs" /\ fed > 0 /\ owes = 0
  /\ fed' = fed - 1 /\ owes' = Echo
  /\ UNCHANGED <<worker, flags, full, unread, cli, tool>>

CliWrite ==
  /\ cli = "runs" /\ owes > 0 /\ owes' = owes - 1
  /\ \E p \in Output :
       /\ full[p] < PipeSize
       /\ full' = [full EXCEPT ![p] = @ + 1]
       /\ unread' = unread \cup {p}
  /\ UNCHANGED <<worker, flags, fed, cli, tool>>

CliEnds ==
  /\ cli = "runs" /\ cli' = "zombie"
  /\ UNCHANGED <<worker, flags, fed, full, unread, owes, tool>>

ToolStarts ==
  /\ cli = "runs" /\ tool = "none" /\ tool' \in {"group", "own"}
  /\ UNCHANGED <<worker, flags, fed, full, unread, cli, owes>>

ToolWrites ==
  /\ ToolLives
  /\ \E p \in Output : full[p] < PipeSize /\ full' = [full EXCEPT ![p] = @ + 1]
  /\ UNCHANGED <<worker, flags, fed, unread, cli, owes, tool>>

ToolEnds ==
  /\ ToolLives /\ tool' = "none"
  /\ UNCHANGED <<worker, flags, fed, full, unread, cli, owes>>

-----------------------------------------------------------------------------
\* A longer wait than KillAfter makes no difference: the ages stop there.
Worker == Spawn \/ (\E d \in 0..KillAfter + 1 : Top(d)) \/ Io \/ Reap

Processes == CliRead \/ CliWrite \/ CliEnds \/ ToolStarts \/ ToolWrites \/ ToolEnds

ProcessNext == Worker \/ Processes \/ Cancel \/ Destroy

ProcessSpec == ProcessInit /\ [][ProcessNext]_processVars

(***************************************************************************)
(* The worker runs, and time passes: a loop that goes on for ever takes    *)
(* for ever.  Nothing is asked of the processes.                           *)
(***************************************************************************)
FairSpec == ProcessSpec /\ WF_processVars(Worker) /\ SF_processVars(Top(1))

\* A CLI that does its work, and ends when it has no more input.
CliDone == left = 0 /\ fed = 0 /\ owes = 0 /\ CliEnds

\* It works; a writer blocked on a full pipe gets its turn among others.
CliWorks == WF_processVars(CliRead) /\ SF_processVars(CliWrite) /\ WF_processVars(CliDone)

-----------------------------------------------------------------------------
\* Every variable has its type.
ProcessTypeOK ==
  /\ at \in {"spawn", "top", "io", "reap", "over"}
  /\ result \in {"none", "failed", "ended", "cancelled"}
  /\ cancelled \in BOOLEAN /\ killNow \in BOOLEAN /\ due \in BOOLEAN
  /\ sent \subseteq {"int", "term", "kill"}
  /\ waited \in 0..KillAfter + 1 /\ sinceExit \in 0..DrainAfter + 1
  /\ left \in 0..Payload /\ fed \in 0..PipeSize
  /\ full \in [Output -> 0..PipeSize] /\ unread \subseteq Output
  /\ eof \in [Output -> BOOLEAN]
  /\ cli \in {"none", "runs", "zombie", "reaped"}
  /\ owes \in 0..Echo
  /\ tool \in {"none", "group", "own"}

\* RunProcess returns no sooner than it has read all the CLI ever wrote, even
\* what it wrote between the last read and its end, and even when a process it
\* left behind keeps the pipes open.
AllRead == at = "over" => unread = {} /\ cli # "runs"

\* A cancelled CLI is asked twice before it is killed, however late the worker
\* looks at the clock: SIGKILL comes first only from a destructor or a deadline.
Graceful == "kill" \in sent /\ ~killNow /\ ~due => {"int", "term"} \subseteq sent

\* A run that was cancelled, or is past its deadline, or whose owner waits in
\* its destructor ends, whatever the CLI and its children do.
RunEnds == (cancelled \/ killNow \/ due) ~> at = "over"

\* A CLI that does its work is never stuck against the worker, each of them
\* waiting for the other to empty a pipe.
NoDeadlock == CliWorks => <>(at = "over")

\* Destroying a live run kills the process tree before it returns.
\* Does not hold: see "What does not hold" in the README.
KillsTree == at = "over" /\ killNow => tool # "group"

\* A run is cancelled only when Cancel() was called before the process ended.
\* Does not hold: see "What does not hold" in the README.
CancelledInTime ==
  [](cli = "reaped" /\ ~cancelled /\ ~killNow => [](result # "cancelled"))
=============================================================================
