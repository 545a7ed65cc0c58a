------------------------------- MODULE Bridge -------------------------------
(***************************************************************************)
(* Who waits for the GUI thread, and whom it waits for: the MCP server     *)
(* thread, which has its calls carried out by the GUI thread and waits     *)
(* for their results (guiSync); the workers of the Play button, which the  *)
(* GUI thread joins before it starts the folder's next run; and the        *)
(* destructor of the frame, which joins them all.                          *)
(*                                                                         *)
(* A request is known by its kind: "call" waits for the GUI thread (it may *)
(* be a press of Play), "post" is answered at once and carried out later   *)
(* (cancelRequest, toggleTool), "bad" is refused by the server itself. On  *)
(* the wire a line is its kind followed by "nl".                           *)
(***************************************************************************)
EXTENDS Integers, Sequences, FiniteSetsExt

CONSTANTS
    Clients,   \* MCP clients, each connected once
    Folders,   \* folders Play is pressed in
    MaxLines,  \* bound: lines all clients send
    MaxRuns,   \* bound: Play runs
    MaxIdle,   \* ticks without data after which a client is dropped (60)
    Room       \* answers a socket holds for a client that does not read

ASSUME BridgeAssumption ==
    {MaxLines, MaxRuns, MaxIdle, Room} \subseteq Nat

Kinds == {"call", "post", "bad"}
Sending == {"result", "error", "nothing"}   \* what the server thread is sending
Runs == 1 .. MaxRuns
None == 0

VARIABLES
    conn,    \* where each client is: "queued" (listen), "served", "closed"
    sent,    \* the lines each client has written
    wire,    \* what is written and not received
    replies, \* what each client was answered
    unread,  \* how many of its answers each client still has to read
    server,  \* the server thread: where it is, its client, its buffer and idle ticks
    events,  \* what was posted to the GUI thread by CallAfter, in order
    carried, \* history: the requests carried out, in order
    future,  \* has the call the server waits for been carried out?
    gui,     \* the GUI thread: where it is, and the folder it deals with
    runs,    \* the Play runs
    plays,   \* plays_: the token and worker of each folder
    flags    \* destroying_ of the frame and running_ of the server

vars == << conn, sent, wire, replies, unread, server, events, carried, future, gui, runs, plays, flags >>

TypeOK ==
    /\ conn \in [Clients -> {"queued", "served", "closed"}]
    /\ sent \in [Clients -> Seq(Kinds)]
    /\ wire \in [Clients -> Seq(Kinds \cup {"nl"})]
    /\ replies \in [Clients -> Seq([kind : Kinds, answer : Sending])]
    /\ unread \in [Clients -> 0 .. Room]
    /\ server.pc \in {"accept", "serve", "lines", "wait", "end"} \cup Sending
    /\ gui.pc \in {"loop", "join", "stop", "server", "plays", "last", "gone"}
    /\ plays \in [Folders -> [token : Runs \cup {None}, worker : Runs \cup {None}]]

Init ==
    /\ conn = [c \in Clients |-> "queued"] /\ sent = [c \in Clients |-> <<>>]
    /\ wire = [c \in Clients |-> <<>>] /\ replies = [c \in Clients |-> <<>>]
    /\ unread = [c \in Clients |-> 0]
    /\ server = [pc |-> "accept", client |-> None, buffer |-> <<>>, idle |-> 0, taken |-> 0]
    /\ events = <<>> /\ carried = <<>> /\ future = FALSE
    /\ gui = [pc |-> "loop", folder |-> None, asked |-> FALSE]
    /\ runs = [r \in Runs |-> [state |-> "unused", cancelled |-> FALSE]]
    /\ plays = [f \in Folders |-> [token |-> None, worker |-> None]]
    /\ flags = [destroying |-> FALSE, running |-> TRUE]
----------------------------------------------------------------------------
(* Clients. What they write once the server has stopped is of no account.  *)

\* Half of a line, and its end.
Write(c) ==
    /\ flags.running /\ conn[c] # "closed"
    /\ LET end(w) == w # <<>> /\ w[Len(w)] # "nl"
           open   == \/ end(wire[c])
                     \/ wire[c] = <<>> /\ server.client = c /\ end(server.buffer)
       IN  \/ /\ open
              /\ wire' = [wire EXCEPT ![c] = Append(@, "nl")]
              /\ sent' = sent
           \/ /\ ~open /\ MapThenSumSet(LAMBDA d : Len(sent[d]), Clients) < MaxLines
              /\ \E k \in Kinds : /\ wire' = [wire EXCEPT ![c] = Append(@, k)]
                                  /\ sent' = [sent EXCEPT ![c] = Append(@, k)]
    /\ UNCHANGED << conn, replies, unread, server, events, carried, future, gui, runs, plays, flags >>

Read(c) ==
    /\ unread[c] > 0 /\ conn[c] # "closed"
    /\ unread' = [unread EXCEPT ![c] = @ - 1]
    /\ UNCHANGED << conn, sent, wire, replies, server, events, carried, future, gui, runs, plays, flags >>

Leave(c) ==
    /\ server.pc # "end" /\ conn[c] # "closed"
    /\ conn' = [conn EXCEPT ![c] = "closed"]
    /\ unread' = [unread EXCEPT ![c] = 0]
    /\ UNCHANGED << sent, wire, replies, server, events, carried, future, gui, runs, plays, flags >>
----------------------------------------------------------------------------
(* The server thread: ServerLoop, HandleClient, HandleRequest              *)

Accept(c) ==
    /\ server.pc = "accept" /\ flags.running
    /\ conn[c] = "queued" \/ (conn[c] = "closed" /\ wire[c] # <<>>)
    /\ conn' = [conn EXCEPT ![c] = IF @ = "queued" THEN "served" ELSE @]
    /\ server' = [pc |-> "serve", client |-> c, buffer |-> <<>>, idle |-> 0, taken |-> 0]
    /\ UNCHANGED << sent, wire, replies, unread, events, carried, future, gui, runs, plays, flags >>

\* The client is closed, and what it had sent besides is dropped.
Dropped ==
    /\ conn' = [conn EXCEPT ![server.client] = "closed"]
    /\ wire' = [wire EXCEPT ![server.client] = <<>>]
    /\ unread' = [unread EXCEPT ![server.client] = 0]
    /\ server' = [server EXCEPT !.pc = "accept", !.client = None, !.buffer = <<>>,
                                !.idle = 0, !.taken = 0]

Receive ==
    /\ server.pc = "serve" /\ flags.running
    /\ LET w == wire[server.client]
       IN  \/ /\ w # <<>>
              /\ \E n \in 1 .. Len(w) :
                   /\ server' = [server EXCEPT !.buffer = @ \o SubSeq(w, 1, n), !.idle = 0,
                                               !.pc = "lines"]
                   /\ wire' = [wire EXCEPT ![server.client] = SubSeq(w, n + 1, Len(w))]
              /\ UNCHANGED << conn, unread >>
           \/ /\ w = <<>> /\ conn[server.client] = "closed"       \* recv() = 0
              /\ Dropped
           \/ /\ w = <<>> /\ conn[server.client] = "served"       \* poll() timed out
              /\ IF server.idle < MaxIdle
                 THEN /\ server' = [server EXCEPT !.idle = @ + 1]
                      /\ UNCHANGED << conn, wire, unread >>
                 ELSE Dropped
    /\ UNCHANGED << sent, replies, events, carried, future, gui, runs, plays, flags >>

Event(what) == [what |-> what, client |-> server.client, n |-> server.taken + 1]

\* A complete line is handled, also when the server is being stopped; without
\* one the thread receives again.
HandleLine ==
    /\ server.pc = "lines"
    /\ IF Len(server.buffer) < 2
       THEN /\ server' = [server EXCEPT !.pc = "serve"]
            /\ UNCHANGED << events, future >>
       ELSE \/ /\ server.buffer[1] = "bad"
               /\ server' = [server EXCEPT !.pc = "error"]
               /\ UNCHANGED << events, future >>
            \/ /\ server.buffer[1] = "post"
               /\ server' = [server EXCEPT !.pc = "result"]
               /\ events' = Append(events, Event("post"))
               /\ UNCHANGED future
            \/ /\ server.buffer[1] = "call"
               /\ server' = [server EXCEPT !.pc = "wait"]
               /\ events' = Append(events, Event("call"))
               /\ future' = FALSE
    /\ UNCHANGED << conn, sent, wire, replies, unread, carried, gui, runs, plays, flags >>

\* Slip: the wait gives up when its 100 ms are over.
WaitGivingUp ==
    /\ server.pc = "wait"
    /\ server' = [server EXCEPT !.pc = IF future THEN "result" ELSE "nothing"]
    /\ UNCHANGED << conn, sent, wire, replies, unread, events, carried, future, gui, runs, plays, flags >>

\* The loop of guiSync: an empty result while the frame is being destroyed.
Wait ==
    /\ server.pc = "wait"
    /\ flags.destroying \/ future
    /\ server' = [server EXCEPT !.pc = IF flags.destroying THEN "nothing" ELSE "result"]
    /\ UNCHANGED << conn, sent, wire, replies, unread, events, carried, future, gui, runs, plays, flags >>

\* The line's answer is sent, and it leaves the buffer. send() waits for room
\* as long as the client is there.
Send ==
    /\ server.pc \in Sending
    /\ LET c == server.client
       IN  \/ /\ conn[c] = "closed"
              /\ UNCHANGED << replies, unread >>
           \/ /\ conn[c] # "closed" /\ unread[c] < Room
              /\ unread' = [unread EXCEPT ![c] = @ + 1]
              /\ replies' = [replies EXCEPT ![c] =
                              Append(@, [kind |-> server.buffer[1], answer |-> server.pc])]
    /\ server' = [server EXCEPT !.pc = "lines", !.taken = @ + 1,
                                !.buffer = SubSeq(@, 3, Len(@))]
    /\ UNCHANGED << conn, sent, wire, events, carried, future, gui, runs, plays, flags >>

\* running_ is false: the client is closed, then the thread ends.
ServerStops ==
    /\ ~flags.running
    /\ \/ server.pc = "serve" /\ Dropped
       \/ /\ server.pc = "accept"
          /\ server' = [server EXCEPT !.pc = "end"]
          /\ UNCHANGED << conn, wire, unread >>
    /\ UNCHANGED << sent, replies, events, carried, future, gui, runs, plays, flags >>
----------------------------------------------------------------------------
(* Play. A worker runs the command, posts its report and ends.             *)

Unused == {r \in Runs : runs[r].state = "unused"}
NewRun == CHOOSE r \in Unused : \A q \in Unused : r <= q

\* OnPlay for folder f once its previous run is over.
Starts(f) ==
    /\ runs' = [runs EXCEPT ![NewRun].state = "running"]
    /\ plays' = [plays EXCEPT ![f] = [token |-> NewRun, worker |-> NewRun]]

\* StopPlay before its join.
Cancelled(f) ==
    runs' = [r \in Runs |-> IF r = plays[f].token THEN [runs[r] EXCEPT !.cancelled = TRUE]
                            ELSE runs[r]]

\* OnPlay, asked: for an MCP call, whose future is set when it returns.
OnPlay(f, asked) ==
    \/ /\ plays[f].worker = None
       /\ Starts(f)
       /\ future' = (future \/ asked)
       /\ UNCHANGED gui
    \/ /\ plays[f].worker # None
       /\ Cancelled(f)
       /\ gui' = [pc |-> "join", folder |-> f, asked |-> asked]
       /\ UNCHANGED << plays, future >>

\* Play pressed by the user.
Play(f) ==
    /\ gui.pc = "loop" /\ Unused # {}
    /\ OnPlay(f, FALSE)
    /\ UNCHANGED << conn, sent, wire, replies, unread, server, events, carried, flags >>

\* The join in StopPlay has returned: OnPlay goes on.
Joined ==
    /\ gui.pc = "join"
    /\ runs[plays[gui.folder].worker].state = "ended"
    /\ Starts(gui.folder)
    /\ future' = (future \/ gui.asked)
    /\ gui' = [pc |-> "loop", folder |-> None, asked |-> FALSE]
    /\ UNCHANGED << conn, sent, wire, replies, unread, server, events, carried, flags >>

RunEnds(r) ==
    /\ runs[r].state = "running"
    /\ runs' = [runs EXCEPT ![r].state = "ended"]
    /\ events' = Append(events, [what |-> "report", client |-> None, n |-> r])
    /\ UNCHANGED << conn, sent, wire, replies, unread, server, carried, future, gui, plays, flags >>
----------------------------------------------------------------------------
(* The GUI thread                                                          *)

\* Slip: the report of any run of the folder clears its token.
ReportedAny(r) ==
    plays' = [f \in Folders |-> IF plays[f].worker # None
                                THEN [plays[f] EXCEPT !.token = None] ELSE plays[f]]

\* A run's report clears the token, if it is still the folder's run.
Reported(r) ==
    plays' = [f \in Folders |-> IF plays[f].token = r
                                THEN [plays[f] EXCEPT !.token = None] ELSE plays[f]]

\* The event loop: the oldest event.
HandleEvent ==
    /\ gui.pc = "loop" /\ events # <<>>
    /\ events' = Tail(events)
    /\ LET e == Head(events)
       IN  \/ /\ e.what = "report"
              /\ Reported(e.n)
              /\ UNCHANGED << carried, future, gui, runs >>
           \/ /\ e.what = "post"
              /\ carried' = Append(carried, <<e.client, e.n>>)
              /\ UNCHANGED << future, gui, runs, plays >>
           \/ /\ e.what = "call"
              /\ carried' = Append(carried, <<e.client, e.n>>)
              /\ \/ \* not play, or play refused: the thread is busy
                    /\ future' = TRUE
                    /\ UNCHANGED << gui, runs, plays >>
                 \/ /\ Unused # {}
                    /\ \E f \in Folders : OnPlay(f, TRUE)
    /\ UNCHANGED << conn, sent, wire, replies, unread, server, flags >>

\* ~ChatFrame: destroying_ is set, then the server is stopped and joined, and
\* then the Play runs, folder by folder.
Destroy ==
    /\ gui.pc = "loop"
    /\ gui' = [gui EXCEPT !.pc = "stop"]
    /\ flags' = [flags EXCEPT !.destroying = TRUE]
    /\ UNCHANGED << conn, sent, wire, replies, unread, server, events, carried, future, runs, plays >>

StopServer ==
    /\ gui.pc = "stop"
    /\ gui' = [gui EXCEPT !.pc = "server"]
    /\ flags' = [flags EXCEPT !.running = FALSE]
    /\ UNCHANGED << conn, sent, wire, replies, unread, server, events, carried, future, runs, plays >>

ServerJoined ==
    /\ gui.pc = "server" /\ server.pc = "end"
    /\ gui' = [gui EXCEPT !.pc = "plays"]
    /\ UNCHANGED << conn, sent, wire, replies, unread, server, events, carried, future, runs, plays, flags >>

StopPlays ==
    /\ gui.pc = "plays"
    /\ \/ \E f \in Folders :
            /\ plays[f].worker # None
            /\ Cancelled(f)
            /\ gui' = [gui EXCEPT !.pc = "last", !.folder = f]
       \/ /\ \A f \in Folders : plays[f].worker = None
          /\ gui' = [gui EXCEPT !.pc = "gone"]
          /\ UNCHANGED runs
    /\ UNCHANGED << conn, sent, wire, replies, unread, server, events, carried, future, plays, flags >>

\* Slip: the run is told to stop and not waited for.
LastJoinedAtOnce ==
    /\ gui.pc = "last"
    /\ plays' = [plays EXCEPT ![gui.folder] = [token |-> None, worker |-> None]]
    /\ gui' = [gui EXCEPT !.pc = "plays", !.folder = None]
    /\ UNCHANGED << conn, sent, wire, replies, unread, server, events, carried, future, runs, flags >>

LastJoined ==
    /\ gui.pc = "last"
    /\ runs[plays[gui.folder].worker].state = "ended"
    /\ plays' = [plays EXCEPT ![gui.folder] = [token |-> None, worker |-> None]]
    /\ gui' = [gui EXCEPT !.pc = "plays", !.folder = None]
    /\ UNCHANGED << conn, sent, wire, replies, unread, server, events, carried, future, runs, flags >>

Gui    == HandleEvent \/ Joined \/ StopServer \/ ServerJoined \/ StopPlays \/ LastJoined
Server == (\E c \in Clients : Accept(c)) \/ Receive \/ HandleLine \/ Wait \/ Send
          \/ ServerStops
Others ==
    \/ \E c \in Clients : Write(c) \/ Read(c) \/ Leave(c)
    \/ \E f \in Folders : Play(f)
    \/ \E r \in Runs : RunEnds(r)
    \/ Destroy
Next == Gui \/ Server \/ Others

\* The GUI thread and the server thread run; clients, users and commands do as
\* they like.
Spec == Init /\ [][Next]_vars /\ WF_vars(Gui) /\ WF_vars(Server)

\* And others oblige: a client reads its answers or hangs up, and a cancelled
\* command ends (Bash's run of ToolBashDirect: when others let go of its pipe).
ObligingSpec ==
    /\ Spec
    /\ \A c \in Clients : WF_vars(Read(c))
    /\ \A r \in Runs : WF_vars(runs[r].cancelled /\ RunEnds(r))
----------------------------------------------------------------------------
Position(p) == CHOOSE i \in DOMAIN carried : carried[i] = p

\* Every client is answered once per line and in its order; a result means that
\* the request has been carried out (once), or for "post" that it will be, after
\* what the client asked before; and only a frame that is being destroyed answers
\* with nothing. (HandleClient, guiSync: lines cut anywhere, other clients
\* waiting, a client that hangs up, a frame that goes away.)
Answers ==
    /\ \A c \in Clients :
         /\ Len(replies[c]) <= Len(sent[c])
         /\ \A i \in DOMAIN replies[c] :
              LET r == replies[c][i]
              IN  /\ r.kind = sent[c][i]
                  /\ r.answer = "result" /\ r.kind # "post" =>
                       /\ \E j \in DOMAIN carried : carried[j] = <<c, i>>
                       /\ \A h \in 1 .. i - 1 : sent[c][h] # "bad" =>
                            \E j \in 1 .. Position(<<c, i>>) - 1 : carried[j] = <<c, h>>
                  /\ r.answer = "nothing" => flags.destroying
    /\ \A i, j \in DOMAIN carried : carried[i] = carried[j] => i = j

\* The GUI thread never waits for good, if others oblige: Play gets its previous
\* run joined, and a frame that is being destroyed is destroyed. (StopPlay,
\* ~ChatFrame: a report that clears the wrong run's token, or a server thread
\* that waits for the GUI thread in turn, would hang it.)
GuiReturns ==
    /\ gui.pc = "join" ~> gui.pc # "join"
    /\ gui.pc = "stop" ~> gui.pc = "gone"

\* ~ChatFrame's comment: destroying_ is set "before we stop the server -
\* otherwise mcp_.Stop()'s join would deadlock": so it does not. Not so when
\* a client does not read: the server thread is in send(), which nothing ends.
StopReturns == gui.pc = "server" ~> gui.pc # "server"

\* A frame that is gone is called by nobody, and a folder never has two commands
\* running. ("the worker can't post to a half-destroyed frame"; a Play press
\* replaces the folder's run.)
NoStrays ==
    LET live == {r \in Runs : runs[r].state = "running"}
    IN  /\ gui.pc = "gone" => live = {} /\ server.pc = "end"
        /\ \A r \in live : \E f \in Folders : plays[f].worker = r
=============================================================================
