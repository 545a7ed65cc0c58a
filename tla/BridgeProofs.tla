---------------------------- MODULE BridgeProofs ----------------------------
(***************************************************************************)
(* What Bridge promises of the MCP server and the Play button, proved for  *)
(* any number of clients, lines, folders and runs: every client is         *)
(* answered line by line and in order, a result means that the request was *)
(* carried out, and a frame that is gone has left no run and no server     *)
(* thread behind.                                                          *)
(*                                                                         *)
(* What a client has written and the server has not handled is the buffer  *)
(* and the wire together; `Coded` says that it is the rest of its lines,   *)
(* wherever recv() cut them.  Requests reach the GUI thread through one    *)
(* queue, so those of a client are carried out in the order of its lines   *)
(* (Ordered): that the one a result stands for is carried out implies that *)
(* all before it are.  The call the server waits for is at one place at a  *)
(* time: in the queue, in a join of the GUI thread, or done (Waiting).     *)
(***************************************************************************)
EXTENDS Bridge, SequenceTheorems, FiniteSetTheorems, TLAPS

Wired  == Kinds \cup {"nl"}
Answer == [kind : Kinds, answer : {"result", "error", "nothing"}]
Post   == [what : {"call", "post"}, client : Clients, n : Nat]
Report == [what : {"report"}, client : {None}, n : Runs]
ServerType == [pc : {"accept", "serve", "lines", "wait", "end", "result", "error", "nothing"},
               client : Clients \cup {None}, buffer : Seq(Wired), idle : Nat, taken : Nat]
GuiType == [pc : {"loop", "join", "stop", "server", "plays", "last", "gone"},
            folder : Folders \cup {None}, asked : BOOLEAN]
RunType == [state : {"unused", "running", "ended"}, cancelled : BOOLEAN]
Holder  == [token : Runs \cup {None}, worker : Runs \cup {None}]

Shaped ==
    /\ conn \in [Clients -> {"queued", "served", "closed"}]
    /\ sent \in [Clients -> Seq(Kinds)]
    /\ wire \in [Clients -> Seq(Wired)]
    /\ replies \in [Clients -> Seq(Answer)]
    /\ server \in ServerType
    /\ events \in Seq(Post \cup Report)
    /\ carried \in Seq(Clients \X Nat)
    /\ future \in BOOLEAN
    /\ gui \in GuiType
    /\ runs \in [Runs -> RunType]
    /\ plays \in [Folders -> Holder]
    /\ flags \in [destroying : BOOLEAN, running : BOOLEAN]

\* How far the destructor is, and what it has stopped by then.
Stopping ==
    /\ flags.destroying <=> gui.pc \notin {"loop", "join"}
    /\ flags.running <=> gui.pc \in {"loop", "join", "stop"}
    /\ gui.pc \in {"plays", "last", "gone"} => server.pc = "end"

\* The worker of every run that has not ended is known, so it can be joined;
\* what is joined is a run, and what replaces it is there.
Joinable ==
    /\ \A r \in Runs : runs[r].state = "running" => \E f \in Folders : plays[f].worker = r
    /\ gui.pc \in {"join", "last"} => gui.folder \in Folders /\ plays[gui.folder].worker \in Runs
    /\ gui.pc = "join" => Unused # {}
    /\ gui.pc = "gone" => \A f \in Folders : plays[f].worker = None

Strays == Shaped /\ Stopping /\ Joinable
----------------------------------------------------------------------------
\* s is what is left of the lines q when t of them have been handled: kinds
\* and ends of lines in turn, perhaps without the last end.
Coded(s, q, t) ==
    /\ Len(s) = 2 * (Len(q) - t) \/ Len(s) = 2 * (Len(q) - t) - 1
    /\ \A k \in Nat : /\ 2 * k + 1 \in DOMAIN s => s[2 * k + 1] = q[t + k + 1]
                      /\ 2 * k + 2 \in DOMAIN s => s[2 * k + 2] = "nl"

\* It has a line's answer before it, and has it ready.
Handling   == server.pc \in {"wait", "result", "error", "nothing"}
Serving(c) == (server.pc \in {"serve", "lines"} \/ Handling) /\ server.client = c

\* Never served, and still to be.
Fresh(c) == ~Serving(c) /\ (conn[c] = "queued" \/ wire[c] # <<>>)

Speaks(c) ==
    /\ conn[c] = "served" => Serving(c)
    /\ Serving(c) => /\ conn[c] # "queued"
                     /\ Coded(server.buffer \o wire[c], sent[c], server.taken)
                     /\ Len(replies[c]) <= server.taken
                     /\ conn[c] = "served" => Len(replies[c]) = server.taken
    /\ Fresh(c) => Coded(wire[c], sent[c], 0) /\ replies[c] = <<>>

\* Request n of client c is in the queue ev; it has been carried out.
Posted(ev, c, n) == \E k \in DOMAIN ev : ev[k].what # "report" /\ ev[k].client = c /\ ev[k].n = n
Done(ca, c, n)   == \E j \in DOMAIN ca : ca[j] = <<c, n>>
Issued(c, n)     == Posted(events, c, n) \/ Done(carried, c, n)

\* A client's requests are carried out, and wait, in the order of its lines.
Ordered(ev, ca) ==
    /\ \A j, k \in DOMAIN ca : j < k /\ ca[j][1] = ca[k][1] => ca[j][2] < ca[k][2]
    /\ \A j \in DOMAIN ca, k \in DOMAIN ev :
         ev[k].what # "report" /\ ca[j][1] = ev[k].client => ca[j][2] < ev[k].n
    /\ \A j, k \in DOMAIN ev :
         j < k /\ ev[j].what # "report" /\ ev[k].what # "report" /\ ev[j].client = ev[k].client
         => ev[j].n < ev[k].n

\* Only lines that were handled have been issued.
Handled(c) ==
    \A n \in Nat : Issued(c, n) =>
      /\ ~Fresh(c)
      /\ Serving(c) => n <= server.taken \/ (Handling /\ n = server.taken + 1)

Answered(c) ==
    /\ Len(replies[c]) <= Len(sent[c])
    /\ \A i \in DOMAIN replies[c] :
         /\ replies[c][i].kind = sent[c][i]
         /\ sent[c][i] # "bad" => Issued(c, i)
         /\ replies[c][i].answer = "result" =>
              replies[c][i].kind = "post" \/ (replies[c][i].kind = "call" /\ Done(carried, c, i))
         /\ replies[c][i].answer = "nothing" => flags.destroying

\* What the server thread has before it.
Busy ==
    /\ server.pc \in {"serve", "lines"} \/ Handling => server.client \in Clients
    /\ server.pc \in {"accept", "end"} => server.buffer = <<>>
    /\ Handling => /\ Len(server.buffer) >= 2
                   /\ server.buffer[1] # "bad" => Issued(server.client, server.taken + 1)
    /\ server.pc = "wait" => server.buffer[1] = "call"
    /\ server.pc = "result" =>
         \/ server.buffer[1] = "post"
         \/ server.buffer[1] = "call" /\ Done(carried, server.client, server.taken + 1)
    /\ server.pc = "nothing" => flags.destroying

\* Where the call is that the server waits for, until the frame goes away.
Waiting ==
    ~flags.destroying =>
      /\ \A k \in DOMAIN events : events[k].what = "call" =>
           /\ server.pc = "wait" /\ ~future /\ ~gui.asked
           /\ events[k].client = server.client /\ events[k].n = server.taken + 1
      /\ gui.asked => /\ server.pc = "wait" /\ ~future
                      /\ Done(carried, server.client, server.taken + 1)
      /\ server.pc = "wait" /\ future => Done(carried, server.client, server.taken + 1)

Orderly ==
    /\ Ordered(events, carried) /\ Busy /\ Waiting
    /\ \A c \in Clients : Speaks(c) /\ Handled(c) /\ Answered(c)

IInv == Strays /\ Orderly

----------------------------------------------------------------------------
(* Nothing is left behind.                                                 *)

\* There is a next run: of the ranges up to an unused run one is the least.
LEMMA NewRunUnused ==
  ASSUME Unused # {}
  PROVE  NewRun \in Unused
<1> DEFINE T == {0 .. r : r \in Unused}
<1>0. Unused \subseteq Nat BY BridgeAssumption DEF Unused, Runs
<1>1. T \subseteq FiniteSubsetsOf(Nat) /\ T # {}
  <2>1. \A n \in Nat : IsFiniteSet(0 .. n) /\ 0 .. n \in SUBSET Nat BY FS_Interval
  <2>2. T \subseteq FiniteSubsetsOf(Nat) BY <2>1, <1>0 DEF FiniteSubsetsOf
  <2>3. PICK n \in Unused : TRUE OBVIOUS
  <2>4. 0 .. n \in T BY <2>3
  <2> QED BY <2>2, <2>4
<1>2. IsWellFoundedOn(StrictSubsetOrdering(Nat), FiniteSubsetsOf(Nat))
  BY FS_StrictSubsetOrderingWellFounded
<1>3. PICK X \in T : \A Y \in T : ~ (<<Y, X>> \in StrictSubsetOrdering(Nat))
  <2> HIDE DEF T
  <2> QED BY <1>1, <1>2, WFMin
<1>4. PICK r \in Unused : X = 0 .. r OBVIOUS
<1>5. \A q \in Unused : r <= q
  <2> SUFFICES ASSUME NEW q \in Unused, q < r PROVE FALSE BY <1>0
  <2>1. 0 .. q \in T OBVIOUS
  <2>2. r \in Nat /\ q \in Nat BY <1>0
  <2>3. 0 .. q \subseteq 0 .. r BY <2>2
  <2>4. r \in 0 .. r /\ r \notin 0 .. q BY <2>2
  <2>5. 0 .. q # 0 .. r BY <2>4
  <2>6. 0 .. q \in SUBSET Nat /\ 0 .. r \in SUBSET Nat OBVIOUS
  <2>7. <<0 .. q, X>> \in StrictSubsetOrdering(Nat)
    BY <2>3, <2>5, <2>6, <1>4 DEF StrictSubsetOrdering
  <2> QED BY <2>1, <2>7, <1>3
<1> QED BY <1>5 DEF NewRun

\* Starting a folder's run needs its last one to be over.
LEMMA StartsKeeps ==
  ASSUME Shaped, NEW f \in Folders, Unused # {}, Starts(f),
         \A r \in Runs : runs[r].state = "running" => \E g \in Folders : plays[g].worker = r,
         plays[f].worker \in Runs => runs[plays[f].worker].state # "running"
  PROVE  /\ runs' \in [Runs -> RunType]
         /\ plays' \in [Folders -> Holder]
         /\ \A r \in Runs : runs'[r].state = "running" => \E g \in Folders : plays'[g].worker = r
<1>1. PICK q \in Runs : q = NewRun BY NewRunUnused DEF Unused
<1>2. PICK x \in RunType : /\ x = [runs[q] EXCEPT !.state = "running"]
                           /\ runs' = [runs EXCEPT ![q] = x]
  <2>1. runs[q] \in RunType BY DEF Shaped
  <2>2. [runs[q] EXCEPT !.state = "running"] \in RunType BY <2>1 DEF RunType
  <2> QED BY <2>2, <1>1 DEF Starts
<1>3. plays' = [plays EXCEPT ![f] = [token |-> q, worker |-> q]] BY <1>1 DEF Starts
<1>4. runs' \in [Runs -> RunType]
  BY <1>2 DEF Shaped
<1>5. plays' \in [Folders -> Holder] BY <1>3 DEF Shaped, Holder
<1>6. ASSUME NEW r \in Runs, runs'[r].state = "running"
      PROVE  \E g \in Folders : plays'[g].worker = r
  <2>1. CASE r = q BY <2>1, <1>3 DEF Shaped
  <2>2. CASE r # q
    <3>1. runs[r].state = "running" BY <2>2, <1>2, <1>6 DEF Shaped
    <3>2. PICK g \in Folders : plays[g].worker = r BY <3>1
    <3>3. g # f BY <3>1, <3>2
    <3>4. plays'[g].worker = r BY <3>2, <3>3, <1>3 DEF Shaped
    <3> QED BY <3>4
  <2> QED BY <2>1, <2>2
<1> QED BY <1>4, <1>5, <1>6

\* Cancelling ends no run.
LEMMA CancelledKeeps ==
  ASSUME Shaped, NEW f \in Folders, Cancelled(f)
  PROVE  /\ runs' \in [Runs -> RunType]
         /\ \A r \in Runs : runs'[r].state = runs[r].state
<1>1. ASSUME NEW x \in RunType
      PROVE  [x EXCEPT !.cancelled = TRUE] \in RunType /\ [x EXCEPT !.cancelled = TRUE].state = x.state
  BY DEF RunType
<1>2. runs \in [Runs -> RunType] BY DEF Shaped
<1>3. runs' = [r \in Runs |-> IF r = plays[f].token THEN [runs[r] EXCEPT !.cancelled = TRUE]
                              ELSE runs[r]]
  BY DEF Cancelled
<1>4. ASSUME NEW r \in Runs
      PROVE  runs'[r] \in RunType /\ runs'[r].state = runs[r].state
  <2>1. runs[r] \in RunType BY <1>2
  <2>2. CASE r = plays[f].token BY <2>1, <2>2, <1>1, <1>3
  <2>3. CASE r # plays[f].token BY <2>1, <2>3, <1>3
  <2> QED BY <2>2, <2>3
<1>5. runs' \in [Runs -> RunType] BY <1>3, <1>4
<1> QED BY <1>4, <1>5

\* The Play button, pressed by the user or over MCP.
LEMMA OnPlayKeeps ==
  ASSUME Shaped, Joinable, gui.pc = "loop", Unused # {}, NEW f \in Folders,
         NEW asked \in BOOLEAN, OnPlay(f, asked)
  PROVE  /\ runs' \in [Runs -> RunType]
         /\ plays' \in [Folders -> Holder] /\ future' \in BOOLEAN
         /\ gui' \in GuiType
         /\ gui'.pc \in {"loop", "join"} /\ (gui'.asked => asked \/ gui.asked)
         /\ Joinable'
<1>1. CASE plays[f].worker = None /\ Starts(f) /\ future' = (future \/ asked) /\ UNCHANGED gui
  <2>1. None \notin Runs BY BridgeAssumption DEF None, Runs
  <2>2. plays[f].worker \notin Runs BY <1>1, <2>1
  <2>3. \A r \in Runs : runs[r].state = "running" => \E g \in Folders : plays[g].worker = r
    BY DEF Joinable
  <2>4. /\ runs' \in [Runs -> RunType]
        /\ plays' \in [Folders -> Holder]
        /\ \A r \in Runs : runs'[r].state = "running" => \E g \in Folders : plays'[g].worker = r
    BY <1>1, <2>2, <2>3, StartsKeeps
  <2>5. Joinable' BY <1>1, <2>4 DEF Joinable
  <2>6. gui' \in GuiType /\ gui' = gui
    BY <1>1 DEF Shaped
  <2>7. future' \in BOOLEAN BY <1>1
  <2> QED BY <2>4, <2>5, <2>6, <2>7
<1>2. CASE /\ plays[f].worker # None /\ Cancelled(f)
           /\ gui' = [pc |-> "join", folder |-> f, asked |-> asked]
           /\ UNCHANGED <<plays, future>>
  <2>1. /\ runs' \in [Runs -> RunType]
        /\ \A r \in Runs : runs'[r].state = runs[r].state
    BY <1>2, CancelledKeeps
  <2>2. plays' \in [Folders -> Holder] /\ future' \in BOOLEAN BY <1>2 DEF Shaped
  <2>3. gui'.pc = "join" /\ gui'.folder = f /\ gui'.asked = asked BY <1>2
  <2>8. gui' \in GuiType BY <1>2 DEF GuiType
  <2>4. plays[f].worker \in Runs BY <1>2 DEF Shaped, Holder
  <2>5. (Unused # {})'
    <3>1. PICK r \in Runs : runs[r].state = "unused" BY DEF Unused
    <3> QED BY <3>1, <2>1 DEF Unused
  <2>6. \A r \in Runs : runs'[r].state = "running" => \E g \in Folders : plays'[g].worker = r
    BY <1>2, <2>1 DEF Joinable
  <2>7. Joinable' BY <1>2, <2>3, <2>4, <2>5, <2>6 DEF Joinable
  <2> QED BY <1>2, <2>1, <2>2, <2>3, <2>7, <2>8
<1> QED BY <1>1, <1>2 DEF OnPlay

\* At the start nothing runs, and all threads are there.
LEMMA StraysInit == Init => Strays
<1> SUFFICES ASSUME Init PROVE Strays OBVIOUS
<1>1. Shaped
  <2>1. /\ conn \in [Clients -> {"queued", "served", "closed"}]
        /\ sent \in [Clients -> Seq(Kinds)]
        /\ wire \in [Clients -> Seq(Wired)]
        /\ replies \in [Clients -> Seq(Answer)]
    BY DEF Init
  <2>2. /\ gui \in GuiType /\ future \in BOOLEAN
        /\ flags \in [destroying : BOOLEAN, running : BOOLEAN]
    BY DEF Init, GuiType
  <2>5. server \in ServerType
    <3>0. <<>> \in Seq(Wired) OBVIOUS
    <3>1. PICK b \in Seq(Wired) : b = <<>> BY <3>0
    <3>2. server = [pc |-> "accept", client |-> None, buffer |-> b, idle |-> 0, taken |-> 0]
      BY <3>1 DEF Init
    <3> QED BY <3>2 DEF ServerType
  <2>3. events \in Seq(Post \cup Report) /\ carried \in Seq(Clients \X Nat) BY DEF Init
  <2>4. runs \in [Runs -> RunType] /\ plays \in [Folders -> Holder] BY DEF Init, RunType, Holder
  <2> QED BY <2>1, <2>2, <2>3, <2>4, <2>5 DEF Shaped
<1>2. Stopping BY DEF Init, Stopping
<1>3. Joinable BY DEF Init, Joinable
<1> QED BY <1>1, <1>2, <1>3 DEF Strays

\* Setting what is asked of the frame and the server.
LEMMA Records ==
  /\ \A x \in GuiType, v \in {"loop", "join", "stop", "server", "plays", "last", "gone"} :
       LET y == [x EXCEPT !.pc = v]
       IN  y \in GuiType /\ y.pc = v /\ y.folder = x.folder /\ y.asked = x.asked
  /\ \A x \in ServerType, v \in {"accept", "serve", "lines", "wait", "end", "result", "error", "nothing"} :
       LET y == [x EXCEPT !.pc = v]
       IN  /\ y \in ServerType /\ y.pc = v /\ y.client = x.client /\ y.buffer = x.buffer
           /\ y.idle = x.idle /\ y.taken = x.taken
  /\ \A x \in ServerType : x.idle \in Nat /\ x.taken \in Nat /\ x.buffer \in Seq(Wired)
BY DEF GuiType, ServerType

----------------------------------------------------------------------------
(* The steps of the server thread, piece by piece.                         *)

\* What is left of a client that is dropped.
LEMMA DroppedIs ==
  ASSUME Shaped, server.client \in Clients, Dropped
  PROVE  /\ conn' \in [Clients -> {"queued", "served", "closed"}]
         /\ wire' \in [Clients -> Seq(Wired)]
         /\ server' \in ServerType
         /\ server'.pc = "accept" /\ server'.buffer = <<>>
         /\ conn'[server.client] = "closed" /\ wire'[server.client] = <<>>
         /\ \A c \in Clients : c # server.client => conn'[c] = conn[c] /\ wire'[c] = wire[c]
<1>0. <<>> \in Seq(Wired) OBVIOUS
<1>1. /\ server' \in ServerType /\ server'.pc = "accept" /\ server'.buffer = <<>>
  <2>1. server \in ServerType BY DEF Shaped
  <2>2. PICK b \in Seq(Wired) : b = <<>> BY <1>0
  <2>3. server' = [server EXCEPT !.pc = "accept", !.client = None, !.buffer = b, !.idle = 0, !.taken = 0]
    BY <2>2 DEF Dropped
  <2>4. server' \in ServerType /\ server'.pc = "accept" /\ server'.buffer = b
    BY <2>1, <2>3 DEF ServerType
  <2> QED BY <2>2, <2>4
<1>2. /\ conn' \in [Clients -> {"queued", "served", "closed"}]
      /\ conn'[server.client] = "closed"
      /\ \A c \in Clients : c # server.client => conn'[c] = conn[c]
  BY DEF Dropped, Shaped
<1>3. /\ wire' \in [Clients -> Seq(Wired)]
      /\ wire'[server.client] = <<>>
      /\ \A c \in Clients : c # server.client => wire'[c] = wire[c]
  BY <1>0 DEF Dropped, Shaped
<1> QED BY <1>1, <1>2, <1>3

\* The server has handled a line.
LEMMA LineTaken ==
  ASSUME NEW x \in ServerType, Len(x.buffer) >= 2
  PROVE  LET z == [x EXCEPT !.pc = "lines", !.taken = @ + 1, !.buffer = SubSeq(@, 3, Len(@))]
         IN  /\ z \in ServerType /\ z.pc = "lines" /\ z.client = x.client
             /\ z.taken = x.taken + 1 /\ z.buffer = SubSeq(x.buffer, 3, Len(x.buffer))
<1>1. x.buffer \in Seq(Wired) /\ x.taken \in Nat BY DEF ServerType
<1>2. PICK b \in Seq(Wired) : b = SubSeq(x.buffer, 3, Len(x.buffer))
  <2>1. \A i \in 3 .. Len(x.buffer) : x.buffer[i] \in Wired BY <1>1
  <2>2. SubSeq(x.buffer, 3, Len(x.buffer)) \in Seq(Wired) BY <1>1, <2>1, SubSeqProperties
  <2> QED BY <2>2
<1>3. PICK t \in Nat : t = x.taken + 1 BY <1>1
<1>4. [x EXCEPT !.pc = "lines", !.taken = @ + 1, !.buffer = SubSeq(@, 3, Len(@))]
            = [[[x EXCEPT !.pc = "lines"] EXCEPT !.taken = t] EXCEPT !.buffer = b]
  BY <1>2, <1>3 DEF ServerType
<1>5. ASSUME NEW v \in ServerType
      PROVE  /\ [v EXCEPT !.taken = t] \in ServerType
             /\ [v EXCEPT !.taken = t].taken = t
             /\ [v EXCEPT !.taken = t].pc = v.pc /\ [v EXCEPT !.taken = t].client = v.client
             /\ [v EXCEPT !.buffer = b] \in ServerType
             /\ [v EXCEPT !.buffer = b].buffer = b
             /\ [v EXCEPT !.buffer = b].pc = v.pc /\ [v EXCEPT !.buffer = b].client = v.client
             /\ [v EXCEPT !.buffer = b].taken = v.taken
  BY DEF ServerType
<1>6. PICK u \in ServerType : u = [x EXCEPT !.pc = "lines"] /\ u.pc = "lines" /\ u.client = x.client
  <2>1. LET y == [x EXCEPT !.pc = "lines"]
        IN  y \in ServerType /\ y.pc = "lines" /\ y.client = x.client
    BY DEF ServerType
  <2> QED BY <2>1
<1>8. PICK z1 \in ServerType : z1 = [u EXCEPT !.taken = t] /\ z1.taken = t
                               /\ z1.pc = "lines" /\ z1.client = x.client
  <2>1. /\ [u EXCEPT !.taken = t] \in ServerType /\ [u EXCEPT !.taken = t].taken = t
        /\ [u EXCEPT !.taken = t].pc = u.pc /\ [u EXCEPT !.taken = t].client = u.client
    BY <1>5
  <2> QED BY <2>1, <1>6
<1>10. PICK z2 \in ServerType : z2 = [z1 EXCEPT !.buffer = b] /\ z2.buffer = b /\ z2.pc = "lines"
                               /\ z2.client = x.client /\ z2.taken = t
  <2>1. /\ [z1 EXCEPT !.buffer = b] \in ServerType /\ [z1 EXCEPT !.buffer = b].buffer = b
        /\ [z1 EXCEPT !.buffer = b].pc = z1.pc /\ [z1 EXCEPT !.buffer = b].client = z1.client
        /\ [z1 EXCEPT !.buffer = b].taken = z1.taken
    BY <1>5
  <2> QED BY <2>1, <1>8
<1>11. [x EXCEPT !.pc = "lines", !.taken = @ + 1, !.buffer = SubSeq(@, 3, Len(@))] = z2
  BY <1>4, <1>6, <1>8, <1>10
<1> QED BY <1>2, <1>3, <1>10, <1>11

\* A reply goes to the client that is served, if it is still there.
Replied(k, a) ==
    replies' = IF conn[server.client] = "closed" THEN replies
               ELSE [replies EXCEPT ![server.client] = Append(@, [kind |-> k, answer |-> a])]

LEMMA ReplyIs ==
  ASSUME Shaped, server.client \in Clients, NEW k \in Kinds,
         NEW a \in {"result", "error", "nothing"}, Replied(k, a)
  PROVE  /\ replies' \in [Clients -> Seq(Answer)]
         /\ \A c \in Clients : c # server.client => replies'[c] = replies[c]
         /\ replies'[server.client] =
              IF conn[server.client] = "closed" THEN replies[server.client]
              ELSE Append(replies[server.client], [kind |-> k, answer |-> a])
<1>1. PICK r \in Answer : r = [kind |-> k, answer |-> a] BY DEF Answer
<1>2. PICK s \in Seq(Answer) : s = Append(replies[server.client], r)
  <2>1. replies[server.client] \in Seq(Answer) BY DEF Shaped
  <2>2. Append(replies[server.client], r) \in Seq(Answer) BY <2>1
  <2> QED BY <2>2
<1> QED BY <1>1, <1>2 DEF Replied, Shaped

\* What is posted to the GUI thread.
LEMMA EventIs ==
  ASSUME Shaped, server.client \in Clients, NEW what \in {"call", "post"}
  PROVE  /\ Event(what) \in Post /\ Event(what).what = what
         /\ Event(what).client = server.client /\ Event(what).n = server.taken + 1
<1>1. server.taken + 1 \in Nat
  <2>1. server \in ServerType BY DEF Shaped
  <2>2. server.taken \in Nat BY <2>1 DEF ServerType
  <2> QED BY <2>2
<1>2. PICK t \in Nat : t = server.taken + 1 BY <1>1
<1>3. Event(what) = [what |-> what, client |-> server.client, n |-> t] BY <1>2 DEF Event
<1> QED BY <1>2, <1>3 DEF Post

----------------------------------------------------------------------------
(* Lines on the wire and in the buffer.                                    *)

\* What an end of a line does to what is coded.
LEMMA CodedEnd ==
  ASSUME NEW s \in Seq(Wired), NEW q \in Seq(Kinds), NEW t \in Nat,
         Coded(s, q, t), s # <<>>, s[Len(s)] # "nl"
  PROVE  Coded(Append(s, "nl"), q, t)
<1>1. Len(s) \in Nat /\ Len(q) \in Nat /\ Len(s) > 0 OBVIOUS
<1>2. Len(s) = 2 * (Len(q) - t) - 1
  <2> SUFFICES ASSUME Len(s) = 2 * (Len(q) - t) PROVE FALSE BY DEF Coded
  <2>0. Len(q) - t - 1 \in Nat BY <1>1
  <2>1. PICK k \in Nat : k = Len(q) - t - 1 BY <2>0
  <2>2. 2 * k + 2 = Len(s) /\ 2 * k + 2 \in DOMAIN s BY <1>1, <2>1
  <2> QED BY <2>2 DEF Coded
<1>3. "nl" \in Wired BY DEF Wired
<1>4. PICK u \in Seq(Wired) : /\ u = Append(s, "nl") /\ Len(u) = Len(s) + 1
                              /\ u[Len(s) + 1] = "nl"
                              /\ \A i \in 1 .. Len(s) : u[i] = s[i]
  <2>1. /\ Append(s, "nl") \in Seq(Wired) /\ Len(Append(s, "nl")) = Len(s) + 1
        /\ Append(s, "nl")[Len(s) + 1] = "nl"
        /\ \A i \in 1 .. Len(s) : Append(s, "nl")[i] = s[i]
    BY <1>3, AppendProperties
  <2> QED BY <2>1
<1>5. ASSUME NEW k \in Nat
      PROVE  /\ 2 * k + 1 \in DOMAIN u => u[2 * k + 1] = q[t + k + 1]
             /\ 2 * k + 2 \in DOMAIN u => u[2 * k + 2] = "nl"
  <2>1. ASSUME 2 * k + 1 \in DOMAIN u PROVE u[2 * k + 1] = q[t + k + 1]
    <3>1. 2 * k + 1 <= Len(s) BY <2>1, <1>1, <1>2, <1>4
    <3>2. 2 * k + 1 \in DOMAIN s BY <3>1
    <3> QED BY <3>1, <3>2, <1>4 DEF Coded
  <2>2. ASSUME 2 * k + 2 \in DOMAIN u PROVE u[2 * k + 2] = "nl"
    <3>1. CASE 2 * k + 2 = Len(s) + 1 BY <3>1, <1>4
    <3>2. CASE 2 * k + 2 # Len(s) + 1
      <4>1. 2 * k + 2 \in 1 .. Len(s) BY <3>2, <2>2, <1>1, <1>4
      <4>2. 2 * k + 2 \in DOMAIN s BY <4>1
      <4> QED BY <4>1, <4>2, <1>4 DEF Coded
    <3> QED BY <3>1, <3>2
  <2> QED BY <2>1, <2>2
<1>6. Len(u) = 2 * (Len(q) - t) BY <1>1, <1>2, <1>4
<1> QED BY <1>4, <1>5, <1>6 DEF Coded

\* ... and another line.
LEMMA CodedKind ==
  ASSUME NEW s \in Seq(Wired), NEW q \in Seq(Kinds), NEW t \in Nat, NEW k0 \in Kinds,
         Coded(s, q, t), s = <<>> \/ s[Len(s)] = "nl"
  PROVE  Coded(Append(s, k0), Append(q, k0), t)
<1>1. Len(s) \in Nat /\ Len(q) \in Nat OBVIOUS
<1>2. Len(s) = 2 * (Len(q) - t)
  <2> SUFFICES ASSUME Len(s) = 2 * (Len(q) - t) - 1 PROVE FALSE BY DEF Coded
  <2>0. Len(q) - t - 1 \in Nat BY <1>1
  <2>1. PICK k \in Nat : k = Len(q) - t - 1 BY <2>0
  <2>2. 2 * k + 1 = Len(s) /\ 2 * k + 1 \in DOMAIN s /\ t + k + 1 = Len(q) BY <1>1, <2>1
  <2>3. s[Len(s)] = q[Len(q)] BY <2>2 DEF Coded
  <2>4. Len(q) \in DOMAIN q BY <2>1, <1>1
  <2>5. q[Len(q)] \in Kinds BY <2>4
  <2> QED BY <2>2, <2>3, <2>5 DEF Kinds
<1>3. k0 \in Wired BY DEF Wired
<1>4. PICK u \in Seq(Wired) : /\ u = Append(s, k0) /\ Len(u) = Len(s) + 1
                              /\ u[Len(s) + 1] = k0
                              /\ \A i \in 1 .. Len(s) : u[i] = s[i]
  <2>1. /\ Append(s, k0) \in Seq(Wired) /\ Len(Append(s, k0)) = Len(s) + 1
        /\ Append(s, k0)[Len(s) + 1] = k0
        /\ \A i \in 1 .. Len(s) : Append(s, k0)[i] = s[i]
    BY <1>3, AppendProperties
  <2> QED BY <2>1
<1>5. PICK p \in Seq(Kinds) : /\ p = Append(q, k0) /\ Len(p) = Len(q) + 1
                              /\ p[Len(q) + 1] = k0
                              /\ \A i \in 1 .. Len(q) : p[i] = q[i]
  <2>1. /\ Append(q, k0) \in Seq(Kinds) /\ Len(Append(q, k0)) = Len(q) + 1
        /\ Append(q, k0)[Len(q) + 1] = k0
        /\ \A i \in 1 .. Len(q) : Append(q, k0)[i] = q[i]
    BY AppendProperties
  <2> QED BY <2>1
<1>6. ASSUME NEW k \in Nat
      PROVE  /\ 2 * k + 1 \in DOMAIN u => u[2 * k + 1] = p[t + k + 1]
             /\ 2 * k + 2 \in DOMAIN u => u[2 * k + 2] = "nl"
  <2>1. ASSUME 2 * k + 1 \in DOMAIN u PROVE u[2 * k + 1] = p[t + k + 1]
    <3>1. CASE 2 * k + 1 = Len(s) + 1
      <4>0. \A m \in Int : 2 * k + 1 = 2 * m + 1 => k = m OBVIOUS
      <4>2. Len(q) - t \in Int /\ 2 * k + 1 = 2 * (Len(q) - t) + 1 BY <3>1, <1>1, <1>2
      <4>3. k = Len(q) - t BY <4>0, <4>2
      <4>1. t + k + 1 = Len(q) + 1 BY <4>3, <1>1
      <4> QED BY <3>1, <4>1, <1>4, <1>5
    <3>2. CASE 2 * k + 1 # Len(s) + 1
      <4>1. 2 * k + 1 \in 1 .. Len(s) BY <3>2, <2>1, <1>1, <1>4
      <4>2. 2 * k + 1 \in DOMAIN s /\ t + k + 1 \in 1 .. Len(q) BY <4>1, <1>1, <1>2
      <4> QED BY <4>1, <4>2, <1>4, <1>5 DEF Coded
    <3> QED BY <3>1, <3>2
  <2>2. ASSUME 2 * k + 2 \in DOMAIN u PROVE u[2 * k + 2] = "nl"
    <3>1. 2 * k + 2 \in 1 .. Len(s) BY <2>2, <1>1, <1>2, <1>4
    <3>2. 2 * k + 2 \in DOMAIN s BY <3>1
    <3> QED BY <3>1, <3>2, <1>4 DEF Coded
  <2> QED BY <2>1, <2>2
<1>7. Len(u) = 2 * (Len(p) - t) - 1 BY <1>1, <1>2, <1>4, <1>5
<1> QED BY <1>4, <1>5, <1>6, <1>7 DEF Coded

\* ... and taking the first line.
LEMMA CodedTake ==
  ASSUME NEW s \in Seq(Wired), NEW q \in Seq(Kinds), NEW t \in Nat,
         Coded(s, q, t), Len(s) >= 2
  PROVE  /\ t + 1 <= Len(q) /\ s[1] = q[t + 1]
         /\ \A u \in Seq(Wired) : /\ Len(u) = Len(s) - 2
                                  /\ \A i \in 1 .. Len(u) : u[i] = s[i + 2]
                                  => Coded(u, q, t + 1)
<1>1. Len(s) \in Nat /\ Len(q) \in Nat OBVIOUS
<1>2. Len(s) = 2 * (Len(q) - t) \/ Len(s) = 2 * (Len(q) - t) - 1 BY DEF Coded
<1>3. t + 1 <= Len(q) BY <1>1, <1>2
<1>4. s[1] = q[t + 1]
  <2>1. 0 \in Nat /\ 2 * 0 + 1 = 1 /\ t + 0 + 1 = t + 1 /\ 1 \in DOMAIN s BY <1>1
  <2> QED BY <2>1 DEF Coded
<1>5. ASSUME NEW u \in Seq(Wired), Len(u) = Len(s) - 2, \A i \in 1 .. Len(u) : u[i] = s[i + 2]
      PROVE  Coded(u, q, t + 1)
  <2>1. Len(u) = 2 * (Len(q) - (t + 1)) \/ Len(u) = 2 * (Len(q) - (t + 1)) - 1
    BY <1>1, <1>2, <1>5
  <2>2. ASSUME NEW k \in Nat
        PROVE  /\ 2 * k + 1 \in DOMAIN u => u[2 * k + 1] = q[t + 1 + k + 1]
               /\ 2 * k + 2 \in DOMAIN u => u[2 * k + 2] = "nl"
    <3>1. PICK j \in Nat : j = k + 1 OBVIOUS
    <3>2. 2 * k + 1 + 2 = 2 * j + 1 /\ 2 * k + 2 + 2 = 2 * j + 2 /\ t + 1 + k + 1 = t + j + 1
      BY <3>1
    <3>3. /\ 2 * k + 1 \in DOMAIN u => 2 * k + 1 \in 1 .. Len(u) /\ 2 * j + 1 \in DOMAIN s
          /\ 2 * k + 2 \in DOMAIN u => 2 * k + 2 \in 1 .. Len(u) /\ 2 * j + 2 \in DOMAIN s
      BY <3>1, <1>1, <1>5
    <3>4. /\ 2 * j + 1 \in DOMAIN s => s[2 * j + 1] = q[t + j + 1]
          /\ 2 * j + 2 \in DOMAIN s => s[2 * j + 2] = "nl"
      BY DEF Coded
    <3> QED BY <3>2, <3>3, <3>4, <1>5
  <2> QED BY <2>1, <2>2 DEF Coded
<1> QED BY <1>3, <1>4, <1>5

\* Receiving moves a piece of the wire to the buffer.
LEMMA Moved ==
  ASSUME NEW b \in Seq(Wired), NEW w \in Seq(Wired), NEW n \in 1 .. Len(w)
  PROVE  /\ b \o SubSeq(w, 1, n) \in Seq(Wired)
         /\ SubSeq(w, n + 1, Len(w)) \in Seq(Wired)
         /\ (b \o SubSeq(w, 1, n)) \o SubSeq(w, n + 1, Len(w)) = b \o w
<1>1. \A i \in 1 .. Len(w) : w[i] \in Wired OBVIOUS
<1>2. SubSeq(w, 1, n) \in Seq(Wired) /\ SubSeq(w, n + 1, Len(w)) \in Seq(Wired)
  BY <1>1, SubSeqProperties
<1>3. SubSeq(w, 1, n) \o SubSeq(w, n + 1, Len(w)) = SubSeq(w, 1, Len(w))
  BY ConcatAdjacentSubSeq
<1>4. SubSeq(w, 1, Len(w)) = w BY SubSeqFull
<1>5. (b \o SubSeq(w, 1, n)) \o SubSeq(w, n + 1, Len(w))
        = b \o (SubSeq(w, 1, n) \o SubSeq(w, n + 1, Len(w)))
  <2> DEFINE x == SubSeq(w, 1, n)
             y == SubSeq(w, n + 1, Len(w))
  <2>1. x \in Seq(Wired) /\ y \in Seq(Wired) BY <1>2
  <2> HIDE DEF x, y
  <2>2. \A u, v, z \in Seq(Wired) : (u \o v) \o z = u \o (v \o z)
    <3> SUFFICES ASSUME NEW u \in Seq(Wired), NEW v \in Seq(Wired), NEW z \in Seq(Wired)
                 PROVE  (u \o v) \o z = u \o (v \o z)
      OBVIOUS
    <3> QED OBVIOUS
  <2>3. (b \o x) \o y = b \o (x \o y) BY <2>1, <2>2
  <2> QED BY <2>3 DEF x, y
<1> QED BY <1>2, <1>3, <1>4, <1>5, ConcatProperties

\* Handling a line takes it from the buffer.
LEMMA Taken ==
  ASSUME NEW b \in Seq(Wired), NEW w \in Seq(Wired), Len(b) >= 2,
         NEW q \in Seq(Kinds), NEW t \in Nat, Coded(b \o w, q, t)
  PROVE  /\ t + 1 <= Len(q) /\ b[1] = q[t + 1]
         /\ Coded(SubSeq(b, 3, Len(b)) \o w, q, t + 1)
<1>1. PICK s \in Seq(Wired) : /\ s = b \o w /\ Len(s) = Len(b) + Len(w)
                              /\ \A i \in 1 .. Len(b) + Len(w) :
                                   s[i] = IF i <= Len(b) THEN b[i] ELSE w[i - Len(b)]
  <2>1. /\ b \o w \in Seq(Wired) /\ Len(b \o w) = Len(b) + Len(w)
        /\ \A i \in 1 .. Len(b) + Len(w) :
             (b \o w)[i] = IF i <= Len(b) THEN b[i] ELSE w[i - Len(b)]
    BY ConcatProperties
  <2> QED BY <2>1
<1>2. PICK r \in Seq(Wired) : /\ r = SubSeq(b, 3, Len(b)) /\ Len(r) = Len(b) - 2
                              /\ \A i \in 1 .. Len(r) : r[i] = b[i + 2]
  <2>1. \A i \in 3 .. Len(b) : b[i] \in Wired OBVIOUS
  <2>2. SubSeq(b, 3, Len(b)) \in Seq(Wired) BY <2>1, SubSeqProperties
  <2>3. /\ Len(SubSeq(b, 3, Len(b))) = IF 3 <= Len(b) THEN Len(b) - 3 + 1 ELSE 0
        /\ \A i \in 1 .. Len(b) - 3 + 1 : SubSeq(b, 3, Len(b))[i] = b[3 + i - 1]
    BY <2>1, SubSeqProperties
  <2>4. Len(b) \in Nat OBVIOUS
  <2>8. PICK m \in Nat : m = Len(b) BY <2>4
  <2>9. Len(SubSeq(b, 3, Len(b))) = IF 3 <= m THEN m - 3 + 1 ELSE 0 BY <2>3, <2>8
  <2>10. 3 <= m => m - 3 + 1 = m - 2 OBVIOUS
  <2>11. ~(3 <= m) => m - 2 = 0 BY <2>8
  <2>5. Len(SubSeq(b, 3, Len(b))) = m - 2 BY <2>9, <2>10, <2>11, Zenon
  <2>6. Len(b) - 3 + 1 = Len(b) - 2 BY <2>4
  <2>7. ASSUME NEW i \in 1 .. Len(b) - 2 PROVE SubSeq(b, 3, Len(b))[i] = b[i + 2]
    <3>1. 3 + i - 1 = i + 2 BY <2>4
    <3> QED BY <2>3, <2>6, <3>1
  <2> QED BY <2>2, <2>5, <2>7, <2>8
<1>3. PICK u \in Seq(Wired) : /\ u = r \o w /\ Len(u) = Len(r) + Len(w)
                              /\ \A i \in 1 .. Len(r) + Len(w) :
                                   u[i] = IF i <= Len(r) THEN r[i] ELSE w[i - Len(r)]
  <2>1. /\ r \o w \in Seq(Wired) /\ Len(r \o w) = Len(r) + Len(w)
        /\ \A i \in 1 .. Len(r) + Len(w) :
             (r \o w)[i] = IF i <= Len(r) THEN r[i] ELSE w[i - Len(r)]
    BY ConcatProperties
  <2> QED BY <2>1
<1>4. Len(b) \in Nat /\ Len(w) \in Nat /\ Len(r) \in Nat OBVIOUS
<1>5. Len(s) >= 2 /\ s[1] = b[1] /\ Len(u) = Len(s) - 2 BY <1>1, <1>2, <1>3, <1>4
<1>6. ASSUME NEW i \in 1 .. Len(u) PROVE u[i] = s[i + 2]
  <2>1. i + 2 \in 1 .. Len(b) + Len(w) /\ i \in 1 .. Len(r) + Len(w) BY <1>1, <1>2, <1>3, <1>4
  <2>2. CASE i <= Len(r)
    <3>1. u[i] = b[i + 2] BY <2>1, <2>2, <1>2, <1>3, <1>4
    <3>2. s[i + 2] = b[i + 2] BY <2>1, <2>2, <1>1, <1>2, <1>4
    <3> QED BY <3>1, <3>2
  <2>3. CASE ~(i <= Len(r))
    <3>1. u[i] = w[i - Len(r)] BY <2>1, <2>3, <1>3
    <3>2. s[i + 2] = w[i + 2 - Len(b)] BY <2>1, <2>3, <1>1, <1>2, <1>4
    <3>3. i - Len(r) = i + 2 - Len(b)
      <4>1. i \in Int /\ Len(b) \in Int /\ Len(r) = Len(b) - 2 BY <1>2, <1>4
      <4> QED BY <4>1
    <3> QED BY <3>1, <3>2, <3>3
  <2> QED BY <2>2, <2>3
<1>7. /\ t + 1 <= Len(q) /\ s[1] = q[t + 1]
      /\ \A v \in Seq(Wired) : /\ Len(v) = Len(s) - 2
                               /\ \A i \in 1 .. Len(v) : v[i] = s[i + 2]
                               => Coded(v, q, t + 1)
  <2>1. Coded(s, q, t) BY <1>1
  <2> HIDE <1>1
  <2> QED BY <2>1, <1>5, CodedTake
<1>8. Coded(u, q, t + 1) BY <1>5, <1>6, <1>7
<1> QED BY <1>2, <1>3, <1>5, <1>7, <1>8

----------------------------------------------------------------------------
(* The order of requests.                                                  *)

\* u is s with e at its end; u is s without its first element.
Longer(u, s, e) ==
    /\ u = Append(s, e) /\ u[Len(u)] = e
    /\ DOMAIN u = DOMAIN s \cup {Len(u)} /\ DOMAIN u \subseteq 1 .. Len(u) /\ Len(u) \in Nat
    /\ \A i \in DOMAIN s : u[i] = s[i] /\ i < Len(u)

Shorter(u, s) ==
    /\ u = Tail(s) /\ Head(s) = s[1] /\ 1 \in DOMAIN s
    /\ \A i \in DOMAIN u : i \in Nat /\ i + 1 \in DOMAIN s /\ 1 < i + 1 /\ u[i] = s[i + 1]
    /\ \A i \in DOMAIN s : i # 1 => i - 1 \in DOMAIN u /\ i - 1 + 1 = i

\* An element more.
LEMMA Appended ==
  ASSUME NEW S, NEW s \in Seq(S), NEW e \in S
  PROVE  \E u \in Seq(S) : Longer(u, s, e)
<1>1. /\ Append(s, e) \in Seq(S) /\ Len(Append(s, e)) = Len(s) + 1
      /\ \A i \in 1 .. Len(s) : Append(s, e)[i] = s[i]
      /\ Append(s, e)[Len(s) + 1] = e
  BY AppendProperties
<1>2. PICK u \in Seq(S) : u = Append(s, e) BY <1>1
<1>3. Len(s) \in Nat /\ DOMAIN s = 1 .. Len(s) /\ DOMAIN u = 1 .. Len(s) + 1 BY <1>1, <1>2
<1>4. \A i \in DOMAIN s : u[i] = s[i] /\ i < Len(u) BY <1>1, <1>2, <1>3
<1>5. u[Len(u)] = e /\ Len(u) = Len(s) + 1 BY <1>1, <1>2
<1>6. Longer(u, s, e) BY <1>2, <1>3, <1>4, <1>5 DEF Longer
<1> QED BY <1>6

\* An element less.
LEMMA Shortened ==
  ASSUME NEW S, NEW s \in Seq(S), s # <<>>
  PROVE  s[1] \in S /\ \E u \in Seq(S) : Shorter(u, s)
<1>1. Tail(s) \in Seq(S) /\ Len(Tail(s)) = Len(s) - 1 /\ Head(s) = s[1] OBVIOUS
<1>2. PICK u \in Seq(S) : u = Tail(s) BY <1>1
<1>3. /\ Len(s) \in Nat \ {0} /\ DOMAIN s = 1 .. Len(s) /\ DOMAIN u = 1 .. Len(s) - 1
  BY <1>1, <1>2
<1>4. \A i \in DOMAIN u : u[i] = s[i + 1] BY <1>2
<1>5. 1 \in DOMAIN s /\ s[1] \in S BY <1>3
<1>6. Shorter(u, s) BY <1>1, <1>2, <1>3, <1>4, <1>5 DEF Shorter
<1> QED BY <1>5, <1>6

\* A request behind all others of its client.
LEMMA PostOrdered ==
  ASSUME NEW ev \in Seq(Post \cup Report), NEW ca \in Seq(Clients \X Nat), Ordered(ev, ca),
         NEW e \in Post,
         \A n \in Nat : Posted(ev, e.client, n) \/ Done(ca, e.client, n) => n < e.n
  PROVE  /\ Append(ev, e) \in Seq(Post \cup Report)
         /\ Ordered(Append(ev, e), ca)
         /\ \A c \in Clients, n \in Nat :
              Posted(Append(ev, e), c, n) <=> Posted(ev, c, n) \/ (c = e.client /\ n = e.n)
<1>0. PICK u \in Seq(Post \cup Report) : Longer(u, ev, e)
  <2>1. e \in Post \cup Report OBVIOUS
  <2> QED BY <2>1, Appended
<1>1. /\ u = Append(ev, e) /\ u[Len(u)] = e /\ DOMAIN u = DOMAIN ev \cup {Len(u)}
      /\ DOMAIN u \subseteq 1 .. Len(u) /\ Len(u) \in Nat
      /\ \A i \in DOMAIN ev : u[i] = ev[i] /\ i < Len(u)
  BY <1>0 DEF Longer
<1>2. e.what # "report" BY DEF Post
<1>3. \A i \in DOMAIN ev : ev[i] \in Post \cup Report OBVIOUS
<1>4. ASSUME NEW j \in DOMAIN ca, ca[j][1] = e.client PROVE ca[j][2] < e.n
  <2>1. ca[j] \in Clients \X Nat OBVIOUS
  <2>2. ca[j] = <<e.client, ca[j][2]>> /\ ca[j][2] \in Nat BY <2>1, <1>4
  <2>3. Done(ca, e.client, ca[j][2]) BY <2>2 DEF Done
  <2> QED BY <2>2, <2>3
<1>5. ASSUME NEW j \in DOMAIN ev, ev[j].what # "report", ev[j].client = e.client
      PROVE  ev[j].n < e.n
  <2>1. ev[j] \in Post BY <1>3, <1>5 DEF Report
  <2>2. ev[j].n \in Nat BY <2>1 DEF Post
  <2>3. Posted(ev, e.client, ev[j].n) BY <1>5 DEF Posted
  <2> QED BY <2>2, <2>3
<1>6. Ordered(u, ca)
  <2>1. \A j, k \in DOMAIN ca : j < k /\ ca[j][1] = ca[k][1] => ca[j][2] < ca[k][2]
    BY DEF Ordered
  <2>2. ASSUME NEW j \in DOMAIN ca, NEW k \in DOMAIN u,
               u[k].what # "report", ca[j][1] = u[k].client
        PROVE  ca[j][2] < u[k].n
    <3>1. CASE k \in DOMAIN ev BY <3>1, <2>2, <1>1 DEF Ordered
    <3>2. CASE k = Len(u) BY <3>2, <2>2, <1>1, <1>4
    <3> QED BY <3>1, <3>2, <1>1
  <2>3. ASSUME NEW j \in DOMAIN u, NEW k \in DOMAIN u, j < k,
               u[j].what # "report", u[k].what # "report", u[j].client = u[k].client
        PROVE  u[j].n < u[k].n
    <3>0. j \in DOMAIN ev
      <4>1. j \in 1 .. Len(u) /\ k \in 1 .. Len(u) BY <1>1
      <4>3. j # Len(u) BY <2>3, <4>1, <1>1
      <4> QED BY <4>3, <1>1
    <3>1. CASE k \in DOMAIN ev BY <3>0, <3>1, <2>3, <1>1 DEF Ordered
    <3>2. CASE k = Len(u) BY <3>0, <3>2, <2>3, <1>1, <1>5
    <3> QED BY <3>1, <3>2, <1>1
  <2> QED BY <2>1, <2>2, <2>3 DEF Ordered
<1>7. ASSUME NEW c \in Clients, NEW n \in Nat
      PROVE  Posted(u, c, n) <=> Posted(ev, c, n) \/ (c = e.client /\ n = e.n)
  BY <1>1, <1>2 DEF Posted
<1> QED BY <1>1, <1>6, <1>7

\* A run's report among them.
LEMMA ReportOrdered ==
  ASSUME NEW ev \in Seq(Post \cup Report), NEW ca \in Seq(Clients \X Nat), Ordered(ev, ca),
         NEW e \in Report
  PROVE  /\ Append(ev, e) \in Seq(Post \cup Report)
         /\ Ordered(Append(ev, e), ca)
         /\ \A c \in Clients, n \in Nat : Posted(Append(ev, e), c, n) <=> Posted(ev, c, n)
         /\ \A k \in DOMAIN Append(ev, e) : Append(ev, e)[k].what = "call" =>
              k \in DOMAIN ev /\ ev[k] = Append(ev, e)[k]
<1>0. PICK u \in Seq(Post \cup Report) : Longer(u, ev, e)
  <2>1. e \in Post \cup Report OBVIOUS
  <2> QED BY <2>1, Appended
<1>1. /\ u = Append(ev, e) /\ u[Len(u)] = e /\ DOMAIN u = DOMAIN ev \cup {Len(u)}
      /\ DOMAIN u \subseteq 1 .. Len(u) /\ Len(u) \in Nat
      /\ \A i \in DOMAIN ev : u[i] = ev[i] /\ i < Len(u)
  BY <1>0 DEF Longer
<1>2. e.what = "report" BY DEF Report
<1>3. \A k \in DOMAIN u : u[k].what # "report" => k \in DOMAIN ev /\ u[k] = ev[k]
  BY <1>1, <1>2
<1>4. Ordered(u, ca) BY <1>3 DEF Ordered
<1>5. \A c \in Clients, n \in Nat : Posted(u, c, n) <=> Posted(ev, c, n)
  BY <1>1, <1>3 DEF Posted
<1>6. \A k \in DOMAIN u : u[k].what = "call" => k \in DOMAIN ev /\ ev[k] = u[k]
  BY <1>3
<1> QED BY <1>1, <1>4, <1>5, <1>6

\* The oldest event: carried out, if it is a request.
LEMMA HeadOrdered ==
  ASSUME NEW ev \in Seq(Post \cup Report), NEW ca \in Seq(Clients \X Nat), Ordered(ev, ca),
         ev # <<>>
  PROVE  /\ Tail(ev) \in Seq(Post \cup Report) /\ Head(ev) \in Post \cup Report
         /\ \A k \in DOMAIN Tail(ev) : /\ k + 1 \in DOMAIN ev /\ Tail(ev)[k] = ev[k + 1]
                                       /\ 1 \in DOMAIN ev /\ 1 < k + 1 /\ Head(ev) = ev[1]
         /\ Ordered(Tail(ev), ca)
         /\ Head(ev).what = "report" =>
              \A c \in Clients, n \in Nat : Posted(Tail(ev), c, n) <=> Posted(ev, c, n)
         /\ Head(ev).what # "report" =>
              \A c \in Clients, n \in Nat :
                Posted(ev, c, n) <=>
                  Posted(Tail(ev), c, n) \/ (c = Head(ev).client /\ n = Head(ev).n)
<1>8. ev[1] \in Post \cup Report /\ \E u \in Seq(Post \cup Report) : Shorter(u, ev) BY Shortened
<1>9. PICK u \in Seq(Post \cup Report) : Shorter(u, ev) BY <1>8
<1>1. /\ u = Tail(ev) /\ Head(ev) = ev[1] /\ 1 \in DOMAIN ev /\ ev[1] \in Post \cup Report
      /\ \A i \in DOMAIN u : i \in Nat /\ i + 1 \in DOMAIN ev /\ 1 < i + 1 /\ u[i] = ev[i + 1]
      /\ \A i \in DOMAIN ev : i # 1 => i - 1 \in DOMAIN u /\ i - 1 + 1 = i
  BY <1>8, <1>9 DEF Shorter
<1>2. Ordered(u, ca)
  <2>1. \A j, k \in DOMAIN ca : j < k /\ ca[j][1] = ca[k][1] => ca[j][2] < ca[k][2]
    BY DEF Ordered
  <2>2. ASSUME NEW j \in DOMAIN ca, NEW k \in DOMAIN u,
               u[k].what # "report", ca[j][1] = u[k].client
        PROVE  ca[j][2] < u[k].n
    BY <1>1, <2>2 DEF Ordered
  <2>3. ASSUME NEW j \in DOMAIN u, NEW k \in DOMAIN u, j < k,
               u[j].what # "report", u[k].what # "report", u[j].client = u[k].client
        PROVE  u[j].n < u[k].n
    <3>1. j + 1 < k + 1 /\ j + 1 \in DOMAIN ev /\ k + 1 \in DOMAIN ev BY <1>1, <2>3
    <3>2. u[j] = ev[j + 1] /\ u[k] = ev[k + 1] BY <1>1
    <3> QED BY <3>1, <3>2, <2>3 DEF Ordered
  <2> QED BY <2>1, <2>2, <2>3 DEF Ordered
<1>3. ASSUME NEW c \in Clients, NEW n \in Nat
      PROVE  Posted(ev, c, n) <=>
               \/ Posted(u, c, n)
               \/ Head(ev).what # "report" /\ c = Head(ev).client /\ n = Head(ev).n
  <2>1. ASSUME NEW k \in DOMAIN ev, ev[k].what # "report", ev[k].client = c, ev[k].n = n, k # 1
        PROVE  Posted(u, c, n)
    <3>1. k - 1 \in DOMAIN u /\ u[k - 1] = ev[k] BY <2>1, <1>1
    <3> QED BY <3>1, <2>1 DEF Posted
  <2>2. Posted(u, c, n) => Posted(ev, c, n) BY <1>1 DEF Posted
  <2>3. Head(ev).what # "report" /\ c = Head(ev).client /\ n = Head(ev).n => Posted(ev, c, n)
    BY <1>1 DEF Posted
  <2>4. Posted(ev, c, n) =>
          \/ Posted(u, c, n)
          \/ Head(ev).what # "report" /\ c = Head(ev).client /\ n = Head(ev).n
    BY <2>1, <1>1 DEF Posted
  <2> QED BY <2>2, <2>3, <2>4
<1> QED BY <1>1, <1>2, <1>3

\* Carrying out the oldest request: it becomes the last of those carried out.
LEMMA CarriedOrdered ==
  ASSUME NEW ev \in Seq(Post \cup Report), NEW ca \in Seq(Clients \X Nat), Ordered(ev, ca),
         ev # <<>>, Head(ev).what # "report"
  PROVE  LET e == Head(ev)
             x == Append(ca, <<e.client, e.n>>)
         IN  /\ e \in Post
             /\ x \in Seq(Clients \X Nat) /\ Ordered(Tail(ev), x)
             /\ \A c \in Clients, n \in Nat :
                  Done(x, c, n) <=> Done(ca, c, n) \/ (c = e.client /\ n = e.n)
<1>1. PICK e \in Post : e = Head(ev)
  <2>1. Head(ev) \in Post \cup Report BY HeadOrdered
  <2>2. Head(ev) \in Post BY <2>1 DEF Report
  <2> QED BY <2>2
<1>2. PICK p \in Clients \X Nat : p = <<e.client, e.n>> /\ p[1] = e.client /\ p[2] = e.n
  <2>1. <<e.client, e.n>> \in Clients \X Nat BY DEF Post
  <2> QED BY <2>1
<1>0. PICK x \in Seq(Clients \X Nat) : Longer(x, ca, p) BY Appended
<1>3. /\ x = Append(ca, p) /\ x[Len(x)] = p /\ DOMAIN x = DOMAIN ca \cup {Len(x)}
      /\ DOMAIN x \subseteq 1 .. Len(x) /\ Len(x) \in Nat
      /\ \A i \in DOMAIN ca : x[i] = ca[i] /\ i < Len(x)
  BY <1>0 DEF Longer
<1>8. ev[1] \in Post \cup Report /\ \E u \in Seq(Post \cup Report) : Shorter(u, ev) BY Shortened
<1>9. PICK u \in Seq(Post \cup Report) : Shorter(u, ev) BY <1>8
<1>4. /\ u = Tail(ev) /\ Head(ev) = ev[1] /\ 1 \in DOMAIN ev /\ ev[1] \in Post \cup Report
      /\ \A i \in DOMAIN u : i \in Nat /\ i + 1 \in DOMAIN ev /\ 1 < i + 1 /\ u[i] = ev[i + 1]
      /\ \A i \in DOMAIN ev : i # 1 => i - 1 \in DOMAIN u /\ i - 1 + 1 = i
  BY <1>8, <1>9 DEF Shorter
<1>5. Ordered(u, ca) BY <1>4, HeadOrdered
<1>6. Ordered(u, x)
  <2>1. ASSUME NEW j \in DOMAIN x, NEW k \in DOMAIN x, j < k, x[j][1] = x[k][1]
        PROVE  x[j][2] < x[k][2]
    <3>0. j \in DOMAIN ca
      <4>1. j \in 1 .. Len(x) /\ k \in 1 .. Len(x) BY <1>3
      <4>3. j # Len(x) BY <2>1, <4>1, <1>3
      <4> QED BY <4>3, <1>3
    <3>1. CASE k \in DOMAIN ca BY <3>0, <3>1, <2>1, <1>3 DEF Ordered
    <3>2. CASE k = Len(x)
      <4>1. ca[j][1] = ev[1].client /\ ev[1].what # "report"
        BY <3>0, <3>2, <2>1, <1>1, <1>2, <1>3, <1>4
      <4>2. ca[j][2] < ev[1].n BY <3>0, <4>1, <1>4 DEF Ordered
      <4> QED BY <3>0, <3>2, <4>2, <1>1, <1>2, <1>3, <1>4
    <3> QED BY <3>1, <3>2, <1>3
  <2>2. ASSUME NEW j \in DOMAIN x, NEW k \in DOMAIN u,
               u[k].what # "report", x[j][1] = u[k].client
        PROVE  x[j][2] < u[k].n
    <3>1. CASE j \in DOMAIN ca BY <3>1, <2>2, <1>3, <1>5 DEF Ordered
    <3>2. CASE j = Len(x)
      <4>1. x[j][2] = ev[1].n /\ ev[1].client = ev[k + 1].client /\ u[k] = ev[k + 1]
        BY <3>2, <2>2, <1>1, <1>2, <1>3, <1>4
      <4>2. k + 1 \in DOMAIN ev /\ 1 < k + 1 /\ ev[k + 1].what # "report" /\ ev[1].what # "report"
        BY <2>2, <4>1, <1>4
      <4>3. ev[1].n < ev[k + 1].n BY <4>1, <4>2, <1>4 DEF Ordered
      <4> QED BY <4>1, <4>3
    <3> QED BY <3>1, <3>2, <1>3
  <2>3. \A j, k \in DOMAIN u :
          j < k /\ u[j].what # "report" /\ u[k].what # "report" /\ u[j].client = u[k].client
          => u[j].n < u[k].n
    BY <1>5 DEF Ordered
  <2> QED BY <2>1, <2>2, <2>3 DEF Ordered
<1>7. ASSUME NEW c \in Clients, NEW n \in Nat
      PROVE  Done(x, c, n) <=> Done(ca, c, n) \/ (c = e.client /\ n = e.n)
  <2>1. Done(ca, c, n) => Done(x, c, n) BY <1>3 DEF Done
  <2>2. c = e.client /\ n = e.n => Done(x, c, n) BY <1>2, <1>3 DEF Done
  <2>3. Done(x, c, n) => Done(ca, c, n) \/ <<c, n>> = p BY <1>3 DEF Done
  <2>4. <<c, n>> = p => c = e.client /\ n = e.n BY <1>2
  <2> QED BY <2>1, <2>2, <2>3, <2>4
<1> QED BY <1>1, <1>2, <1>3, <1>4, <1>6, <1>7

----------------------------------------------------------------------------
(* What a step leaves alone keeps what depends on nothing else.            *)

\* The server thread and the clients leave the GUI thread and the runs alone.
LEMMA StraysFrame ==
  ASSUME Strays, Shaped', UNCHANGED <<gui, runs, plays, flags>>,
         server.pc = "end" => server'.pc = "end"
  PROVE  Strays'
<1>1. Stopping' BY DEF Strays, Stopping
<1>2. Joinable' BY DEF Strays, Joinable, Unused
<1> QED BY <1>1, <1>2 DEF Strays

\* What was answered stays answered rightly.
LEMMA AnsweredKept ==
  ASSUME Shaped, NEW c \in Clients, Answered(c), replies'[c] = replies[c],
         Len(sent[c]) <= Len(sent'[c]), Len(sent'[c]) \in Nat,
         \A i \in 1 .. Len(sent[c]) : sent'[c][i] = sent[c][i],
         \A n \in Nat : Issued(c, n) => Issued(c, n)',
         \A n \in Nat : Done(carried, c, n) => Done(carried, c, n)',
         flags.destroying => flags'.destroying
  PROVE  Answered(c)'
<1>1. PICK r \in Seq(Answer) : r = replies[c] BY DEF Shaped
<1>2. PICK q \in Seq(Kinds) : q = sent[c] BY DEF Shaped
<1>3. Len(r) \in Nat /\ Len(q) \in Nat /\ DOMAIN r = 1 .. Len(r) OBVIOUS
<1>4. Len(r) <= Len(q) BY <1>1, <1>2 DEF Answered
<1>5. Len(replies'[c]) <= Len(sent'[c]) BY <1>1, <1>2, <1>3, <1>4
<1>6. ASSUME NEW i \in DOMAIN replies'[c]
      PROVE  /\ replies'[c][i].kind = sent'[c][i]
             /\ sent'[c][i] # "bad" => Issued(c, i)'
             /\ replies'[c][i].answer = "result" =>
                  \/ replies'[c][i].kind = "post"
                  \/ replies'[c][i].kind = "call" /\ Done(carried, c, i)'
             /\ replies'[c][i].answer = "nothing" => flags'.destroying
  <2>1. i \in DOMAIN r /\ i \in Nat /\ i \in 1 .. Len(q) BY <1>1, <1>3, <1>4
  <2>2. sent'[c][i] = sent[c][i] BY <2>1, <1>2
  <2>3. i \in DOMAIN replies[c] BY <2>1, <1>1
  <2> QED BY <2>1, <2>2, <2>3 DEF Answered
<1> QED BY <1>5, <1>6 DEF Answered

\* The GUI thread and the runs leave the server thread and the clients alone.
LEMMA OrderlyFrame ==
  ASSUME Shaped, Orderly, UNCHANGED <<conn, sent, wire, replies, server>>,
         \A c \in Clients, n \in Nat : Issued(c, n)' <=> Issued(c, n),
         \A c \in Clients, n \in Nat : Done(carried, c, n) => Done(carried, c, n)',
         flags.destroying => flags'.destroying,
         Ordered(events, carried)', Waiting'
  PROVE  Orderly'
<1>1. Busy'
  <2>1. server.taken + 1 \in Nat
    <3>1. server \in ServerType BY DEF Shaped
    <3>2. server.taken \in Nat BY <3>1 DEF ServerType
    <3> QED BY <3>2
  <2>2. PICK n \in Nat : n = server.taken + 1 BY <2>1
  <2>3. /\ Handling => server.client \in Clients /\ Len(server.buffer) >= 2
        /\ Handling /\ server.buffer[1] # "bad" => Issued(server.client, n)
        /\ server.pc = "result" =>
             \/ server.buffer[1] = "post"
             \/ server.buffer[1] = "call" /\ Done(carried, server.client, n)
    BY <2>2 DEF Orderly, Busy, Handling
  <2>4. /\ Handling /\ server.buffer[1] # "bad" => Issued(server.client, n)'
        /\ server.pc = "result" =>
             \/ server.buffer[1] = "post"
             \/ server.buffer[1] = "call" /\ Done(carried, server.client, n)'
    BY <2>2, <2>3 DEF Handling
  <2>5. /\ Issued(server.client, n)' => Issued(server.client, server.taken + 1)'
        /\ Done(carried, server.client, n)' => Done(carried, server.client, server.taken + 1)'
    BY <2>2
  <2>6. Handling' <=> Handling BY DEF Handling
  <2> QED BY <2>3, <2>4, <2>5, <2>6 DEF Orderly, Busy, Handling
<1>2. ASSUME NEW c \in Clients
      PROVE  Speaks(c)' /\ Handled(c)' /\ Answered(c)'
  <2>1. Speaks(c) /\ Handled(c) /\ Answered(c) BY DEF Orderly
  <2>2. (Serving(c)' <=> Serving(c)) /\ (Fresh(c)' <=> Fresh(c)) BY DEF Serving, Fresh, Handling
  <2>3. Speaks(c)' BY <2>1, <2>2 DEF Speaks
  <2>4. Handled(c)' BY <2>1, <2>2 DEF Handled, Handling
  <2>5. Answered(c)'
    <3>1. sent[c] \in Seq(Kinds) BY DEF Shaped
    <3>2. Len(sent[c]) \in Nat BY <3>1
    <3> QED BY <2>1, <3>2, AnsweredKept
  <2> QED BY <2>3, <2>4, <2>5
<1> QED BY <1>1, <1>2 DEF Orderly

\* A client the server does not deal with.
LEMMA OthersKept ==
  ASSUME Shaped, NEW c \in Clients, Speaks(c), Handled(c), Answered(c),
         ~Serving(c), ~Serving(c)',
         conn'[c] = conn[c], wire'[c] = wire[c], replies'[c] = replies[c], sent' = sent,
         \A n \in Nat : Issued(c, n)' <=> Issued(c, n), carried' = carried, flags' = flags
  PROVE  Speaks(c)' /\ Handled(c)' /\ Answered(c)'
<1>1. Fresh(c)' <=> Fresh(c) BY DEF Fresh
<1>2. Speaks(c)' BY <1>1 DEF Speaks
<1>3. Handled(c)' BY <1>1 DEF Handled, Handling
<1>4. sent[c] \in Seq(Kinds) BY DEF Shaped
<1>5. Len(sent[c]) \in Nat BY <1>4
<1>6. \A n \in Nat : Done(carried, c, n) => Done(carried, c, n)' BY DEF Done
<1>7. Answered(c)' BY <1>5, <1>6, AnsweredKept
<1> QED BY <1>2, <1>3, <1>7

----------------------------------------------------------------------------
(* The GUI thread and the runs.                                            *)

\* What is typed of the variables that the GUI thread and the runs change.
LEMMA GuiShaped ==
  ASSUME Shaped, UNCHANGED <<conn, sent, wire, replies, server>>,
         events' \in Seq(Post \cup Report), carried' \in Seq(Clients \X Nat), future' \in BOOLEAN,
         gui' \in GuiType, runs' \in [Runs -> RunType], plays' \in [Folders -> Holder],
         flags' \in [destroying : BOOLEAN, running : BOOLEAN]
  PROVE  Shaped'
BY DEF Shaped

\* A step that leaves the queue, what was carried out and the future alone.
LEMMA QuietOrderly ==
  ASSUME Shaped, Orderly, UNCHANGED <<conn, sent, wire, replies, server, events, carried>>,
         ~flags'.destroying => ~flags.destroying /\ future' = future /\ (gui'.asked => gui.asked)
  PROVE  Orderly'
<1>1. \A c \in Clients, n \in Nat : Issued(c, n)' <=> Issued(c, n) BY DEF Issued, Posted, Done
<1>2. \A c, n : Done(carried, c, n)' <=> Done(carried, c, n) BY DEF Done
<1>3. Ordered(events, carried)' BY DEF Orderly, Ordered
<1>4. Waiting' BY <1>2 DEF Orderly, Waiting
<1>5. flags.destroying => flags'.destroying
  OBVIOUS
<1> QED BY <1>1, <1>2, <1>3, <1>4, <1>5, OrderlyFrame

\* The user presses Play: no call is waited for on its account.
LEMMA PlayKeeps ==
  ASSUME IInv, NEW f \in Folders, Play(f)
  PROVE  IInv'
<1>0. Shaped /\ Stopping /\ Joinable /\ Orderly BY DEF IInv, Strays
<1>1. /\ UNCHANGED <<conn, sent, wire, replies, server, events, carried, flags>>
      /\ gui.pc = "loop" /\ Unused # {} /\ OnPlay(f, FALSE)
  BY DEF Play
<1>2. /\ runs' \in [Runs -> RunType]
      /\ plays' \in [Folders -> Holder] /\ future' \in BOOLEAN
      /\ gui' \in GuiType /\ gui'.pc \in {"loop", "join"} /\ (gui'.asked => FALSE \/ gui.asked)
      /\ Joinable'
  BY <1>0, <1>1, OnPlayKeeps
<1>3. Shaped'
  <2>1. /\ events' \in Seq(Post \cup Report) /\ carried' \in Seq(Clients \X Nat)
        /\ flags' \in [destroying : BOOLEAN, running : BOOLEAN]
    BY <1>0, <1>1 DEF Shaped
  <2> QED BY <1>0, <1>1, <1>2, <2>1, GuiShaped
<1>4. Stopping' BY <1>0, <1>1, <1>2 DEF Stopping
<1>5. future' = future
  <2>1. CASE future' = (future \/ FALSE)
    <3>1. future \in BOOLEAN BY <1>0 DEF Shaped
    <3> QED BY <2>1, <3>1
  <2>2. CASE UNCHANGED future BY <2>2
  <2> QED BY <1>1, <2>1, <2>2 DEF OnPlay
<1>6. Orderly' BY <1>0, <1>1, <1>2, <1>5, QuietOrderly
<1> QED BY <1>2, <1>3, <1>4, <1>6 DEF IInv, Strays

\* The previous run is joined: the next starts, and the call that asked is done.
LEMMA JoinedKeeps ==
  ASSUME IInv, Joined
  PROVE  IInv'
<1>0. Shaped /\ Stopping /\ Joinable /\ Orderly BY DEF IInv, Strays
<1>1. /\ UNCHANGED <<conn, sent, wire, replies, server, events, carried, flags>>
      /\ gui.pc = "join" /\ Starts(gui.folder)
      /\ future' = (future \/ gui.asked)
      /\ gui' = [pc |-> "loop", folder |-> None, asked |-> FALSE]
      /\ runs[plays[gui.folder].worker].state = "ended"
  BY DEF Joined
<1>2. gui.folder \in Folders /\ Unused # {}
      /\ \A r \in Runs : runs[r].state = "running" => \E g \in Folders : plays[g].worker = r
  BY <1>0, <1>1 DEF Joinable
<1>3. runs[plays[gui.folder].worker].state # "running" BY <1>1
<1>4. /\ runs' \in [Runs -> RunType] /\ plays' \in [Folders -> Holder]
      /\ \A r \in Runs : runs'[r].state = "running" => \E g \in Folders : plays'[g].worker = r
  BY <1>0, <1>1, <1>2, <1>3, StartsKeeps
<1>5. gui' \in GuiType /\ gui'.pc = "loop" /\ ~gui'.asked BY <1>1 DEF GuiType
<1>6. future' \in BOOLEAN /\ (future' <=> future \/ gui.asked)
  BY <1>1
<1>7. Shaped'
  <2>1. /\ events' \in Seq(Post \cup Report) /\ carried' \in Seq(Clients \X Nat)
        /\ flags' \in [destroying : BOOLEAN, running : BOOLEAN]
    BY <1>0, <1>1 DEF Shaped
  <2> QED BY <1>0, <1>1, <1>4, <1>5, <1>6, <2>1, GuiShaped
<1>8. Stopping' BY <1>0, <1>1, <1>5 DEF Stopping
<1>9. Joinable' BY <1>4, <1>5 DEF Joinable
<1>10. Orderly'
  <2>1. \A c \in Clients, n \in Nat : Issued(c, n)' <=> Issued(c, n)
    BY <1>1 DEF Issued, Posted, Done
  <2>2. \A c, n : Done(carried, c, n)' <=> Done(carried, c, n) BY <1>1 DEF Done
  <2>3. Ordered(events, carried)' BY <1>0, <1>1 DEF Orderly, Ordered
  <2>4. Waiting' BY <1>0, <1>1, <1>5, <1>6, <2>2 DEF Orderly, Waiting
  <2> QED BY <1>0, <1>1, <2>1, <2>2, <2>3, <2>4, OrderlyFrame
<1> QED BY <1>7, <1>8, <1>9, <1>10 DEF IInv, Strays

\* A run ends: its report goes to the queue, its worker is joined later.
LEMMA RunEndsKeeps ==
  ASSUME IInv, NEW r \in Runs, RunEnds(r)
  PROVE  IInv'
<1>0. Shaped /\ Stopping /\ Joinable /\ Orderly BY DEF IInv, Strays
<1>1. PICK e \in Report : e = [what |-> "report", client |-> None, n |-> r] BY DEF Report
<1>2. /\ UNCHANGED <<conn, sent, wire, replies, server, carried, future, gui, plays, flags>>
      /\ runs' = [runs EXCEPT ![r].state = "ended"]
      /\ events' = Append(events, e)
  BY <1>1 DEF RunEnds
<1>3. PICK x \in RunType : x = [runs[r] EXCEPT !.state = "ended"] /\ x.state = "ended"
  <2>1. runs[r] \in RunType BY <1>0 DEF Shaped
  <2>2. [runs[r] EXCEPT !.state = "ended"] \in RunType BY <2>1 DEF RunType
  <2>3. [runs[r] EXCEPT !.state = "ended"].state = "ended" BY <2>1 DEF RunType
  <2> QED BY <2>2, <2>3
<1>4. runs' = [runs EXCEPT ![r] = x] BY <1>2, <1>3
<1>5. /\ runs' \in [Runs -> RunType]
      /\ \A q \in Runs : runs'[q].state = "running" => runs[q].state = "running"
      /\ \A q \in Runs : runs[q].state = "unused" /\ q # r => runs'[q].state = "unused"
  BY <1>0, <1>3, <1>4 DEF Shaped
<1>6. r \notin Unused BY DEF Unused, RunEnds
<1>7. Joinable'
  <2>1. Unused # {} => (Unused # {})' BY <1>5, <1>6 DEF Unused
  <2> QED BY <1>0, <1>2, <1>5, <2>1 DEF Joinable
<1>8. events \in Seq(Post \cup Report) /\ carried \in Seq(Clients \X Nat)
      /\ Ordered(events, carried)
  BY <1>0 DEF Shaped, Orderly
<1>9. /\ events' \in Seq(Post \cup Report) /\ Ordered(events', carried)
      /\ \A c \in Clients, n \in Nat : Posted(events', c, n) <=> Posted(events, c, n)
      /\ \A k \in DOMAIN events' : events'[k].what = "call" =>
           k \in DOMAIN events /\ events[k] = events'[k]
  BY <1>2, <1>8, ReportOrdered
<1>10. Shaped'
  <2>1. /\ carried' \in Seq(Clients \X Nat) /\ future' \in BOOLEAN /\ gui' \in GuiType
        /\ plays' \in [Folders -> Holder]
        /\ flags' \in [destroying : BOOLEAN, running : BOOLEAN]
    BY <1>0, <1>2 DEF Shaped
  <2> QED BY <1>0, <1>2, <1>5, <1>9, <2>1, GuiShaped
<1>11. Stopping' BY <1>0, <1>2 DEF Stopping
<1>12. Orderly'
  <2>1. \A c, n : Done(carried, c, n)' <=> Done(carried, c, n) BY <1>2 DEF Done
  <2>2. ASSUME NEW c \in Clients, NEW n \in Nat PROVE Issued(c, n)' <=> Issued(c, n)
    <3>1. Posted(events, c, n)' <=> Posted(events', c, n) BY DEF Posted
    <3> QED BY <1>9, <2>1, <3>1 DEF Issued
  <2>3. Ordered(events, carried)' BY <1>2, <1>9
  <2>4. Waiting' BY <1>0, <1>2, <1>9, <2>1 DEF Orderly, Waiting
  <2> QED BY <1>0, <1>2, <2>1, <2>2, <2>3, <2>4, OrderlyFrame
<1> QED BY <1>7, <1>10, <1>11, <1>12 DEF IInv, Strays

\* The oldest event: a report, a request, or the call the server waits for.
LEMMA HandleEventKeeps ==
  ASSUME IInv, HandleEvent
  PROVE  IInv'
<1>0. Shaped /\ Stopping /\ Joinable /\ Orderly BY DEF IInv, Strays
<1>1. /\ UNCHANGED <<conn, sent, wire, replies, server, flags>>
      /\ gui.pc = "loop" /\ events # <<>> /\ events' = Tail(events)
  BY DEF HandleEvent
<1>2. events \in Seq(Post \cup Report) /\ carried \in Seq(Clients \X Nat)
      /\ Ordered(events, carried)
  BY <1>0 DEF Shaped, Orderly
<1>3. PICK e \in Post \cup Report : e = Head(events) BY <1>1, <1>2, HeadOrdered
<1>4. /\ events' \in Seq(Post \cup Report) /\ Ordered(events', carried)
      /\ \A k \in DOMAIN events' : /\ k + 1 \in DOMAIN events /\ events'[k] = events[k + 1]
                                   /\ 1 \in DOMAIN events /\ 1 < k + 1 /\ e = events[1]
  BY <1>1, <1>2, <1>3, HeadOrdered
<1>5. flags' \in [destroying : BOOLEAN, running : BOOLEAN] BY <1>0, <1>1 DEF Shaped
<1>6. \A c, n : Posted(events, c, n)' <=> Posted(events', c, n) BY DEF Posted
\* A report.
<1>7. CASE e.what = "report" /\ Reported(e.n) /\ UNCHANGED <<carried, future, gui, runs>>
  <2>1. plays' \in [Folders -> Holder]
    <3>1. \A h \in Holder : [h EXCEPT !.token = None] \in Holder BY DEF Holder
    <3>2. \A f \in Folders : plays[f] \in Holder BY <1>0 DEF Shaped
    <3>3. plays' = [f \in Folders |-> IF plays[f].token = e.n
                                      THEN [plays[f] EXCEPT !.token = None] ELSE plays[f]]
      BY <1>7 DEF Reported
    <3>4. \A f \in Folders : plays'[f] \in Holder BY <3>1, <3>2, <3>3
    <3> QED BY <3>3, <3>4
  <2>2. \A f \in Folders : plays'[f].worker = plays[f].worker
    <3>1. \A h \in Holder : [h EXCEPT !.token = None].worker = h.worker BY DEF Holder
    <3>2. \A f \in Folders : plays[f] \in Holder BY <1>0 DEF Shaped
    <3> QED BY <3>1, <3>2, <1>7 DEF Reported
  <2>3. Joinable' BY <1>0, <1>7, <2>2 DEF Joinable, Unused
  <2>4. Shaped'
    <3>1. /\ carried' \in Seq(Clients \X Nat) /\ future' \in BOOLEAN /\ gui' \in GuiType
          /\ runs' \in [Runs -> RunType]
      BY <1>0, <1>7 DEF Shaped
    <3> QED BY <1>0, <1>1, <1>4, <1>5, <2>1, <3>1, GuiShaped
  <2>5. Stopping' BY <1>0, <1>1, <1>7 DEF Stopping
  <2>6. \A c, n : Done(carried, c, n)' <=> Done(carried, c, n) BY <1>7 DEF Done
  <2>7. ASSUME NEW c \in Clients, NEW n \in Nat PROVE Issued(c, n)' <=> Issued(c, n)
    <3>1. Posted(events', c, n) <=> Posted(events, c, n)
      BY <1>1, <1>2, <1>3, <1>7, HeadOrdered
    <3> QED BY <1>6, <2>6, <3>1 DEF Issued
  <2>8. Ordered(events, carried)' BY <1>4, <1>7
  <2>9. Waiting' BY <1>0, <1>1, <1>4, <1>7, <2>6 DEF Orderly, Waiting
  <2>10. Orderly' BY <1>0, <1>1, <2>6, <2>7, <2>8, <2>9, OrderlyFrame
  <2> QED BY <2>3, <2>4, <2>5, <2>10 DEF IInv, Strays
\* A request is carried out.
<1>8. ASSUME e.what # "report", carried' = Append(carried, <<e.client, e.n>>)
      PROVE  /\ carried' \in Seq(Clients \X Nat) /\ e \in Post
             /\ Ordered(events, carried)'
             /\ \A c \in Clients, n \in Nat :
                  /\ Issued(c, n)' <=> Issued(c, n)
                  /\ Done(carried, c, n) => Done(carried, c, n)'
             /\ Done(carried, e.client, e.n)'
  <2>1. /\ e \in Post /\ carried' \in Seq(Clients \X Nat) /\ Ordered(events', carried')
        /\ \A c \in Clients, n \in Nat :
             Done(carried', c, n) <=> Done(carried, c, n) \/ (c = e.client /\ n = e.n)
    BY <1>1, <1>2, <1>3, <1>8, CarriedOrdered
  <2>2. \A c \in Clients, n \in Nat :
          Posted(events, c, n) <=> Posted(events', c, n) \/ (c = e.client /\ n = e.n)
    BY <1>1, <1>2, <1>3, <1>8, HeadOrdered
  <2>3. \A c, n : Done(carried, c, n)' <=> Done(carried', c, n) BY DEF Done
  <2>4. ASSUME NEW c \in Clients, NEW n \in Nat PROVE Issued(c, n)' <=> Issued(c, n)
    BY <2>1, <2>2, <2>3, <1>6 DEF Issued
  <2>5. e.client \in Clients /\ e.n \in Nat BY <2>1 DEF Post
  <2>6. Ordered(events, carried)' BY <2>1
  <2> QED BY <2>1, <2>3, <2>4, <2>5, <2>6
<1>9. CASE /\ e.what = "post" /\ carried' = Append(carried, <<e.client, e.n>>)
           /\ UNCHANGED <<future, gui, runs, plays>>
  <2>1. e.what # "report" BY <1>9
  <2>2. Shaped'
    <3>1. /\ future' \in BOOLEAN /\ gui' \in GuiType
          /\ runs' \in [Runs -> RunType] /\ plays' \in [Folders -> Holder]
      BY <1>0, <1>9 DEF Shaped
    <3> QED BY <1>0, <1>1, <1>4, <1>5, <1>8, <1>9, <2>1, <3>1, GuiShaped
  <2>3. Stopping' /\ Joinable' BY <1>0, <1>1, <1>9 DEF Stopping, Joinable, Unused
  <2>4. Waiting'
    <3>1. ASSUME server.client \in Clients, Done(carried, server.client, server.taken + 1)
          PROVE  Done(carried, server.client, server.taken + 1)'
      <4>1. server \in ServerType BY <1>0 DEF Shaped
      <4>2. server.taken + 1 \in Nat BY <4>1 DEF ServerType
      <4>3. PICK n \in Nat : n = server.taken + 1 BY <4>2
      <4>4. Done(carried, server.client, n) BY <3>1, <4>3
      <4>5. Done(carried, server.client, n)' BY <4>4, <3>1, <1>8, <1>9, <2>1, <1>1
      <4> QED BY <4>3, <4>5, <1>1 DEF Done
    <3>2. server.pc = "wait" => server.client \in Clients BY <1>0 DEF Orderly, Busy, Handling
    <3> QED BY <1>0, <1>1, <1>4, <1>9, <3>1, <3>2 DEF Orderly, Waiting
  <2>5. Orderly' BY <1>0, <1>1, <1>8, <1>9, <2>1, <2>4, OrderlyFrame
  <2> QED BY <2>2, <2>3, <2>5 DEF IInv, Strays
<1>10. CASE /\ e.what = "call" /\ carried' = Append(carried, <<e.client, e.n>>)
            /\ \/ future' = TRUE /\ UNCHANGED <<gui, runs, plays>>
               \/ Unused # {} /\ \E f \in Folders : OnPlay(f, TRUE)
  <2>1. e.what # "report" BY <1>10
  <2>0. ~flags.destroying BY <1>0, <1>1 DEF Stopping
  \* It is the one the server waits for.
  <2>2. /\ server.pc = "wait" /\ ~future /\ ~gui.asked
        /\ e.client = server.client /\ e.n = server.taken + 1
    <3>1. 1 \in DOMAIN events /\ e = events[1] BY <1>1, <1>2, <1>3
    <3> QED BY <3>1, <1>10, <2>0, <1>0 DEF Orderly, Waiting
  <2>3. \A k \in DOMAIN events' : events'[k].what # "call"
    <3> SUFFICES ASSUME NEW k \in DOMAIN events', events'[k].what = "call" PROVE FALSE OBVIOUS
    <3>1. /\ k + 1 \in DOMAIN events /\ events'[k] = events[k + 1] /\ 1 \in DOMAIN events
          /\ 1 < k + 1 /\ e = events[1]
      BY <1>4
    <3>2. events[k + 1].client = server.client /\ events[k + 1].n = server.taken + 1
      BY <3>1, <2>0, <1>0 DEF Orderly, Waiting
    <3>3. events[1].n < events[k + 1].n BY <3>1, <3>2, <2>1, <2>2, <1>2 DEF Ordered
    <3>4. events[1].n = events[k + 1].n BY <3>1, <3>2, <2>2
    <3>5. e.n \in Nat BY <1>8, <1>10, <2>1 DEF Post
    <3> QED BY <3>1, <3>3, <3>4, <3>5
  <2>4. Done(carried, server.client, server.taken + 1)' BY <1>1, <1>8, <1>10, <2>1, <2>2 DEF Done
  <2>5. /\ future' \in BOOLEAN /\ gui' \in GuiType
        /\ runs' \in [Runs -> RunType] /\ plays' \in [Folders -> Holder]
        /\ gui'.pc \in {"loop", "join"} /\ Joinable'
        /\ gui'.asked => ~future'
    <3>1. CASE future' = TRUE /\ UNCHANGED <<gui, runs, plays>>
      <4>1. Joinable' BY <3>1, <1>0 DEF Joinable, Unused
      <4> QED BY <3>1, <4>1, <1>0, <1>1, <2>2 DEF Shaped
    <3>2. CASE Unused # {} /\ \E f \in Folders : OnPlay(f, TRUE)
      <4>1. PICK f \in Folders : OnPlay(f, TRUE) BY <3>2
      <4>2. /\ future' \in BOOLEAN /\ gui' \in GuiType
            /\ runs' \in [Runs -> RunType] /\ plays' \in [Folders -> Holder]
            /\ gui'.pc \in {"loop", "join"} /\ Joinable'
        BY <4>1, <3>2, <1>0, <1>1, OnPlayKeeps
      <4>3. gui'.asked => ~future'
        <5>1. CASE UNCHANGED gui BY <5>1, <2>2
        <5>2. CASE UNCHANGED <<plays, future>> BY <5>2, <2>2
        <5> QED BY <4>1, <5>1, <5>2 DEF OnPlay
      <4> QED BY <4>2, <4>3
    <3> QED BY <1>10, <3>1, <3>2
  <2>6. Shaped' BY <1>0, <1>1, <1>4, <1>5, <1>8, <1>10, <2>1, <2>5, GuiShaped
  <2>7. Stopping' BY <1>0, <1>1, <2>5 DEF Stopping
  <2>8. Waiting' BY <1>1, <2>2, <2>3, <2>4, <2>5 DEF Waiting
  <2>9. Orderly' BY <1>0, <1>1, <1>8, <1>10, <2>1, <2>8, OrderlyFrame
  <2> QED BY <2>5, <2>6, <2>7, <2>9 DEF IInv, Strays
<1> QED BY <1>3, <1>7, <1>9, <1>10 DEF HandleEvent

\* The steps of the destructor.
LEMMA DestroyKeeps ==
  ASSUME IInv, Destroy \/ StopServer \/ ServerJoined \/ StopPlays \/ LastJoined
  PROVE  IInv'
<1>0. Shaped /\ Stopping /\ Joinable /\ Orderly BY DEF IInv, Strays
<1>1. UNCHANGED <<conn, sent, wire, replies, server, events, carried, future>>
  BY DEF Destroy, StopServer, ServerJoined, StopPlays, LastJoined
<1>2. gui \in GuiType /\ flags \in [destroying : BOOLEAN, running : BOOLEAN] BY <1>0 DEF Shaped
<1>3. /\ gui' \in GuiType /\ gui'.asked = gui.asked
      /\ flags' \in [destroying : BOOLEAN, running : BOOLEAN]
      /\ ~flags'.destroying => ~flags.destroying
      /\ Stopping'
  <2>1. CASE Destroy
    <3>1. gui' = [gui EXCEPT !.pc = "stop"] /\ flags' = [flags EXCEPT !.destroying = TRUE]
          /\ gui.pc = "loop" /\ server' = server
      BY <2>1 DEF Destroy
    <3>2. gui' \in GuiType /\ gui'.pc = "stop" /\ gui'.asked = gui.asked
      BY <3>1, <1>2 DEF GuiType
    <3>3. /\ flags' \in [destroying : BOOLEAN, running : BOOLEAN] /\ flags'.destroying
          /\ flags'.running <=> flags.running
      BY <3>1, <1>2
    <3> QED BY <3>1, <3>2, <3>3, <1>0 DEF Stopping
  <2>2. CASE StopServer
    <3>1. gui' = [gui EXCEPT !.pc = "server"] /\ flags' = [flags EXCEPT !.running = FALSE]
          /\ gui.pc = "stop" /\ server' = server
      BY <2>2 DEF StopServer
    <3>2. gui' \in GuiType /\ gui'.pc = "server" /\ gui'.asked = gui.asked
      BY <3>1, <1>2 DEF GuiType
    <3>3. /\ flags' \in [destroying : BOOLEAN, running : BOOLEAN] /\ ~flags'.running
          /\ flags'.destroying <=> flags.destroying
      BY <3>1, <1>2
    <3> QED BY <3>1, <3>2, <3>3, <1>0 DEF Stopping
  <2>3. CASE ServerJoined
    <3>1. gui' = [gui EXCEPT !.pc = "plays"] /\ flags' = flags
          /\ gui.pc = "server" /\ server' = server /\ server.pc = "end"
      BY <2>3 DEF ServerJoined
    <3>2. gui' \in GuiType /\ gui'.pc = "plays" /\ gui'.asked = gui.asked
      BY <3>1, <1>2 DEF GuiType
    <3> QED BY <3>1, <3>2, <1>0, <1>2 DEF Stopping
  <2>4. CASE StopPlays
    <3>1. flags' = flags /\ gui.pc = "plays" /\ server' = server
          /\ \/ \E f \in Folders : gui' = [gui EXCEPT !.pc = "last", !.folder = f]
             \/ gui' = [gui EXCEPT !.pc = "gone"]
      BY <2>4 DEF StopPlays
    <3>2. gui' \in GuiType /\ gui'.pc \in {"last", "gone"} /\ gui'.asked = gui.asked
      BY <3>1, <1>2 DEF GuiType
    <3> QED BY <3>1, <3>2, <1>0, <1>2 DEF Stopping
  <2>5. CASE LastJoined
    <3>1. flags' = flags /\ gui.pc = "last" /\ server' = server
          /\ gui' = [gui EXCEPT !.pc = "plays", !.folder = None]
      BY <2>5 DEF LastJoined
    <3>2. gui' \in GuiType /\ gui'.pc = "plays" /\ gui'.asked = gui.asked
      BY <3>1, <1>2 DEF GuiType
    <3> QED BY <3>1, <3>2, <1>0, <1>2 DEF Stopping
  <2> QED BY <2>1, <2>2, <2>3, <2>4, <2>5
<1>4. runs' \in [Runs -> RunType] /\ plays' \in [Folders -> Holder] /\ Joinable'
  <2>1. CASE Destroy \/ StopServer \/ ServerJoined
    <3>1. UNCHANGED <<runs, plays>> BY <2>1 DEF Destroy, StopServer, ServerJoined
    <3>2. gui'.pc \in {"stop", "server", "plays"}
      BY <2>1, <1>2 DEF Destroy, StopServer, ServerJoined, GuiType
    <3> QED BY <3>1, <3>2, <1>0 DEF Shaped, Joinable
  <2>2. CASE StopPlays
    <3>1. CASE \E f \in Folders : /\ plays[f].worker # None /\ Cancelled(f)
                                  /\ gui' = [gui EXCEPT !.pc = "last", !.folder = f]
      <4>1. PICK f \in Folders : /\ plays[f].worker # None /\ Cancelled(f)
                                 /\ gui' = [gui EXCEPT !.pc = "last", !.folder = f]
        BY <3>1
      <4>2. gui'.pc = "last" /\ gui'.folder = f BY <4>1, <1>2 DEF GuiType
      <4>3. plays' = plays BY <2>2 DEF StopPlays
      <4>4. runs' \in [Runs -> RunType] /\ \A r \in Runs : runs'[r].state = runs[r].state
        BY <4>1, <1>0, CancelledKeeps
      <4>5. plays[f].worker \in Runs BY <4>1, <1>0 DEF Shaped, Holder
      <4>6. plays' \in [Folders -> Holder] BY <4>3, <1>0 DEF Shaped
      <4>7. Joinable' BY <4>2, <4>3, <4>4, <4>5, <1>0 DEF Joinable
      <4> QED BY <4>4, <4>6, <4>7
    <3>2. CASE /\ \A f \in Folders : plays[f].worker = None
               /\ gui' = [gui EXCEPT !.pc = "gone"] /\ UNCHANGED runs
      <4>1. gui'.pc = "gone" BY <3>2, <1>2 DEF GuiType
      <4>2. plays' = plays BY <2>2 DEF StopPlays
      <4> QED BY <3>2, <4>1, <4>2, <1>0 DEF Shaped, Joinable
    <3> QED BY <2>2, <3>1, <3>2 DEF StopPlays
  <2>3. CASE LastJoined
    <3>1. gui'.pc = "plays" BY <2>3, <1>2 DEF LastJoined, GuiType
    <3>2. runs' = runs /\ runs[plays[gui.folder].worker].state = "ended" /\ gui.folder \in Folders
          /\ plays' = [plays EXCEPT ![gui.folder] = [token |-> None, worker |-> None]]
      BY <2>3, <1>0 DEF LastJoined, Joinable
    <3>3. plays' \in [Folders -> Holder] BY <3>2, <1>0 DEF Shaped, Holder
    <3>4. ASSUME NEW r \in Runs, runs'[r].state = "running"
          PROVE  \E f \in Folders : plays'[f].worker = r
      <4>1. PICK f \in Folders : plays[f].worker = r BY <3>2, <3>4, <1>0 DEF Joinable
      <4>2. f # gui.folder BY <3>2, <3>4, <4>1
      <4>3. plays'[f].worker = r BY <3>2, <4>1, <4>2, <1>0 DEF Shaped
      <4> QED BY <4>3
    <3>5. runs' \in [Runs -> RunType] BY <3>2, <1>0 DEF Shaped
    <3>6. Joinable' BY <3>1, <3>4 DEF Joinable
    <3> QED BY <3>3, <3>5, <3>6
  <2> QED BY <2>1, <2>2, <2>3
<1>5. Shaped'
  <2>1. /\ events' \in Seq(Post \cup Report) /\ carried' \in Seq(Clients \X Nat)
        /\ future' \in BOOLEAN
    BY <1>0, <1>1 DEF Shaped
  <2> QED BY <1>0, <1>1, <1>3, <1>4, <2>1, GuiShaped
<1>6. Orderly' BY <1>0, <1>1, <1>3, QuietOrderly
<1> QED BY <1>3, <1>4, <1>5, <1>6 DEF IInv, Strays

----------------------------------------------------------------------------
(* The clients.                                                            *)

\* A client that does nothing while the server thread does nothing.
LEMMA ClientKept ==
  ASSUME Shaped, NEW c \in Clients, Speaks(c), Handled(c), Answered(c),
         conn'[c] = conn[c], wire'[c] = wire[c], sent'[c] = sent[c], replies'[c] = replies[c],
         UNCHANGED <<server, events, carried, flags>>
  PROVE  Speaks(c)' /\ Handled(c)' /\ Answered(c)'
<1>1. (Serving(c)' <=> Serving(c)) /\ (Fresh(c)' <=> Fresh(c)) BY DEF Serving, Fresh, Handling
<1>2. \A n : (Issued(c, n)' <=> Issued(c, n)) /\ (Done(carried, c, n)' <=> Done(carried, c, n))
  BY DEF Issued, Posted, Done
<1>3. Speaks(c)' BY <1>1 DEF Speaks
<1>4. Handled(c)' BY <1>1, <1>2 DEF Handled, Handling
<1>5. sent[c] \in Seq(Kinds) BY DEF Shaped
<1>6. Len(sent[c]) \in Nat BY <1>5
<1>7. Answered(c)' BY <1>2, <1>6, AnsweredKept
<1> QED BY <1>3, <1>4, <1>7

\* The clients leave the server thread and the GUI thread alone.
LEMMA ThreadsKept ==
  ASSUME Orderly, UNCHANGED <<server, events, carried, future, gui, flags>>
  PROVE  Ordered(events, carried)' /\ Busy' /\ Waiting'
<1>1. \A c, n : (Issued(c, n)' <=> Issued(c, n)) /\ (Done(carried, c, n)' <=> Done(carried, c, n))
  BY DEF Issued, Posted, Done
<1>2. Ordered(events, carried)' BY DEF Orderly, Ordered
<1>3. Busy' BY <1>1 DEF Orderly, Busy, Handling
<1>4. Waiting' BY <1>1 DEF Orderly, Waiting
<1> QED BY <1>2, <1>3, <1>4

\* What the buffer and the wire are together.
LEMMA Streams ==
  ASSUME NEW b \in Seq(Wired), NEW w \in Seq(Wired)
  PROVE  /\ b \o w \in Seq(Wired)
         /\ w # <<>> => b \o w # <<>> /\ (b \o w)[Len(b \o w)] = w[Len(w)]
         /\ w = <<>> => b \o w = b
         /\ \A x \in Wired : b \o Append(w, x) = Append(b \o w, x) /\ Append(w, x) \in Seq(Wired)
<1>1. b \o w \in Seq(Wired) OBVIOUS
<1>2. w # <<>> => b \o w # <<>> /\ (b \o w)[Len(b \o w)] = w[Len(w)] OBVIOUS
<1>3. w = <<>> => b \o w = b OBVIOUS
<1>4. ASSUME NEW x \in Wired
      PROVE  b \o Append(w, x) = Append(b \o w, x) /\ Append(w, x) \in Seq(Wired)
  OBVIOUS
<1> QED BY <1>1, <1>2, <1>3, <1>4

\* A client writes half of a line: an end if one is missing, else a kind.
LEMMA WriteKeeps ==
  ASSUME IInv, NEW c \in Clients, Write(c)
  PROVE  IInv'
<1>0. Shaped /\ Orderly /\ Strays BY DEF IInv, Strays
<1>1. UNCHANGED <<conn, replies, server, events, carried, future, gui, runs, plays, flags>>
  BY DEF Write
<1>2. Speaks(c) /\ Handled(c) /\ Answered(c) /\ Busy BY <1>0 DEF Orderly
<1>3. Serving(c) \/ Fresh(c)
  <2>1. conn[c] \in {"queued", "served"} BY <1>0 DEF Write, Shaped
  <2> QED BY <2>1, <1>2 DEF Speaks, Fresh
<1>4. PICK w \in Seq(Wired) : w = wire[c] BY <1>0 DEF Shaped
<1>5. PICK q \in Seq(Kinds) : q = sent[c] BY <1>0 DEF Shaped
<1>6. PICK B \in Seq(Wired) : B = server.buffer
  <2>1. server \in ServerType BY <1>0 DEF Shaped
  <2> QED BY <2>1 DEF ServerType
<1>7. PICK b \in Seq(Wired), t \in Nat :
        /\ Coded(b \o w, q, t)
        /\ Serving(c) => b = server.buffer /\ t = server.taken
        /\ Fresh(c) => b = <<>> /\ t = 0
  <2>1. CASE Serving(c)
    <3>1. server \in ServerType BY <1>0 DEF Shaped
    <3>2. server.taken \in Nat BY <3>1 DEF ServerType
    <3>3. ~Fresh(c) BY <2>1 DEF Fresh
    <3> QED BY <2>1, <3>2, <3>3, <1>2, <1>4, <1>5, <1>6 DEF Speaks
  <2>2. CASE Fresh(c)
    <3>1. <<>> \in Seq(Wired) /\ <<>> \o w = w OBVIOUS
    <3>2. ~Serving(c) BY <2>2 DEF Fresh
    <3> QED BY <2>2, <3>1, <3>2, <1>2, <1>4, <1>5 DEF Speaks
  <2> QED BY <2>1, <2>2, <1>3
<1>8. PICK s \in Seq(Wired) : s = b \o w BY Streams
\* What the client sees as open is a line whose end is missing.
<1>9. DEFINE end(v) == v # <<>> /\ v[Len(v)] # "nl"
             open == end(wire[c]) \/ (wire[c] = <<>> /\ server.client = c /\ end(server.buffer))
<1>10. open <=> s # <<>> /\ s[Len(s)] # "nl"
  <2>1. CASE w # <<>>
    <3>1. s # <<>> /\ s[Len(s)] = w[Len(w)] BY <2>1, <1>8, Streams
    <3> QED BY <2>1, <3>1, <1>4
  <2>2. CASE w = <<>>
    <3>1. s = b BY <2>2, <1>8, Streams
    <3>2. open <=> server.client = c /\ end(server.buffer) BY <2>2, <1>4
    <3>3. CASE Serving(c)
      <4>1. server.client = c /\ b = server.buffer BY <3>3, <1>7 DEF Serving, Handling
      <4> QED BY <3>1, <3>2, <4>1
    <3>4. CASE ~Serving(c)
      <4>1. b = <<>> BY <3>4, <1>3, <1>7
      <4>2. server.client = c => server.buffer = <<>>
        <5>1. server \in ServerType BY <1>0 DEF Shaped
        <5>2. server.pc \in {"serve", "lines"} \/ Handling \/ server.pc \in {"accept", "end"}
          BY <5>1 DEF ServerType, Handling
        <5> QED BY <5>2, <3>4, <1>2 DEF Serving, Busy
      <4> QED BY <3>1, <3>2, <4>1, <4>2
    <3> QED BY <3>3, <3>4
  <2> QED BY <2>1, <2>2
\* What is written keeps the code.
<1>11. PICK x \in Wired, p \in Seq(Kinds) :
         /\ wire' = [wire EXCEPT ![c] = Append(@, x)] /\ sent' = [sent EXCEPT ![c] = p]
         /\ Coded(Append(s, x), p, t)
         /\ Len(q) <= Len(p) /\ \A i \in 1 .. Len(q) : p[i] = q[i]
  <2>1. CASE open /\ wire' = [wire EXCEPT ![c] = Append(@, "nl")] /\ sent' = sent
    <3>1. Coded(Append(s, "nl"), q, t) BY <2>1, <1>7, <1>8, <1>10, CodedEnd
    <3>2. sent' = [sent EXCEPT ![c] = q] BY <2>1, <1>5, <1>0 DEF Shaped
    <3>3. "nl" \in Wired /\ Len(q) <= Len(q) BY DEF Wired
    <3> QED BY <2>1, <3>1, <3>2, <3>3
  <2>2. CASE ~open /\ \E k \in Kinds : /\ wire' = [wire EXCEPT ![c] = Append(@, k)]
                                       /\ sent' = [sent EXCEPT ![c] = Append(@, k)]
    <3>1. PICK k \in Kinds : /\ wire' = [wire EXCEPT ![c] = Append(@, k)]
                             /\ sent' = [sent EXCEPT ![c] = Append(@, k)]
      BY <2>2
    <3>2. Coded(Append(s, k), Append(q, k), t) BY <2>2, <1>7, <1>8, <1>10, CodedKind
    <3>3. PICK p \in Seq(Kinds) : Longer(p, q, k) BY Appended
    <3>4. /\ p = Append(q, k) /\ Len(q) <= Len(p)
          /\ \A i \in 1 .. Len(q) : p[i] = q[i]
      <4>1. p = Append(q, k) BY <3>3 DEF Longer
      <4> QED BY <4>1, AppendProperties
    <3>5. sent' = [sent EXCEPT ![c] = p] BY <3>1, <3>4, <1>5
    <3>6. k \in Wired BY DEF Wired
    <3> QED BY <3>1, <3>2, <3>4, <3>5, <3>6
  <2> QED BY <2>1, <2>2 DEF Write
<1>12. PICK v \in Seq(Wired) : v = Append(w, x) /\ b \o v = Append(s, x) /\ v # <<>>
  <2>1. b \o Append(w, x) = Append(b \o w, x) /\ Append(w, x) \in Seq(Wired) BY Streams
  <2>2. Append(w, x) # <<>>
    <3>1. Len(Append(w, x)) = Len(w) + 1 /\ Len(w) \in Nat BY AppendProperties
    <3>2. PICK z \in Seq(Wired) : z = Append(w, x) BY <2>1
    <3>3. Len(z) # 0 BY <3>1, <3>2
    <3>4. z # <<>> BY <3>3
    <3> QED BY <3>2, <3>4
  <2> QED BY <2>1, <2>2, <1>8
<1>13. wire' = [wire EXCEPT ![c] = v] BY <1>4, <1>11, <1>12
<1>14. /\ wire' \in [Clients -> Seq(Wired)] /\ sent' \in [Clients -> Seq(Kinds)]
       /\ wire'[c] = v /\ sent'[c] = p
       /\ \A d \in Clients : d # c => wire'[d] = wire[d] /\ sent'[d] = sent[d]
  BY <1>0, <1>11, <1>13 DEF Shaped
<1>15. Shaped' BY <1>0, <1>1, <1>14 DEF Shaped
<1>16. Strays' BY <1>0, <1>1, <1>15, StraysFrame
<1>17. Speaks(c)' /\ Handled(c)' /\ Answered(c)'
  <2>1. Serving(c)' <=> Serving(c) BY <1>1 DEF Serving, Handling
  <2>2. Fresh(c)' <=> Fresh(c) BY <2>1, <1>3, <1>12, <1>14 DEF Fresh
  <2>3. Coded(b \o wire'[c], sent'[c], t) BY <1>11, <1>12, <1>14
  <2>4. Fresh(c) => Coded(wire'[c], sent'[c], 0)
    <3>1. Fresh(c) => b \o v = v BY <1>7
    <3> QED BY <2>3, <3>1, <1>7, <1>14
  <2>5. Serving(c) => Coded(server.buffer \o wire'[c], sent'[c], server.taken) BY <2>3, <1>7
  <2>6. Speaks(c)' BY <2>1, <2>2, <2>4, <2>5, <1>1, <1>2 DEF Speaks
  <2>7. \A n : (Issued(c, n)' <=> Issued(c, n)) /\ (Done(carried, c, n)' <=> Done(carried, c, n))
    BY <1>1 DEF Issued, Posted, Done
  <2>8. Handled(c)' BY <2>1, <2>2, <2>7, <1>1, <1>2 DEF Handled, Handling
  <2>9. Answered(c)'
    <3>1. Len(p) \in Nat OBVIOUS
    <3> QED BY <2>7, <3>1, <1>0, <1>1, <1>2, <1>5, <1>11, <1>14, AnsweredKept
  <2> QED BY <2>6, <2>8, <2>9
<1>18. ASSUME NEW d \in Clients, d # c PROVE Speaks(d)' /\ Handled(d)' /\ Answered(d)'
  <2>1. Speaks(d) /\ Handled(d) /\ Answered(d) BY <1>0 DEF Orderly
  <2> QED BY <2>1, <1>0, <1>1, <1>14, <1>18, ClientKept
<1>19. Ordered(events, carried)' /\ Busy' /\ Waiting' BY <1>0, <1>1, ThreadsKept
<1> QED BY <1>16, <1>17, <1>18, <1>19 DEF IInv, Orderly

\* A client hangs up: what it has written is still there.
LEMMA LeaveKeeps ==
  ASSUME IInv, NEW c \in Clients, Leave(c)
  PROVE  IInv'
<1>0. Shaped /\ Orderly /\ Strays BY DEF IInv, Strays
<1>1. /\ UNCHANGED <<sent, wire, replies, server, events, carried, future, gui, runs, plays, flags>>
      /\ conn' = [conn EXCEPT ![c] = "closed"]
  BY DEF Leave
<1>2. /\ conn' \in [Clients -> {"queued", "served", "closed"}] /\ conn'[c] = "closed"
      /\ \A d \in Clients : d # c => conn'[d] = conn[d]
  BY <1>0, <1>1 DEF Shaped
<1>3. Shaped' BY <1>0, <1>1, <1>2 DEF Shaped
<1>4. Strays' BY <1>0, <1>1, <1>3, StraysFrame
<1>5. Speaks(c)' /\ Handled(c)' /\ Answered(c)'
  <2>1. Speaks(c) /\ Handled(c) /\ Answered(c) BY <1>0 DEF Orderly
  <2>2. (Serving(c)' <=> Serving(c)) /\ (Fresh(c)' => Fresh(c)) BY <1>1, <1>2 DEF Serving, Fresh, Handling
  <2>3. Speaks(c)' BY <2>1, <2>2, <1>1, <1>2 DEF Speaks
  <2>4. \A n : (Issued(c, n)' <=> Issued(c, n)) /\ (Done(carried, c, n)' <=> Done(carried, c, n))
    BY <1>1 DEF Issued, Posted, Done
  <2>5. Handled(c)' BY <2>1, <2>2, <2>4, <1>1 DEF Handled, Handling
  <2>6. Answered(c)'
    <3>1. sent[c] \in Seq(Kinds) BY <1>0 DEF Shaped
    <3>2. Len(sent[c]) \in Nat BY <3>1
    <3> QED BY <2>1, <2>4, <3>2, <1>0, <1>1, AnsweredKept
  <2> QED BY <2>3, <2>5, <2>6
<1>6. ASSUME NEW d \in Clients, d # c PROVE Speaks(d)' /\ Handled(d)' /\ Answered(d)'
  <2>1. Speaks(d) /\ Handled(d) /\ Answered(d) BY <1>0 DEF Orderly
  <2> QED BY <2>1, <1>0, <1>1, <1>2, <1>6, ClientKept
<1>7. Ordered(events, carried)' /\ Busy' /\ Waiting' BY <1>0, <1>1, ThreadsKept
<1> QED BY <1>4, <1>5, <1>6, <1>7 DEF IInv, Orderly

----------------------------------------------------------------------------
(* The server thread.                                                      *)

\* It leaves the GUI thread and the runs alone, and the clients it does not
\* serve.
LEMMA ServerKeeps ==
  ASSUME IInv, Shaped', UNCHANGED <<sent, carried, gui, runs, plays, flags>>,
         server.pc # "end",
         \A d \in Clients :
           \/ /\ ~Serving(d) /\ ~Serving(d)'
              /\ conn'[d] = conn[d] /\ wire'[d] = wire[d] /\ replies'[d] = replies[d]
              /\ \A n \in Nat : Issued(d, n)' <=> Issued(d, n)
           \/ Speaks(d)' /\ Handled(d)' /\ Answered(d)',
         Ordered(events, carried)', Busy', Waiting'
  PROVE  IInv'
<1>0. Shaped /\ Orderly /\ Strays BY DEF IInv, Strays
<1>1. Strays' BY <1>0, StraysFrame
<1>2. ASSUME NEW d \in Clients PROVE Speaks(d)' /\ Handled(d)' /\ Answered(d)'
  <2>1. CASE /\ ~Serving(d) /\ ~Serving(d)'
             /\ conn'[d] = conn[d] /\ wire'[d] = wire[d] /\ replies'[d] = replies[d]
             /\ \A n \in Nat : Issued(d, n)' <=> Issued(d, n)
    <3>1. Speaks(d) /\ Handled(d) /\ Answered(d) BY <1>0 DEF Orderly
    <3> QED BY <2>1, <3>1, <1>0, OthersKept
  <2> QED BY <2>1
<1> QED BY <1>1, <1>2 DEF IInv, Orderly

\* A step of it that posts nothing.
LEMMA QuietServer ==
  ASSUME Orderly, UNCHANGED <<events, carried>>
  PROVE  /\ \A c, n : (Issued(c, n)' <=> Issued(c, n)) /\ (Done(carried, c, n)' <=> Done(carried, c, n))
         /\ Ordered(events, carried)'
<1>1. \A c, n : (Issued(c, n)' <=> Issued(c, n)) /\ (Done(carried, c, n)' <=> Done(carried, c, n))
  BY DEF Issued, Posted, Done
<1>2. Ordered(events, carried)' BY DEF Orderly, Ordered
<1> QED BY <1>1, <1>2

\* What was answered stays so when requests and replies stay.
LEMMA AnsweredSame ==
  ASSUME Shaped, NEW c \in Clients, Answered(c), replies'[c] = replies[c], sent' = sent,
         \A n \in Nat : Issued(c, n) => Issued(c, n)', carried' = carried, flags' = flags
  PROVE  Answered(c)'
<1>1. sent[c] \in Seq(Kinds) BY DEF Shaped
<1>2. Len(sent[c]) \in Nat BY <1>1
<1>3. \A n \in Nat : Done(carried, c, n) => Done(carried, c, n)' BY DEF Done
<1> QED BY <1>2, <1>3, AnsweredKept

\* Accepting: the client was fresh, so nothing of it has been handled.
LEMMA AcceptKeeps ==
  ASSUME IInv, NEW c \in Clients, Accept(c)
  PROVE  IInv'
<1>0. Shaped /\ Orderly /\ Strays /\ Busy /\ Waiting /\ Speaks(c) /\ Handled(c) /\ Answered(c)
  BY DEF IInv, Strays, Orderly
<1>1. /\ UNCHANGED <<sent, wire, replies, events, carried, future, gui, runs, plays, flags>>
      /\ server.pc = "accept"
      /\ conn[c] = "queued" \/ (conn[c] = "closed" /\ wire[c] # <<>>)
      /\ conn' = [conn EXCEPT ![c] = IF @ = "queued" THEN "served" ELSE @]
  BY DEF Accept
<1>2. PICK b \in Seq(Wired) : b = <<>>
  <2>1. <<>> \in Seq(Wired) OBVIOUS
  <2> QED BY <2>1
<1>3. server' = [pc |-> "serve", client |-> c, buffer |-> b, idle |-> 0, taken |-> 0]
  BY <1>2 DEF Accept
<1>4. /\ server' \in ServerType /\ server'.pc = "serve" /\ server'.client = c
      /\ server'.buffer = b /\ server'.taken = 0
  BY <1>3 DEF ServerType
<1>5. /\ conn' \in [Clients -> {"queued", "served", "closed"}]
      /\ conn'[c] \in {"served", "closed"}
      /\ \A d \in Clients : d # c => conn'[d] = conn[d]
  BY <1>0, <1>1 DEF Shaped
<1>6. Shaped' BY <1>0, <1>1, <1>4, <1>5 DEF Shaped
<1>7. Fresh(c) /\ \A d \in Clients : ~Serving(d)
  BY <1>1 DEF Fresh, Serving, Handling
<1>8. Serving(c)' /\ ~Fresh(c)' /\ \A d \in Clients : d # c => ~Serving(d)'
  BY <1>4 DEF Fresh, Serving, Handling
<1>9. /\ \A d, n : (Issued(d, n)' <=> Issued(d, n)) /\ (Done(carried, d, n)' <=> Done(carried, d, n))
      /\ Ordered(events, carried)'
  BY <1>0, <1>1, QuietServer
<1>10. Speaks(c)'
  <2>1. Coded(wire[c], sent[c], 0) /\ replies[c] = <<>> BY <1>0, <1>7 DEF Speaks
  <2>2. PICK w \in Seq(Wired) : w = wire[c] BY <1>0 DEF Shaped
  <2>3. b \o w = w BY <1>2
  <2>4. Coded(server'.buffer \o wire'[c], sent'[c], server'.taken)
    BY <1>1, <1>4, <2>1, <2>2, <2>3
  <2>5. Len(replies'[c]) = 0 BY <1>1, <2>1
  <2>6. Len(replies'[c]) <= server'.taken /\ Len(replies'[c]) = server'.taken
    BY <1>4, <2>5
  <2> QED BY <1>5, <1>8, <2>4, <2>6 DEF Speaks
<1>11. Handled(c)' BY <1>0, <1>7, <1>9 DEF Handled, Handling
<1>12. Answered(c)' BY <1>0, <1>1, <1>9, AnsweredSame
<1>13. Busy' BY <1>4 DEF Busy, Handling
<1>14. Waiting' BY <1>0, <1>1, <1>4 DEF Waiting
<1>15. ASSUME NEW d \in Clients
       PROVE  \/ /\ ~Serving(d) /\ ~Serving(d)'
                 /\ conn'[d] = conn[d] /\ wire'[d] = wire[d] /\ replies'[d] = replies[d]
                 /\ \A n \in Nat : Issued(d, n)' <=> Issued(d, n)
              \/ Speaks(d)' /\ Handled(d)' /\ Answered(d)'
  <2>1. CASE d = c BY <2>1, <1>10, <1>11, <1>12
  <2>2. CASE d # c BY <2>2, <1>1, <1>5, <1>7, <1>8, <1>9
  <2> QED BY <2>1, <2>2
<1>16. server.pc # "end" BY <1>1
<1> QED BY <1>1, <1>6, <1>9, <1>13, <1>14, <1>15, <1>16, ServerKeeps

\* Dropping the client: it is not served again.
LEMMA DropKeeps ==
  ASSUME IInv, server.pc = "serve", Dropped,
         UNCHANGED <<sent, replies, events, carried, future, gui, runs, plays, flags>>
  PROVE  IInv'
<1>0. Shaped /\ Orderly /\ Strays /\ Busy /\ Waiting BY DEF IInv, Strays, Orderly
<1>1. PICK c \in Clients : c = server.client BY <1>0 DEF Busy, Handling
<1>2. Speaks(c) /\ Handled(c) /\ Answered(c) BY <1>0 DEF Orderly
<1>3. /\ conn' \in [Clients -> {"queued", "served", "closed"}]
      /\ wire' \in [Clients -> Seq(Wired)]
      /\ server' \in ServerType /\ server'.pc = "accept" /\ server'.buffer = <<>>
      /\ conn'[c] = "closed" /\ wire'[c] = <<>>
      /\ \A d \in Clients : d # c => conn'[d] = conn[d] /\ wire'[d] = wire[d]
  BY <1>0, <1>1, DroppedIs
<1>4. Shaped' BY <1>0, <1>3 DEF Shaped
<1>5. /\ \A d \in Clients : ~Serving(d)' /\ (d # c => ~Serving(d))
      /\ ~Fresh(c)'
  BY <1>1, <1>3 DEF Serving, Fresh, Handling
<1>6. /\ \A d, n : (Issued(d, n)' <=> Issued(d, n)) /\ (Done(carried, d, n)' <=> Done(carried, d, n))
      /\ Ordered(events, carried)'
  BY <1>0, QuietServer
<1>7. Speaks(c)' BY <1>3, <1>5 DEF Speaks
<1>8. Handled(c)' BY <1>5 DEF Handled, Handling
<1>9. Answered(c)' BY <1>0, <1>2, <1>6, AnsweredSame
<1>10. Busy' BY <1>3 DEF Busy, Handling
<1>11. Waiting' BY <1>0, <1>3 DEF Waiting
<1>12. ASSUME NEW d \in Clients
       PROVE  \/ /\ ~Serving(d) /\ ~Serving(d)'
                 /\ conn'[d] = conn[d] /\ wire'[d] = wire[d] /\ replies'[d] = replies[d]
                 /\ \A n \in Nat : Issued(d, n)' <=> Issued(d, n)
              \/ Speaks(d)' /\ Handled(d)' /\ Answered(d)'
  <2>1. CASE d = c BY <2>1, <1>7, <1>8, <1>9
  <2>2. CASE d # c BY <2>2, <1>3, <1>5, <1>6
  <2> QED BY <2>1, <2>2
<1> QED BY <1>4, <1>6, <1>10, <1>11, <1>12, ServerKeeps

\* Receiving: what comes moves from the wire to the buffer, or nothing does.
LEMMA ReceiveKeeps ==
  ASSUME IInv, Receive
  PROVE  IInv'
<1>0. Shaped /\ Orderly /\ Strays /\ Busy /\ Waiting BY DEF IInv, Strays, Orderly
<1>1. /\ server.pc = "serve"
      /\ UNCHANGED <<sent, replies, events, carried, future, gui, runs, plays, flags>>
  BY DEF Receive
<1>2. PICK c \in Clients : c = server.client BY <1>0, <1>1 DEF Busy, Handling
<1>3. Speaks(c) /\ Handled(c) /\ Answered(c) /\ Serving(c)
  BY <1>0, <1>1, <1>2 DEF Orderly, Serving, Handling
<1>4. PICK w \in Seq(Wired) : w = wire[c] BY <1>0 DEF Shaped
<1>5. server \in ServerType BY <1>0 DEF Shaped
<1>6. PICK b \in Seq(Wired) : b = server.buffer BY <1>5 DEF ServerType
\* The client stays, and so does what it has written.
<1>7. ASSUME conn' = conn, wire' \in [Clients -> Seq(Wired)], server' \in ServerType,
             \A d \in Clients : d # c => wire'[d] = wire[d],
             server'.pc \in {"serve", "lines"}, server'.client = c, server'.taken = server.taken,
             server'.buffer \o wire'[c] = b \o w
      PROVE  IInv'
  <2>1. Shaped' BY <1>0, <1>1, <1>7 DEF Shaped
  <2>2. /\ \A d, n : (Issued(d, n)' <=> Issued(d, n)) /\ (Done(carried, d, n)' <=> Done(carried, d, n))
        /\ Ordered(events, carried)'
    BY <1>0, <1>1, QuietServer
  <2>3. Serving(c)' /\ ~Fresh(c)' BY <1>7 DEF Serving, Fresh, Handling
  <2>4. Speaks(c)' BY <1>1, <1>3, <1>4, <1>6, <1>7, <2>3 DEF Speaks
  <2>5. Handled(c)' BY <1>1, <1>3, <1>7, <2>2, <2>3 DEF Handled, Handling
  <2>6. Answered(c)' BY <1>0, <1>1, <1>3, <2>2, AnsweredSame
  <2>7. Busy' BY <1>2, <1>7 DEF Busy, Handling
  <2>8. Waiting' BY <1>0, <1>1, <1>7 DEF Waiting
  <2>9. ASSUME NEW d \in Clients
        PROVE  \/ /\ ~Serving(d) /\ ~Serving(d)'
                  /\ conn'[d] = conn[d] /\ wire'[d] = wire[d] /\ replies'[d] = replies[d]
                  /\ \A n \in Nat : Issued(d, n)' <=> Issued(d, n)
               \/ Speaks(d)' /\ Handled(d)' /\ Answered(d)'
    <3>1. CASE d = c BY <3>1, <2>4, <2>5, <2>6
    <3>2. CASE d # c
      <4>1. ~Serving(d) /\ ~Serving(d)' BY <3>2, <1>2, <1>7 DEF Serving, Handling
      <4> QED BY <3>2, <4>1, <1>1, <1>7, <2>2
    <3> QED BY <3>1, <3>2
  <2>10. server.pc # "end" BY <1>1
  <2> QED BY <1>1, <2>1, <2>2, <2>7, <2>8, <2>9, <2>10, ServerKeeps
<1>8. CASE /\ conn' = conn
           /\ \E n \in 1 .. Len(w) :
                /\ server' = [server EXCEPT !.buffer = @ \o SubSeq(w, 1, n), !.idle = 0,
                                            !.pc = "lines"]
                /\ wire' = [wire EXCEPT ![server.client] = SubSeq(w, n + 1, Len(w))]
  <2>1. PICK n \in 1 .. Len(w) :
          /\ server' = [server EXCEPT !.buffer = @ \o SubSeq(w, 1, n), !.idle = 0, !.pc = "lines"]
          /\ wire' = [wire EXCEPT ![server.client] = SubSeq(w, n + 1, Len(w))]
    BY <1>8
  <2>2. /\ b \o SubSeq(w, 1, n) \in Seq(Wired) /\ SubSeq(w, n + 1, Len(w)) \in Seq(Wired)
        /\ (b \o SubSeq(w, 1, n)) \o SubSeq(w, n + 1, Len(w)) = b \o w
    BY Moved
  <2>3. PICK u \in Seq(Wired) : u = b \o SubSeq(w, 1, n) BY <2>2
  <2>4. PICK v \in Seq(Wired) : v = SubSeq(w, n + 1, Len(w)) BY <2>2
  <2>5. u \o v = b \o w BY <2>2, <2>3, <2>4
  <2>6. server' = [server EXCEPT !.buffer = u, !.idle = 0, !.pc = "lines"]
    BY <2>1, <2>3, <1>5, <1>6 DEF ServerType
  <2>7. /\ server' \in ServerType /\ server'.pc = "lines" /\ server'.client = c
        /\ server'.taken = server.taken /\ server'.buffer = u
    BY <2>6, <1>2, <1>5 DEF ServerType
  <2>8. wire' = [wire EXCEPT ![c] = v] BY <2>1, <2>4, <1>2
  <2>9. /\ wire' \in [Clients -> Seq(Wired)] /\ wire'[c] = v
        /\ \A d \in Clients : d # c => wire'[d] = wire[d]
    BY <2>8, <1>0 DEF Shaped
  <2> QED BY <2>5, <2>7, <2>9, <1>7, <1>8
<1>9. CASE Dropped BY <1>1, <1>9, DropKeeps
<1>10. CASE server' = [server EXCEPT !.idle = @ + 1] /\ UNCHANGED <<conn, wire>>
  <2>1. server.idle \in Nat BY <1>5 DEF ServerType
  <2>2. PICK i \in Nat : i = server.idle + 1 BY <2>1
  <2>3. server' = [server EXCEPT !.idle = i] BY <1>10, <2>2, <1>5 DEF ServerType
  <2>4. /\ server' \in ServerType /\ server'.pc = "serve" /\ server'.client = c
        /\ server'.taken = server.taken /\ server'.buffer = b
    BY <2>3, <1>1, <1>2, <1>5, <1>6 DEF ServerType
  <2>5. server'.buffer \o wire'[c] = b \o w BY <2>4, <1>4, <1>10
  <2>6. wire' \in [Clients -> Seq(Wired)] BY <1>0, <1>10 DEF Shaped
  <2> QED BY <2>4, <2>5, <2>6, <1>7, <1>10
<1> QED
  <2>1. wire[server.client] = w BY <1>2, <1>4
  <2> QED BY <2>1, <1>8, <1>9, <1>10 DEF Receive

\* The server thread ends once it serves nobody.
LEMMA ServerStopsKeeps ==
  ASSUME IInv, ServerStops
  PROVE  IInv'
<1>0. Shaped /\ Orderly /\ Strays /\ Busy /\ Waiting BY DEF IInv, Strays, Orderly
<1>1. UNCHANGED <<sent, replies, events, carried, future, gui, runs, plays, flags>>
  BY DEF ServerStops
<1>2. CASE server.pc = "serve" /\ Dropped BY <1>1, <1>2, DropKeeps
<1>3. CASE /\ server.pc = "accept" /\ server' = [server EXCEPT !.pc = "end"]
           /\ UNCHANGED <<conn, wire>>
  <2>1. server \in ServerType BY <1>0 DEF Shaped
  <2>2. server' \in ServerType /\ server'.pc = "end" /\ server'.buffer = server.buffer
    BY <2>1, <1>3, Records
  <2>3. Shaped' BY <1>0, <1>1, <1>3, <2>2 DEF Shaped
  <2>4. /\ \A d, n : (Issued(d, n)' <=> Issued(d, n)) /\ (Done(carried, d, n)' <=> Done(carried, d, n))
        /\ Ordered(events, carried)'
    BY <1>0, <1>1, QuietServer
  <2>5. \A d : ~Serving(d) /\ ~Serving(d)' BY <1>3, <2>2 DEF Serving, Handling
  <2>6. Busy' BY <1>0, <1>3, <2>2 DEF Busy, Handling
  <2>7. Waiting' BY <1>0, <1>1, <1>3 DEF Waiting
  <2>8. server.pc # "end" BY <1>3
  <2> QED BY <1>1, <1>3, <2>3, <2>4, <2>5, <2>6, <2>7, <2>8, ServerKeeps
<1> QED BY <1>2, <1>3 DEF ServerStops

\* Init: nothing is written, nothing posted.
LEMMA OrderlyInit ==
  ASSUME Init
  PROVE  Orderly
<1>1. Ordered(events, carried) BY DEF Init, Ordered
<1>2. Busy BY DEF Init, Busy, Handling
<1>3. Waiting BY DEF Init, Waiting
<1>4. ASSUME NEW c \in Clients PROVE Speaks(c) /\ Handled(c) /\ Answered(c)
  <2>1. ~Serving(c) BY DEF Init, Serving, Handling
  <2>2. \A n : ~Issued(c, n) BY DEF Init, Issued, Posted, Done
  <2>3. Coded(<<>>, <<>>, 0)
    <3>1. Len(<<>>) = 2 * (Len(<<>>) - 0) OBVIOUS
    <3>2. \A k \in Nat : 2 * k + 1 \notin DOMAIN <<>> /\ 2 * k + 2 \notin DOMAIN <<>> OBVIOUS
    <3> QED BY <3>1, <3>2 DEF Coded
  <2>4. conn[c] = "queued" /\ wire[c] = <<>> /\ sent[c] = <<>> /\ replies[c] = <<>> BY DEF Init
  <2>5. Speaks(c) BY <2>1, <2>3, <2>4 DEF Speaks
  <2>6. Handled(c) BY <2>2 DEF Handled, Handling
  <2>7. Answered(c)
    <3>1. Len(<<>>) <= Len(<<>>) /\ \A i : i \notin DOMAIN <<>> OBVIOUS
    <3> QED BY <2>4, <3>1 DEF Answered
  <2> QED BY <2>5, <2>6, <2>7
<1> QED BY <1>1, <1>2, <1>3, <1>4 DEF Orderly

\* The reply to the next line, if the client is still there.
LEMMA ReplyKeeps ==
  ASSUME Shaped, NEW c \in Clients, c = server.client, Serving(c), Speaks(c), Answered(c),
         Len(server.buffer) >= 2, UNCHANGED <<sent, conn, wire, carried, flags>>,
         NEW k \in Kinds, k = server.buffer[1],
         NEW a \in {"result", "error", "nothing"}, Replied(k, a),
         NEW t \in Nat, t = server.taken,
         \A n \in Nat : Issued(c, n) => Issued(c, n)',
         k # "bad" => Issued(c, t + 1)',
         a = "result" => k = "post" \/ (k = "call" /\ Done(carried, c, t + 1)),
         a = "nothing" => flags.destroying,
         server'.pc = "lines", server'.client = c, server'.taken = t + 1,
         server'.buffer = SubSeq(server.buffer, 3, Len(server.buffer))
  PROVE  /\ Speaks(c)' /\ Answered(c)'
         /\ replies' \in [Clients -> Seq(Answer)]
         /\ \A d \in Clients : d # c => replies'[d] = replies[d]
<1>1. /\ replies' \in [Clients -> Seq(Answer)]
      /\ \A d \in Clients : d # c => replies'[d] = replies[d]
      /\ replies'[c] = IF conn[c] = "closed" THEN replies[c]
                       ELSE Append(replies[c], [kind |-> k, answer |-> a])
  BY ReplyIs
<1>2. PICK b \in Seq(Wired) : b = server.buffer
  <2>1. server \in ServerType BY DEF Shaped
  <2> QED BY <2>1 DEF ServerType
<1>3. PICK w \in Seq(Wired) : w = wire[c] BY DEF Shaped
<1>4. PICK q \in Seq(Kinds) : q = sent[c] BY DEF Shaped
<1>5. PICK r \in Seq(Answer) : r = replies[c] BY DEF Shaped
<1>6. Coded(b \o w, q, t) /\ Len(r) <= t /\ (conn[c] = "served" => Len(r) = t) /\ conn[c] # "queued"
  BY <1>2, <1>3, <1>4, <1>5 DEF Speaks
<1>7. t + 1 <= Len(q) /\ k = q[t + 1] /\ Coded(SubSeq(b, 3, Len(b)) \o w, q, t + 1)
  BY <1>2, <1>6, Taken
<1>8. Serving(c)' /\ ~Fresh(c)' BY DEF Serving, Fresh, Handling
<1>9. Coded(server'.buffer \o wire'[c], sent'[c], server'.taken)
  <2>1. server'.buffer = SubSeq(b, 3, Len(b)) /\ wire'[c] = w /\ sent'[c] = q
    BY <1>2, <1>3, <1>4
  <2> QED BY <2>1, <1>7
<1>10. Len(r) \in Nat /\ Len(q) \in Nat OBVIOUS
<1>11. \A n \in Nat : Done(carried, c, n) <=> Done(carried, c, n)' BY DEF Done
<1>12. CASE conn[c] = "closed"
  <2>1. replies'[c] = replies[c] BY <1>12, <1>1
  <2>2. Len(replies'[c]) <= server'.taken BY <2>1, <1>5, <1>6, <1>10
  <2>3. Speaks(c)' BY <1>8, <1>9, <1>12, <2>2 DEF Speaks
  <2>4. Answered(c)' BY <2>1, AnsweredSame
  <2> QED BY <2>3, <2>4, <1>1
<1>13. CASE conn[c] # "closed"
  <2>1. conn[c] = "served" BY <1>6, <1>13 DEF Shaped
  <2>2. Len(r) = t BY <2>1, <1>6
  <2>3. PICK e \in Answer : e = [kind |-> k, answer |-> a] /\ e.kind = k /\ e.answer = a
    <3>1. [kind |-> k, answer |-> a] \in Answer BY DEF Answer
    <3>2. [kind |-> k, answer |-> a].kind = k /\ [kind |-> k, answer |-> a].answer = a OBVIOUS
    <3> QED BY <3>1, <3>2
  <2>4. PICK u \in Seq(Answer) : Longer(u, r, e) BY Appended
  <2>5. /\ u = Append(r, e) /\ u[Len(u)] = e /\ DOMAIN u = DOMAIN r \cup {Len(u)}
        /\ \A i \in DOMAIN r : u[i] = r[i]
    BY <2>4 DEF Longer
  <2>6. Len(u) = t + 1 BY <2>2, <2>5, AppendProperties
  <2>7. replies'[c] = u BY <1>1, <1>13, <1>5, <2>3, <2>5
  <2>8. Len(replies'[c]) <= server'.taken /\ Len(replies'[c]) = server'.taken BY <2>6, <2>7
  <2>9. Speaks(c)' BY <1>8, <1>9, <2>1, <2>8 DEF Speaks
  <2>10. ASSUME NEW i \in DOMAIN u
         PROVE  /\ u[i].kind = q[i]
                /\ q[i] # "bad" => Issued(c, i)'
                /\ u[i].answer = "result" =>
                     u[i].kind = "post" \/ (u[i].kind = "call" /\ Done(carried, c, i)')
                /\ u[i].answer = "nothing" => flags'.destroying
    <3>1. CASE i \in DOMAIN r
      <4>1. i \in Nat /\ i \in DOMAIN replies[c] /\ u[i] = replies[c][i] BY <3>1, <1>5, <2>5
      <4>2. /\ replies[c][i].kind = q[i]
            /\ q[i] # "bad" => Issued(c, i)
            /\ replies[c][i].answer = "result" =>
                 replies[c][i].kind = "post"
                   \/ (replies[c][i].kind = "call" /\ Done(carried, c, i))
            /\ replies[c][i].answer = "nothing" => flags.destroying
        BY <4>1, <1>4 DEF Answered
      <4> QED BY <4>1, <4>2, <1>11
    <3>2. CASE i = Len(u)
      <4>1. i = t + 1 /\ u[i] = e BY <3>2, <2>5, <2>6
      <4>2. PICK m \in Nat : m = t + 1 OBVIOUS
      <4>3. i = m /\ u[i] = e /\ k = q[m] BY <4>1, <4>2, <1>7
      <4>4. k # "bad" => Issued(c, m)' BY <4>2
      <4>5. a = "result" => k = "post" \/ (k = "call" /\ Done(carried, c, m)') BY <4>2, <1>11
      <4> QED BY <4>3, <4>4, <4>5, <2>3
    <3> QED BY <3>1, <3>2, <2>5
  <2>11. Len(u) <= Len(q) BY <2>6, <1>7
  <2>12. sent'[c] = q BY <1>4
  <2>13. Answered(c)' BY <2>7, <2>10, <2>11, <2>12 DEF Answered
  <2> QED BY <2>9, <2>13, <1>1
<1> QED BY <1>12, <1>13

\* A line is handled: refused, posted, or posted and waited for.
LEMMA HandleLineKeeps ==
  ASSUME IInv, HandleLine
  PROVE  IInv'
<1>0. Shaped /\ Orderly /\ Strays /\ Busy /\ Waiting /\ Ordered(events, carried)
  BY DEF IInv, Strays, Orderly
<1>1. /\ UNCHANGED <<conn, sent, wire, replies, carried, gui, runs, plays, flags>>
      /\ server.pc = "lines" /\ server.pc # "end"
  BY DEF HandleLine
<1>2. PICK c \in Clients : c = server.client BY <1>0, <1>1 DEF Busy, Handling
<1>3. Speaks(c) /\ Handled(c) /\ Answered(c) /\ Serving(c)
  BY <1>0, <1>1, <1>2 DEF Orderly, Serving, Handling
<1>4. server \in ServerType BY <1>0 DEF Shaped
<1>5. PICK b \in Seq(Wired) : b = server.buffer BY <1>4 DEF ServerType
<1>6. PICK t \in Nat : t = server.taken BY <1>4 DEF ServerType
<1>7. events \in Seq(Post \cup Report) /\ carried \in Seq(Clients \X Nat) BY <1>0 DEF Shaped
\* It is the only client this concerns.
<1>8. ASSUME Shaped', server'.client = c, server'.pc \in {"serve", "lines"} \/ Handling',
             Speaks(c)', Handled(c)', Answered(c)', Ordered(events, carried)', Busy', Waiting',
             \A d \in Clients : d # c => /\ replies'[d] = replies[d]
                                         /\ \A n \in Nat : Issued(d, n)' <=> Issued(d, n)
      PROVE  IInv'
  <2>1. ASSUME NEW d \in Clients
        PROVE  \/ /\ ~Serving(d) /\ ~Serving(d)'
                  /\ conn'[d] = conn[d] /\ wire'[d] = wire[d] /\ replies'[d] = replies[d]
                  /\ \A n \in Nat : Issued(d, n)' <=> Issued(d, n)
               \/ Speaks(d)' /\ Handled(d)' /\ Answered(d)'
    <3>1. CASE d = c BY <3>1, <1>8
    <3>2. CASE d # c
      <4>1. ~Serving(d) /\ ~Serving(d)' BY <3>2, <1>2, <1>8 DEF Serving, Handling
      <4> QED BY <3>2, <4>1, <1>1, <1>8
    <3> QED BY <3>1, <3>2
  <2> QED BY <1>1, <1>8, <2>1, ServerKeeps
\* What it posts comes behind all that it has posted.
<1>9. ASSUME NEW what \in {"call", "post"}, events' = Append(events, Event(what))
      PROVE  /\ events' \in Seq(Post \cup Report) /\ Ordered(events, carried)'
             /\ \A d \in Clients, n \in Nat :
                  Issued(d, n)' <=> Issued(d, n) \/ (d = c /\ n = t + 1)
             /\ \A k \in DOMAIN events' :
                  \/ k \in DOMAIN events /\ events'[k] = events[k]
                  \/ events'[k].what = what /\ events'[k].client = c /\ events'[k].n = t + 1
  <2>1. PICK e \in Post : e = Event(what) /\ e.what = what /\ e.client = c /\ e.n = t + 1
    BY <1>0, <1>2, <1>6, EventIs
  <2>2. ASSUME NEW n \in Nat, Posted(events, e.client, n) \/ Done(carried, e.client, n)
        PROVE  n < e.n
    <3>1. Issued(c, n) BY <2>1, <2>2 DEF Issued
    <3>2. n <= t BY <3>1, <1>1, <1>3, <1>6 DEF Handled, Handling
    <3> QED BY <3>2, <2>1
  <2>3. /\ Append(events, e) \in Seq(Post \cup Report) /\ Ordered(Append(events, e), carried)
        /\ \A d \in Clients, n \in Nat :
             Posted(Append(events, e), d, n) <=> Posted(events, d, n) \/ (d = e.client /\ n = e.n)
    BY <2>2, <1>0, <1>7, PostOrdered
  <2>4. PICK u \in Seq(Post \cup Report) : Longer(u, events, e)
    <3>1. e \in Post \cup Report OBVIOUS
    <3> QED BY <3>1, <1>7, Appended
  <2>5. /\ u = events' /\ u[Len(u)] = e /\ DOMAIN u = DOMAIN events \cup {Len(u)}
        /\ \A i \in DOMAIN events : u[i] = events[i]
    BY <2>1, <2>4, <1>9 DEF Longer
  <2>6. Ordered(events', carried') /\ events' \in Seq(Post \cup Report) BY <2>1, <2>3, <1>1, <1>9
  <2>7. ASSUME NEW d \in Clients, NEW n \in Nat
        PROVE  Issued(d, n)' <=> Issued(d, n) \/ (d = c /\ n = t + 1)
    <3>1. Posted(events', d, n) <=> Posted(events, d, n) \/ (d = c /\ n = t + 1)
      BY <2>1, <2>3, <1>9
    <3>2. /\ Posted(events, d, n)' <=> Posted(events', d, n)
          /\ Done(carried, d, n)' <=> Done(carried, d, n)
      BY <1>1 DEF Posted, Done
    <3> QED BY <3>1, <3>2 DEF Issued
  <2>8. ASSUME NEW k \in DOMAIN events'
        PROVE  \/ k \in DOMAIN events /\ events'[k] = events[k]
               \/ events'[k].what = what /\ events'[k].client = c /\ events'[k].n = t + 1
    BY <2>1, <2>5
  <2>9. Ordered(events, carried)' BY <2>6
  <2> QED BY <2>6, <2>7, <2>8, <2>9
\* No line.
<1>10. CASE server' = [server EXCEPT !.pc = "serve"] /\ UNCHANGED <<events, future>>
  <2>1. /\ server' \in ServerType /\ server'.pc = "serve" /\ server'.client = c
        /\ server'.buffer = server.buffer /\ server'.taken = server.taken
    BY <1>2, <1>4, <1>10, Records
  <2>2. /\ \A d, n : (Issued(d, n)' <=> Issued(d, n)) /\ (Done(carried, d, n)' <=> Done(carried, d, n))
        /\ Ordered(events, carried)'
    BY <1>0, <1>1, <1>10, QuietServer
  <2>3. Shaped' BY <1>0, <1>1, <1>10, <2>1 DEF Shaped
  <2>4. Serving(c)' /\ ~Fresh(c)' BY <2>1 DEF Serving, Fresh, Handling
  <2>5. Speaks(c)' BY <1>1, <1>3, <1>10, <2>1, <2>4 DEF Speaks
  <2>6. Handled(c)' BY <1>1, <1>3, <2>1, <2>2, <2>4 DEF Handled, Handling
  <2>7. Answered(c)' BY <1>0, <1>1, <1>3, <1>10, <2>2, AnsweredSame
  <2>8. Busy' BY <2>1 DEF Busy, Handling
  <2>9. Waiting' BY <1>0, <1>1, <1>10, <2>1 DEF Waiting
  <2> QED BY <1>1, <1>8, <1>10, <2>1, <2>2, <2>3, <2>5, <2>6, <2>7, <2>8, <2>9
\* A line that is not waited for.
<1>11. ASSUME NEW k \in {"bad", "post"}, NEW a \in {"result", "error"}, k = server.buffer[1],
              Len(server.buffer) >= 2, a = "result" => k = "post",
              server' = [server EXCEPT !.pc = a], UNCHANGED future,
              k = "bad" => events' = events,
              k = "post" => events' = Append(events, Event("post"))
       PROVE  IInv'
  <2>1. /\ server' \in ServerType /\ server'.pc = a /\ server'.client = c
        /\ server'.buffer = server.buffer /\ server'.taken = server.taken
    <3>1. PICK v \in {"accept", "serve", "lines", "wait", "end", "result", "error", "nothing"} : v = a
      OBVIOUS
    <3>2. server' = [server EXCEPT !.pc = v] BY <3>1, <1>11
    <3>3. LET y == [server EXCEPT !.pc = v]
          IN  /\ y \in ServerType /\ y.pc = v /\ y.client = server.client
              /\ y.buffer = server.buffer /\ y.taken = server.taken
      BY <1>4 DEF ServerType
    <3> QED BY <3>1, <3>2, <3>3, <1>2
  <2>2. /\ events' \in Seq(Post \cup Report) /\ Ordered(events, carried)'
        /\ \A d \in Clients, n \in Nat :
             Issued(d, n)' <=> Issued(d, n) \/ (k = "post" /\ d = c /\ n = t + 1)
        /\ \A j \in DOMAIN events' : events'[j].what = "call" =>
             j \in DOMAIN events /\ events'[j] = events[j]
    <3>1. CASE k = "bad"
      <4>1. events' = events BY <3>1, <1>11
      <4>2. /\ \A d, n : Issued(d, n)' <=> Issued(d, n)
            /\ Ordered(events, carried)'
        BY <1>0, <1>1, <4>1, QuietServer
      <4> QED BY <3>1, <4>1, <4>2, <1>7
    <3>2. CASE k = "post"
      <4>1. events' = Append(events, Event("post")) BY <3>2, <1>11
      <4> QED BY <3>2, <4>1, <1>9
    <3> QED BY <3>1, <3>2
  <2>3. Shaped' BY <1>0, <1>1, <1>11, <2>1, <2>2 DEF Shaped
  <2>4. Handling' /\ Serving(c)' /\ ~Fresh(c)' BY <1>11, <2>1 DEF Serving, Fresh, Handling
  <2>5. Speaks(c)' BY <1>1, <1>3, <2>1, <2>4 DEF Speaks
  <2>6. Handled(c)'
    <3>1. ASSUME NEW n \in Nat, Issued(c, n)' PROVE n <= server'.taken \/ n = server'.taken + 1
      <4>1. Issued(c, n) \/ n = t + 1 BY <2>2, <3>1
      <4>2. Issued(c, n) => n <= t BY <1>1, <1>3, <1>6 DEF Handled, Handling
      <4> QED BY <4>1, <4>2, <2>1, <1>6
    <3> QED BY <2>4, <3>1 DEF Handled
  <2>7. Answered(c)' BY <1>0, <1>1, <1>3, <2>2, AnsweredSame
  <2>8. Busy'
    <3>1. PICK m \in Nat : m = t + 1 OBVIOUS
    <3>2. k = "post" => Issued(c, m)' BY <2>2, <3>1
    <3>3. k = "post" => Issued(server.client, server.taken + 1)' BY <2>1, <3>1, <3>2, <1>6
    <3> QED BY <1>2, <1>11, <2>1, <3>3 DEF Busy, Handling
  <2>9. Waiting' BY <1>0, <1>1, <1>11, <2>1, <2>2 DEF Waiting
  <2>10. \A d \in Clients : d # c => \A n \in Nat : Issued(d, n)' <=> Issued(d, n) BY <2>2
  <2> QED BY <1>1, <1>8, <2>1, <2>2, <2>3, <2>4, <2>5, <2>6, <2>7, <2>8, <2>9, <2>10
\* A line that is.
<1>12. CASE /\ Len(server.buffer) >= 2 /\ server.buffer[1] = "call"
            /\ server' = [server EXCEPT !.pc = "wait"]
            /\ events' = Append(events, Event("call"))
            /\ future' = FALSE
  <2>1. /\ server' \in ServerType /\ server'.pc = "wait" /\ server'.client = c
        /\ server'.buffer = server.buffer /\ server'.taken = server.taken
    BY <1>2, <1>4, <1>12, Records
  <2>2. /\ events' \in Seq(Post \cup Report) /\ Ordered(events, carried)'
        /\ \A d \in Clients, n \in Nat : Issued(d, n)' <=> Issued(d, n) \/ (d = c /\ n = t + 1)
        /\ \A k \in DOMAIN events' :
             \/ k \in DOMAIN events /\ events'[k] = events[k]
             \/ events'[k].what = "call" /\ events'[k].client = c /\ events'[k].n = t + 1
    BY <1>9, <1>12
  <2>3. Shaped' BY <1>0, <1>1, <1>12, <2>1, <2>2 DEF Shaped
  <2>4. Serving(c)' /\ ~Fresh(c)' BY <2>1 DEF Serving, Fresh, Handling
  <2>5. Speaks(c)' BY <1>1, <1>3, <1>12, <2>1, <2>4 DEF Speaks
  <2>6. Handled(c)'
    <3>2. ASSUME NEW n \in Nat, Issued(c, n)' PROVE n <= server'.taken \/ n = server'.taken + 1
      <4>1. Issued(c, n) \/ n = t + 1 BY <2>2, <3>2
      <4>2. Issued(c, n) => n <= t BY <1>1, <1>3, <1>6 DEF Handled, Handling
      <4> QED BY <4>1, <4>2, <2>1, <1>6
    <3> QED BY <2>1, <2>4, <3>2 DEF Handled, Handling
  <2>7. Answered(c)' BY <1>0, <1>1, <1>3, <1>12, <2>2, AnsweredSame
  <2>8. Busy'
    <3>1. PICK m \in Nat : m = t + 1 OBVIOUS
    <3>2. Issued(c, m)' BY <2>2, <3>1
    <3>3. Issued(server.client, server.taken + 1)' BY <2>1, <3>1, <3>2, <1>6
    <3>4. Handling' BY <2>1 DEF Handling
    <3> QED BY <1>2, <1>12, <2>1, <3>3, <3>4 DEF Busy
  <2>9. Waiting'
    <3> SUFFICES ASSUME ~flags'.destroying PROVE Waiting' BY DEF Waiting
    <3>1. ~gui.asked /\ \A k \in DOMAIN events : events[k].what # "call"
      BY <1>0, <1>1 DEF Waiting
    <3>2. \A k \in DOMAIN events' : events'[k].what = "call" =>
            events'[k].client = server'.client /\ events'[k].n = server'.taken + 1
      BY <2>1, <2>2, <3>1, <1>6
    <3> QED BY <3>1, <3>2, <2>1, <1>1, <1>12 DEF Waiting
  <2>10. \A d \in Clients : d # c => \A n \in Nat : Issued(d, n)' <=> Issued(d, n) BY <2>2
  <2>11. Handling' BY <2>1 DEF Handling
  <2> QED BY <1>1, <1>8, <1>12, <2>11, <2>1, <2>2, <2>3, <2>5, <2>6, <2>7, <2>8, <2>9, <2>10
<1>13. CASE Len(server.buffer) < 2 BY <1>10, <1>13 DEF HandleLine
<1>14. CASE ~(Len(server.buffer) < 2)
  <2>1. Len(b) \in Nat OBVIOUS
  <2>2. Len(server.buffer) >= 2 BY <2>1, <1>5, <1>14
  <2>3. CASE /\ server.buffer[1] = "bad" /\ UNCHANGED <<events, future>>
             /\ server' = [server EXCEPT !.pc = "error"]
    BY <2>2, <2>3, <1>11
  <2>4. CASE /\ server.buffer[1] = "post" /\ UNCHANGED future
             /\ events' = Append(events, Event("post"))
             /\ server' = [server EXCEPT !.pc = "result"]
    BY <2>2, <2>4, <1>11
  <2> QED BY <2>2, <2>3, <2>4, <1>12, <1>14 DEF HandleLine
<1> QED BY <1>13, <1>14

\* The wait is over: with the result once the call is carried out, with
\* nothing when the frame is being destroyed.
LEMMA WaitKeeps ==
  ASSUME IInv, Wait
  PROVE  IInv'
<1>0. Shaped /\ Orderly /\ Strays /\ Busy /\ Waiting BY DEF IInv, Strays, Orderly
<1>1. /\ UNCHANGED <<conn, sent, wire, replies, events, carried, future, gui, runs, plays, flags>>
      /\ server.pc = "wait" /\ server.pc # "end"
      /\ flags.destroying \/ future
  BY DEF Wait
<1>2. PICK c \in Clients : c = server.client BY <1>0, <1>1 DEF Busy, Handling
<1>3. Speaks(c) /\ Handled(c) /\ Answered(c) /\ Serving(c)
  BY <1>0, <1>1, <1>2 DEF Orderly, Serving, Handling
<1>4. server \in ServerType BY <1>0 DEF Shaped
<1>5. PICK a \in {"result", "nothing"} :
        /\ server' = [server EXCEPT !.pc = a]
        /\ a = "result" => ~flags.destroying
        /\ a = "nothing" => flags.destroying
  <2>1. CASE flags.destroying BY <2>1 DEF Wait
  <2>2. CASE ~flags.destroying BY <2>2 DEF Wait
  <2> QED BY <2>1, <2>2
<1>6. /\ server' \in ServerType /\ server'.pc = a /\ server'.client = c
      /\ server'.buffer = server.buffer /\ server'.taken = server.taken
  <2>1. PICK v \in {"accept", "serve", "lines", "wait", "end", "result", "error", "nothing"} : v = a
    OBVIOUS
  <2>2. server' = [server EXCEPT !.pc = v] BY <2>1, <1>5
  <2>3. LET y == [server EXCEPT !.pc = v]
        IN  /\ y \in ServerType /\ y.pc = v /\ y.client = server.client
            /\ y.buffer = server.buffer /\ y.taken = server.taken
    BY <1>4 DEF ServerType
  <2> QED BY <2>1, <2>2, <2>3, <1>2
<1>7. /\ \A d, n : (Issued(d, n)' <=> Issued(d, n)) /\ (Done(carried, d, n)' <=> Done(carried, d, n))
      /\ Ordered(events, carried)'
  BY <1>0, <1>1, QuietServer
<1>8. Handling /\ Handling' BY <1>1, <1>5, <1>6 DEF Handling
<1>9. Serving(c)' /\ (Fresh(c)' <=> Fresh(c)) BY <1>1, <1>3, <1>6, <1>8 DEF Serving, Fresh
<1>10. Speaks(c)' BY <1>1, <1>3, <1>6, <1>9 DEF Speaks
<1>11. Handled(c)' BY <1>3, <1>6, <1>7, <1>8, <1>9 DEF Handled
<1>12. Answered(c)' BY <1>0, <1>1, <1>3, <1>7, AnsweredSame
<1>13. Shaped' BY <1>0, <1>1, <1>6 DEF Shaped
<1>14. Busy'
  <2>1. /\ Len(server.buffer) >= 2 /\ server.buffer[1] = "call"
        /\ Issued(server.client, server.taken + 1)
    BY <1>0, <1>1, <1>8 DEF Busy
  <2>2. ~flags.destroying => Done(carried, server.client, server.taken + 1)
    BY <1>0, <1>1 DEF Waiting
  <2>3. /\ Issued(server.client, server.taken + 1)'
        /\ ~flags.destroying => Done(carried, server.client, server.taken + 1)'
    <3>2. server'.client = server.client /\ server'.taken + 1 = server.taken + 1 BY <1>2, <1>6
    <3>3. events' = events /\ carried' = carried BY <1>1
    <3> QED BY <2>1, <2>2, <3>2, <3>3 DEF Issued, Posted, Done
  <2> QED BY <2>1, <2>3, <1>1, <1>2, <1>5, <1>6, <1>8 DEF Busy
<1>15. Waiting' BY <1>0, <1>1, <1>5, <1>6, <1>7 DEF Waiting
<1>16. ASSUME NEW d \in Clients
       PROVE  \/ /\ ~Serving(d) /\ ~Serving(d)'
                 /\ conn'[d] = conn[d] /\ wire'[d] = wire[d] /\ replies'[d] = replies[d]
                 /\ \A n \in Nat : Issued(d, n)' <=> Issued(d, n)
              \/ Speaks(d)' /\ Handled(d)' /\ Answered(d)'
  <2>1. CASE d = c BY <2>1, <1>10, <1>11, <1>12
  <2>2. CASE d # c
    <3>1. ~Serving(d) /\ ~Serving(d)' BY <2>2, <1>2, <1>6 DEF Serving
    <3> QED BY <3>1, <1>1, <1>7
  <2> QED BY <2>1, <2>2
<1> QED BY <1>1, <1>7, <1>13, <1>14, <1>15, <1>16, ServerKeeps

\* The answer is sent, unless its client has hung up.
LEMMA SendKeeps ==
  ASSUME IInv, Send
  PROVE  IInv'
<1>0. Shaped /\ Orderly /\ Strays /\ Busy /\ Waiting BY DEF IInv, Strays, Orderly
<1>1. /\ UNCHANGED <<conn, sent, wire, events, carried, future, gui, runs, plays, flags>>
      /\ server.pc \in {"result", "error", "nothing"} /\ server.pc # "end"
      /\ server' = [server EXCEPT !.pc = "lines", !.taken = @ + 1,
                                  !.buffer = SubSeq(@, 3, Len(@))]
  BY DEF Send, Sending
<1>2. PICK c \in Clients : c = server.client BY <1>0, <1>1 DEF Busy, Handling
<1>3. Speaks(c) /\ Handled(c) /\ Answered(c) /\ Serving(c)
  BY <1>0, <1>1, <1>2 DEF Orderly, Serving, Handling
<1>4. server \in ServerType BY <1>0 DEF Shaped
<1>5. PICK t \in Nat : t = server.taken BY <1>4 DEF ServerType
<1>6. PICK b \in Seq(Wired) : b = server.buffer BY <1>4 DEF ServerType
<1>7. /\ Len(server.buffer) >= 2
      /\ server.buffer[1] # "bad" => Issued(c, t + 1)
      /\ server.pc = "result" =>
           \/ server.buffer[1] = "post"
           \/ server.buffer[1] = "call" /\ Done(carried, c, t + 1)
      /\ server.pc = "nothing" => flags.destroying
  BY <1>0, <1>1, <1>2, <1>5 DEF Busy, Handling
<1>8. PICK k \in Kinds : k = server.buffer[1]
  <2>1. PICK w \in Seq(Wired) : w = wire[c] BY <1>0 DEF Shaped
  <2>2. PICK q \in Seq(Kinds) : q = sent[c] BY <1>0 DEF Shaped
  <2>3. Coded(b \o w, q, t) BY <1>3, <1>5, <1>6, <2>1, <2>2 DEF Speaks
  <2>4. t + 1 <= Len(q) /\ b[1] = q[t + 1] BY <2>3, <1>6, <1>7, Taken
  <2>5. q[t + 1] \in Kinds BY <2>4
  <2> QED BY <2>4, <2>5, <1>6
<1>9. PICK a \in {"result", "error", "nothing"} : a = server.pc BY <1>1
<1>10. Replied(k, a) BY <1>8, <1>9 DEF Send, Replied
<1>11. /\ server' \in ServerType /\ server'.pc = "lines" /\ server'.client = c
       /\ server'.taken = t + 1 /\ server'.buffer = SubSeq(server.buffer, 3, Len(server.buffer))
  BY <1>1, <1>2, <1>4, <1>5, <1>7, LineTaken
<1>12. /\ \A d, n : (Issued(d, n)' <=> Issued(d, n)) /\ (Done(carried, d, n)' <=> Done(carried, d, n))
       /\ Ordered(events, carried)'
  BY <1>0, <1>1, QuietServer
<1>13. Speaks(c)' /\ Answered(c)' /\ replies' \in [Clients -> Seq(Answer)]
       /\ \A d \in Clients : d # c => replies'[d] = replies[d]
  <2>1. PICK m \in Nat : m = t + 1 OBVIOUS
  <2>2. k # "bad" => Issued(c, m)' BY <2>1, <1>7, <1>8, <1>12
  <2>3. k # "bad" => Issued(c, t + 1)' BY <2>1, <2>2
  <2>4. \A n \in Nat : Issued(c, n) => Issued(c, n)' BY <1>12
  <2>5. /\ a = "result" => k = "post" \/ (k = "call" /\ Done(carried, c, t + 1))
        /\ a = "nothing" => flags.destroying
    BY <1>7, <1>8, <1>9
  <2> QED BY <1>0, <1>1, <1>2, <1>3, <1>5, <1>7, <1>8, <1>10, <1>11, <2>3, <2>4, <2>5, ReplyKeeps
<1>14. Shaped' BY <1>0, <1>1, <1>11, <1>13 DEF Shaped
<1>15. Handled(c)'
  <2>1. Serving(c)' /\ ~Fresh(c)' BY <1>11 DEF Serving, Fresh, Handling
  <2>2. ASSUME NEW n \in Nat, Issued(c, n)' PROVE n <= server'.taken
    <3>1. Issued(c, n) BY <2>2, <1>12
    <3>2. n <= t \/ n = t + 1 BY <3>1, <1>3, <1>5 DEF Handled
    <3> QED BY <3>2, <1>11
  <2> QED BY <2>1, <2>2 DEF Handled
<1>16. Busy' BY <1>2, <1>11 DEF Busy, Handling
<1>17. Waiting' BY <1>0, <1>1, <1>11 DEF Waiting
<1>18. ASSUME NEW d \in Clients
       PROVE  \/ /\ ~Serving(d) /\ ~Serving(d)'
                 /\ conn'[d] = conn[d] /\ wire'[d] = wire[d] /\ replies'[d] = replies[d]
                 /\ \A n \in Nat : Issued(d, n)' <=> Issued(d, n)
              \/ Speaks(d)' /\ Handled(d)' /\ Answered(d)'
  <2>1. CASE d = c BY <2>1, <1>13, <1>15
  <2>2. CASE d # c
    <3>1. ~Serving(d) /\ ~Serving(d)' BY <2>2, <1>2, <1>11 DEF Serving
    <3> QED BY <2>2, <3>1, <1>1, <1>12, <1>13
  <2> QED BY <2>1, <2>2
<1> QED BY <1>1, <1>12, <1>14, <1>16, <1>17, <1>18, ServerKeeps

----------------------------------------------------------------------------
(* The theorems.                                                           *)

\* Every step of the frame, its server, its runs and the clients keeps IInv.
LEMMA NextKeeps ==
  ASSUME IInv, [Next]_vars
  PROVE  IInv'
\* Answers read, and a stutter, change nothing of it.
<1>0. ASSUME UNCHANGED <<conn, sent, wire, replies, server, events, carried>>,
             UNCHANGED <<future, gui, runs, plays, flags>>
      PROVE  IInv'
  <2>1. Shaped /\ Strays /\ Orderly BY DEF IInv, Strays
  <2>2. Shaped' BY <1>0, <2>1 DEF Shaped
  <2>3. Strays' BY <1>0, <2>1, <2>2, StraysFrame
  <2>4. Orderly' BY <1>0, <2>1, QuietOrderly
  <2> QED BY <2>3, <2>4 DEF IInv
<1>1. CASE Next
  <2>1. CASE HandleEvent BY <2>1, HandleEventKeeps
  <2>2. CASE Joined BY <2>2, JoinedKeeps
  <2>3. CASE StopServer \/ ServerJoined \/ StopPlays \/ LastJoined \/ Destroy
    BY <2>3, DestroyKeeps
  <2>4. CASE \E c \in Clients : Accept(c) BY <2>4, AcceptKeeps
  <2>5. CASE Receive BY <2>5, ReceiveKeeps
  <2>6. CASE HandleLine BY <2>6, HandleLineKeeps
  <2>7. CASE Wait BY <2>7, WaitKeeps
  <2>8. CASE ServerStops BY <2>8, ServerStopsKeeps
  <2>9. CASE \E c \in Clients : Write(c) \/ Leave(c) BY <2>9, WriteKeeps, LeaveKeeps
  <2>12. CASE Send BY <2>12, SendKeeps
  <2>13. CASE \E c \in Clients : Read(c) BY <2>13, <1>0 DEF Read
  <2>10. CASE \E f \in Folders : Play(f) BY <2>10, PlayKeeps
  <2>11. CASE \E r \in Runs : RunEnds(r) BY <2>11, RunEndsKeeps
  <2> QED BY <1>1, <2>1, <2>2, <2>3, <2>4, <2>5, <2>6, <2>7, <2>8, <2>9, <2>10, <2>11, <2>12, <2>13
          DEF Next, Gui, Server, Others
<1>2. CASE UNCHANGED vars BY <1>0, <1>2 DEF vars
<1> QED BY <1>1, <1>2

\* IInv holds in every state the program reaches.
LEMMA InvariantHolds == Spec => []IInv
<1>1. Init => IInv BY StraysInit, OrderlyInit DEF IInv
<1>2. IInv /\ [Next]_vars => IInv' BY NextKeeps
<1> QED BY <1>1, <1>2, PTL DEF Spec

\* A frame that is gone is called by nobody (its destructor has joined the
\* server thread and every worker, and each run that has not ended is the
\* worker of a folder), and a folder never has two commands running.
THEOREM NoStraysCorrect == Spec => []NoStrays
<1>1. IInv => NoStrays
  <2> SUFFICES ASSUME IInv PROVE NoStrays OBVIOUS
  <2>1. Shaped /\ Stopping /\ Joinable BY DEF IInv, Strays
  <2>2. \A r \in Runs : r # None BY BridgeAssumption DEF Runs, None
  <2>3. ASSUME gui.pc = "gone"
        PROVE  {r \in Runs : runs[r].state = "running"} = {} /\ server.pc = "end"
    <3>1. \A f \in Folders : plays[f].worker = None BY <2>1, <2>3 DEF Joinable
    <3>2. \A r \in Runs : runs[r].state # "running" BY <2>1, <2>2, <3>1 DEF Joinable
    <3> QED BY <2>1, <2>3, <3>2 DEF Stopping
  <2>4. \A r \in Runs : runs[r].state = "running" => \E f \in Folders : plays[f].worker = r
    BY <2>1 DEF Joinable
  <2> QED BY <2>3, <2>4 DEF NoStrays
<1> QED BY <1>1, InvariantHolds, PTL

\* Every client is answered once per line and in its order, however its bytes
\* arrive, whoever else is served, and whether or not it waits for the answer:
\* a result means that the request has been carried out, after all its client
\* asked before, and no request is carried out twice.
THEOREM AnswersCorrect == Spec => []Answers
<1>1. IInv => Answers
  <2> SUFFICES ASSUME IInv PROVE Answers OBVIOUS
  <2>0. /\ Shaped /\ Ordered(events, carried)
        /\ \A c \in Clients : Answered(c)
    BY DEF IInv, Strays, Orderly
  <2>1. carried \in Seq(Clients \X Nat) BY <2>0 DEF Shaped
  <2>2. DOMAIN carried = 1 .. Len(carried) /\ Len(carried) \in Nat BY <2>1
  <2>3. \A j, k \in DOMAIN carried :
          j < k /\ carried[j][1] = carried[k][1] => carried[j][2] < carried[k][2]
    BY <2>0 DEF Ordered
  <2>4. ASSUME NEW i \in DOMAIN carried, NEW j \in DOMAIN carried, carried[i] = carried[j]
        PROVE  i = j
    <3>1. carried[i] \in Clients \X Nat BY <2>1
    <3>2. carried[i][2] \in Nat BY <3>1
    <3>3. i \in Int /\ j \in Int BY <2>2
    <3>4. ~(i < j) BY <2>3, <2>4, <3>2
    <3>5. ~(j < i) BY <2>3, <2>4, <3>2
    <3> QED BY <3>3, <3>4, <3>5
  <2>5. ASSUME NEW c \in Clients, NEW i \in DOMAIN replies[c],
               replies[c][i].answer = "result", replies[c][i].kind # "post"
        PROVE  /\ \E j \in DOMAIN carried : carried[j] = <<c, i>>
               /\ \A h \in 1 .. i - 1 : sent[c][h] # "bad" =>
                    \E j \in 1 .. Position(<<c, i>>) - 1 : carried[j] = <<c, h>>
    <3>1. Done(carried, c, i) BY <2>0, <2>5 DEF Answered
    <3>2. PICK p \in DOMAIN carried : p = Position(<<c, i>>) /\ carried[p] = <<c, i>>
      BY <3>1 DEF Done, Position
    <3>3. PICK r \in Seq(Answer) : r = replies[c] BY <2>0 DEF Shaped
    <3>4. i \in 1 .. Len(r) /\ Len(r) \in Nat BY <3>3, <2>5
    <3>5. ASSUME NEW h \in 1 .. i - 1, sent[c][h] # "bad"
          PROVE  \E j \in 1 .. Position(<<c, i>>) - 1 : carried[j] = <<c, h>>
      <4>1. h \in DOMAIN replies[c] /\ h < i /\ h \in Int BY <3>3, <3>4
      <4>2. Issued(c, h) BY <4>1, <3>5, <2>0 DEF Answered
      <4>3. ASSUME NEW k \in DOMAIN events,
                   events[k].what # "report", events[k].client = c, events[k].n = h
            PROVE  FALSE
        <5>1. carried[p][1] = c /\ carried[p][2] = i BY <3>2
        <5>2. i < h BY <5>1, <4>3, <2>0 DEF Ordered
        <5> QED BY <5>2, <4>1, <3>4
      <4>4. PICK j \in DOMAIN carried : carried[j] = <<c, h>>
        BY <4>2, <4>3 DEF Issued, Posted, Done
      <4>5. carried[p][1] = carried[j][1] /\ carried[p][2] = i /\ carried[j][2] = h
        BY <3>2, <4>4
      <4>6. j # p BY <4>1, <4>5, <3>4
      <4>7. ~(p < j) BY <2>3, <4>1, <4>5, <3>4
      <4>8. j \in 1 .. p - 1 BY <2>2, <4>6, <4>7
      <4> QED BY <4>4, <4>8, <3>2
    <3> QED BY <3>2, <3>5
  <2>6. ASSUME NEW c \in Clients
        PROVE  /\ Len(replies[c]) <= Len(sent[c])
               /\ \A i \in DOMAIN replies[c] : /\ replies[c][i].kind = sent[c][i]
                                               /\ replies[c][i].answer = "nothing" => flags.destroying
    BY <2>0 DEF Answered
  <2> QED BY <2>4, <2>5, <2>6 DEF Answers
<1> QED BY <1>1, InvariantHolds, PTL
=============================================================================
