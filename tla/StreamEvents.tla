---------------------------- MODULE StreamEvents ----------------------------
(***************************************************************************)
(* TakeSseEvents of streaming_web_request.cpp: the events of a server-sent *)
(* stream, however its bytes are cut into chunks.                          *)
(*                                                                         *)
(* A letter is "CR", "LF", "d" (the field name `data:`) or "x" (any other  *)
(* text), so a line that begins with "d" is a data line and the rest of it *)
(* its value.                                                              *)
(***************************************************************************)
EXTENDS Naturals, Sequences, SequencesExt, FiniteSetsExt

CONSTANT
  MaxText  \* bound: length of the stream

ASSUME TextAssumption == MaxText \in Nat

Letter == {"CR", "LF", "d", "x"}

VARIABLES
  text,    \* all that the server will send
  read,    \* how much of it has arrived
  buf,     \* sseBuf
  events,  \* what TakeSseEvents has returned so far
  ended    \* streamEnded has been passed

vars == <<text, read, buf, events, ended>>

-----------------------------------------------------------------------------
\* Length of the line ending at s[i], 0 if none.
LineEndAt(s, i) ==
  IF i \notin DOMAIN s \/ s[i] \notin {"CR", "LF"} THEN 0
  ELSE IF s[i] = "CR" /\ i + 1 \in DOMAIN s /\ s[i + 1] = "LF" THEN 2 ELSE 1

\* find_first_of("\r\n", i), one past the end if there is none.
LineEndFrom(s, i) ==
  LET stops == {j \in i..Len(s) : s[j] \in {"CR", "LF"}}
  IN  IF stops = {} THEN Len(s) + 1 ELSE Min(stops)

\* The values of the data lines.
RECURSIVE DataLines(_)
DataLines(event) ==
  IF event = <<>> THEN <<>>
  ELSE LET end  == LineEndFrom(event, 1)
           line == SubSeq(event, 1, end - 1)
           rest == SubSeq(event, end + LineEndAt(event, end), Len(event))
       IN  (IF line # <<>> /\ line[1] = "d" THEN <<Tail(line)>> ELSE <<>>) \o DataLines(rest)

\* SseEventData: the lines joined; one empty line is no data.
SseEventData(event) ==
  LET lines == DataLines(event) IN IF lines = <<<<>>>> THEN <<>> ELSE lines

\* An event without data is not reported.
Reported(event) ==
  LET data == SseEventData(event) IN IF data = <<>> THEN <<>> ELSE <<data>>

\* The events of s from `start` on, and where the unfinished one begins.
RECURSIVE Scan(_, _, _, _)
Scan(s, start, pos, found) ==
  LET end   == LineEndFrom(s, pos)
      next  == end + LineEndAt(s, end)
      blank == LineEndAt(s, next)
  IN  IF end > Len(s) THEN [events |-> found, start |-> start]
      ELSE IF blank = 0 THEN Scan(s, start, next, found)
      ELSE Scan(s, next + blank, next + blank, found \o Reported(SubSeq(s, start, end - 1)))

\* Slip: a blank line that began in the chunk before is not looked for.
RescanNothing(b) == Len(b) + 1

\* Where a blank line can begin that buf did not complete.
Rescan(b) == IF Len(b) < 3 THEN 1 ELSE Len(b) - 2

\* A chunk arrives: OnStreamData.
Data(n) ==
  /\ ~ended
  /\ read + n <= Len(text) /\ read' = read + n
  /\ LET s == buf \o SubSeq(text, read + 1, read + n)
         scan == Scan(s, 1, Rescan(buf), <<>>)
     IN  /\ events' = events \o scan.events
         /\ buf' = SubSeq(s, scan.start, Len(s))
  /\ UNCHANGED <<text, ended>>

\* Slip: an event that no blank line closed is dropped.
EndDropping ==
  /\ ~ended /\ ended' = TRUE /\ buf' = <<>>
  /\ events' = events \o Scan(buf, 1, Rescan(buf), <<>>).events
  /\ UNCHANGED <<text, read>>

\* The stream ends, wherever it is: OnStreamDone.
End ==
  /\ ~ended /\ ended' = TRUE /\ buf' = <<>>
  /\ LET scan == Scan(buf, 1, Rescan(buf), <<>>)
     IN  events' = events \o scan.events \o Reported(SubSeq(buf, scan.start, Len(buf)))
  /\ UNCHANGED <<text, read>>

Init ==
  /\ text \in SeqOf(Letter, MaxText)
  /\ read = 0 /\ buf = <<>> /\ events = <<>> /\ ended = FALSE

Next == (\E n \in 1..MaxText : Data(n)) \/ End

Spec == Init /\ [][Next]_vars

-----------------------------------------------------------------------------
(***************************************************************************)
(* The rules of the format, a letter at a time: a line ending closes a     *)
(* line, an empty line the event, and its data lines are its data.         *)
(***************************************************************************)
EventOf(values) == IF values \in {<<>>, <<<<>>>>} THEN <<>> ELSE <<values>>

Take(acc, c) ==
  LET keep == [acc EXCEPT !.last = c]
  IN  IF c \notin {"CR", "LF"} THEN [keep EXCEPT !.line = Append(@, c)]
      ELSE IF c = "LF" /\ acc.last = "CR" THEN keep
      ELSE IF acc.line = <<>> THEN [keep EXCEPT !.data = <<>>, !.out = @ \o EventOf(acc.data)]
      ELSE IF acc.line[1] # "d" THEN [keep EXCEPT !.line = <<>>]
      ELSE [keep EXCEPT !.line = <<>>, !.data = Append(@, Tail(acc.line))]

\* The events of s; if s is all there is, its last one needs no empty line.
Reference(s, whole) ==
  FoldLeft(Take, [last |-> "none", line |-> <<>>, data |-> <<>>, out |-> <<>>],
           IF whole THEN s \o <<"CR", "CR">> ELSE s).out

\* TakeSseEvents has returned exactly the events that are complete in what has
\* arrived: wherever the stream was cut, none is late, early, split or joined.
Prompt == ~ended => events = Reference(SubSeq(text, 1, read), FALSE)

\* A stream that ended has given all its events, the unfinished one with them.
Complete == ended => events = Reference(SubSeq(text, 1, read), TRUE)
=============================================================================
