------------------------------ MODULE Markdown ------------------------------
(***************************************************************************)
(* MdStream of md_parser.cpp: a reply's markdown, fed in pieces, comes out *)
(* as blocks, each when it closes.                                         *)
(*                                                                         *)
(* A text is a sequence of tokens. The first token of a line says what the *)
(* line is: "fence" (three backquotes), "head" (# and a space), "row" (a   *)
(* bar), "item" (a list marker), any other a paragraph's; "sep" is |---|,  *)
(* a separator when alone on its line. "nl" ends a line. A block's text is *)
(* its lines, joined.                                                      *)
(***************************************************************************)
EXTENDS Sequences, SequencesExt

\* A stream: its open block's kind, the line being fed, the open block's text
\* (headerLine_ and the table's cells included), and the blocks for the sink.
NewStream == [state |-> "Top", buffer |-> <<>>, current |-> <<>>, out |-> <<>>]

\* What reset() leaves.
NoStream == [NewStream EXCEPT !.state = "None"]

MdBlock(type, text) == [type |-> type, text |-> text, call |-> 0, live |-> FALSE]

\* EmitParagraph and the others.
Emit(s, type) ==
  [s EXCEPT !.out = Append(@, MdBlock(type, s.current)), !.current = <<>>, !.state = "Top"]

CloseParagraph(s) == IF s.state \in {"InPara", "MaybeTable"} THEN Emit(s, "Paragraph") ELSE s

Opens(line, token) == line # <<>> /\ Head(line) = token

IsRow(line) == Opens(line, "row") \/ Opens(line, "sep")

IsSeparator(line) == line = <<"sep">>

\* A line outside code and tables.
PlainLine(s, line) ==
  CASE Opens(line, "fence") ->
         [CloseParagraph(s) EXCEPT !.state = "InCode", !.current = <<>>]
    [] line = <<>> -> CloseParagraph(s)
    [] Opens(line, "head") /\ s.state = "Top" -> Emit([s EXCEPT !.current = line], "Heading")
    [] IsRow(line) -> [CloseParagraph(s) EXCEPT !.state = "MaybeTable", !.current = line]
    [] Opens(line, "item") -> Emit([CloseParagraph(s) EXCEPT !.current = line], "Paragraph")
    [] OTHER -> [s EXCEPT !.state = "InPara", !.current = @ \o line]

ProcessLine(s, line) ==
  CASE s.state = "InCode" ->
         IF Opens(line, "fence") THEN Emit(s, "CodeBlock")
         ELSE [s EXCEPT !.current = @ \o Append(line, "nl")]
    [] s.state = "MaybeTable" /\ IsSeparator(line) -> [s EXCEPT !.state = "InTable"]
    [] s.state = "InTable" ->
         IF IsRow(line) THEN [s EXCEPT !.current = @ \o line]
         ELSE PlainLine(Emit(s, "Table"), line)
    [] OTHER -> PlainLine(s, line)

Feed(s, chunk) ==
  FoldLeft(LAMBDA f, token :
             IF token = "nl" THEN ProcessLine([f EXCEPT !.buffer = <<>>], f.buffer)
             ELSE [f EXCEPT !.buffer = Append(@, token)],
           s, chunk)

Flush(s) ==
  LET f == IF s.buffer = <<>> THEN s ELSE ProcessLine([s EXCEPT !.buffer = <<>>], s.buffer)
  IN  CASE f.state = "InCode"  -> Emit(f, "CodeBlock")
        [] f.state = "InTable" -> Emit(f, "Table")
        [] OTHER -> CloseParagraph(f)

\* A whole text.
Blocks(text) == Flush(Feed(NewStream, text)).out
=============================================================================
