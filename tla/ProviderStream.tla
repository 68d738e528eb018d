----------------------------- MODULE ProviderStream -----------------------------
(***************************************************************************)
(* One streamed answer: the lines a provider writes, the chunks they arrive *)
(* in, and the parser that makes lines of chunks and a text of lines.       *)
(*                                                                          *)
(* A line travels in two parts, its newline in the second; part 2i - 1 and  *)
(* part 2i are line i.  A chunk is any number of parts, so it may begin and *)
(* end within a line.  (A character cut in two is put together again by the *)
(* TextDecoder and not modelled.)                                           *)
(***************************************************************************)
EXTENDS Naturals, Sequences, FiniteSetsExt, Functions

CONSTANT MaxLines   \* bound on the lines of an answer

\* Ollama writes a JSON object per line, the others lines of SSE; Azure,
\* Mistral and compatible providers stream as OpenAI does.
Kinds == {"openai", "anthropic", "gemini", "ollama"}

\* Whether a line carries a piece of the text, whether it has the form the
\* parser takes ("data: " and JSON on one line, or JSON alone; SSE allows
\* more), and whether the parser takes it for the end: a finish_reason, a
\* message_delta or message_stop, done, and for Gemini any usageMetadata.  A
\* line that is none of these is a ping, a [DONE], an error in the stream,
\* which is not told from them, or an end the parser does not take.
Line == {line \in [piece : BOOLEAN, read : BOOLEAN, end : BOOLEAN] :
           line.read \/ (line.piece /\ ~line.end)}

VARIABLES
  kind,
  net,      \* the connection: "none", "open", "closed", "broken"
  written,  \* the lines
  closes,   \* the line whose piece closes the JSON of a plan, or 0
  arrives,  \* the last part that will arrive, once the connection has ended
  got,      \* the last part that has been read
  buffer,   \* the parts kept for the next chunk
  lines,    \* the parts of this chunk's lines not looked at yet
  text,     \* the lines whose pieces make the text
  reader    \* "off", "reading", "parsing", "returned", "failed"

connection == <<net, written, closes, arrives>>
parser == <<got, buffer, lines, text, reader>>
vars == <<kind, connection, parser>>

TypeOK ==
  /\ kind \in Kinds
  /\ net \in {"none", "open", "closed", "broken"}
  /\ written \in Seq(Line) /\ Len(written) <= MaxLines
  /\ closes \in 0 .. Len(written)
  /\ got \in 0 .. 2 * Len(written) /\ arrives \in 0 .. 2 * Len(written)
  /\ buffer \in Seq(1 .. got) /\ lines \in Seq(1 .. got)
  /\ text \in Seq(1 .. Len(written))
  /\ reader \in {"off", "reading", "parsing", "returned", "failed"}

Init ==
  /\ kind \in Kinds
  /\ net = "none" /\ written = <<>> /\ closes = 0 /\ arrives = 0
  /\ got = 0 /\ buffer = <<>> /\ lines = <<>> /\ text = <<>>
  /\ reader = "off"

\* streamInternal: the headers have come, and a reader of the body.
Open ==
  /\ reader = "off"
  /\ net' = "open" /\ reader' = "reading"
  /\ UNCHANGED <<kind, written, closes, arrives, got, buffer, lines, text>>

-----------------------------------------------------------------------------
(* The provider and the network: outside the program *)

\* Only Gemini may write what is taken for the end ahead of a piece.
Over == kind # "gemini" /\ \E i \in DOMAIN written : written[i].end

Write ==
  /\ net = "open" /\ Len(written) < MaxLines
  /\ \E line \in Line :
       /\ line.piece => ~Over
       /\ written' = Append(written, line)
       /\ closes' \in IF line.piece /\ closes = 0
                      THEN {0, Len(written')} ELSE {closes}
  /\ UNCHANGED <<kind, net, arrives, parser>>

\* The provider or a proxy closes: after the last newline, or before.
Close ==
  /\ net = "open" /\ net' = "closed"
  /\ arrives' \in got .. 2 * Len(written)
  /\ UNCHANGED <<kind, written, closes, parser>>

\* The connection is lost or aborted, and with it what has not been read.
Break ==
  /\ net = "open" /\ net' = "broken"
  /\ UNCHANGED <<kind, written, closes, arrives, parser>>

-----------------------------------------------------------------------------
(* parseSseStream, parseNdjsonStream *)

LastPart == IF net = "open" THEN 2 * Len(written) ELSE arrives

\* A newline ends part 2i.
Newlines(parts) == {i \in DOMAIN parts : parts[i] % 2 = 0}

\* scanLines: the lines that are whole, one after the other, and the rest.
LastNewline(parts) == Max(Newlines(parts) \cup {0})

ScannedLines(parts) == SubSeq(parts, 1, LastNewline(parts))

\* (Mutant: what follows the last newline is not kept.)
MutRemaining(parts) == <<>>

Remaining(parts) == SubSeq(parts, LastNewline(parts) + 1, Len(parts))

Goto(rest) == reader' = IF rest = <<>> THEN "reading" ELSE "parsing"

Read ==
  /\ reader = "reading" /\ net \in {"open", "closed"} /\ got < LastPart
  /\ \E last \in got + 1 .. LastPart :
       LET parts == buffer \o [i \in 1 .. last - got |-> got + i]
       IN  /\ got' = last
           /\ lines' = ScannedLines(parts)
           /\ buffer' = Remaining(parts)
           /\ Goto(ScannedLines(parts))
  /\ UNCHANGED <<kind, connection, text>>

\* The for loop's next line, up to its newline, and what it leaves.
FirstNewline == Min(Newlines(lines))
NextLine == SubSeq(lines, 1, FirstNewline)
OtherLines == SubSeq(lines, FirstNewline + 1, Len(lines))

\* The line the parts are, all of it and nothing else, or 0 when they are not
\* JSON.
LineOf(parts) ==
  LET i == Head(parts) \div 2 + 1
  IN  IF parts = <<2 * i - 1, 2 * i>> /\ written[i].read THEN i ELSE 0

\* (Mutant: the first line that says the end is gone past.)
MutParse ==
  /\ reader = "parsing"
  /\ LET i == LineOf(NextLine) IN
       /\ text' = IF i # 0 /\ written[i].piece THEN Append(text, i) ELSE text
       /\ lines' = OtherLines /\ Goto(OtherLines)
  /\ UNCHANGED <<kind, connection, got, buffer>>

\* A line that is not JSON is passed over; the first that says the end is the
\* last one looked at.
Parse ==
  /\ reader = "parsing"
  /\ LET i == LineOf(NextLine) IN
       /\ text' = IF i # 0 /\ written[i].piece THEN Append(text, i) ELSE text
       /\ lines' = OtherLines
       /\ IF i # 0 /\ written[i].end THEN reader' = "returned"
                                     ELSE Goto(OtherLines)
  /\ UNCHANGED <<kind, connection, got, buffer>>

\* What is left in the buffer is not looked at, and an end without a line
\* that says so is an end.
EndOfBody ==
  /\ reader = "reading" /\ net = "closed" /\ got = arrives
  /\ reader' = "returned"
  /\ UNCHANGED <<kind, connection, got, buffer, lines, text>>

ReadFails ==
  /\ reader = "reading" /\ net = "broken"
  /\ reader' = "failed"
  /\ UNCHANGED <<kind, connection, got, buffer, lines, text>>

\* The call returns or throws, and what it kept is gone.
Leave ==
  /\ reader \in {"returned", "failed"}
  /\ net' = "none" /\ written' = <<>> /\ closes' = 0 /\ arrives' = 0
  /\ got' = 0 /\ buffer' = <<>> /\ lines' = <<>> /\ text' = <<>>
  /\ reader' = "off"
  /\ UNCHANGED kind

Parser == Read \/ Parse \/ EndOfBody \/ ReadFails

Next == Open \/ Write \/ Close \/ Break \/ Parser \/ Leave

Spec == Init /\ [][Next]_vars

-----------------------------------------------------------------------------
(* Properties *)

Says(i) == written[i].read /\ written[i].end

\* The lines that come to count: those that arrived whole, up to the first
\* that says the end.
Counted ==
  LET whole == 1 .. got \div 2
  IN  {i \in whole : \A j \in 1 .. i - 1 : ~Says(j)}

Pieces == {i \in Counted : written[i].read /\ written[i].piece}

\* However the lines were cut into chunks, the text is what they say, each
\* piece once and in order: all of what came to count when the call returns, a
\* beginning of it before (stream-parser.ts:64).
TextIsOfLines ==
  /\ \A m, n \in DOMAIN text : m < n => text[m] < text[n]
  /\ Range(text) \subseteq Pieces
  /\ \A i \in Pieces \ Range(text) :
       reader # "returned" /\ \A n \in DOMAIN text : text[n] < i
=============================================================================
