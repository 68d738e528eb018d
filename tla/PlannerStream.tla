----------------------------- MODULE PlannerStream -----------------------------
(***************************************************************************)
(* PlannerCall with the first answer streamed, where planner.stream is set: *)
(* the request is a ProviderStream, and what it returns is the answer.      *)
(***************************************************************************)
EXTENDS PlannerCall

CONSTANT MaxLines   \* bound on the lines of a streamed answer

ASSUME StreamAssumption == MaxLines \in Nat

VARIABLES
  kind, net, written, closes, arrives, got, buffer, lines, text, reader,
  lacks   \* what the code does not know: the text lacks a piece of the plan

Stream == INSTANCE ProviderStream

stream == <<kind, net, written, closes, arrives, got, buffer, lines, text,
            reader>>
all == <<vars, stream, lacks>>

\* A provider: all but Anthropic's ask again as text, and only Ollama's may
\* refuse that too.
StreamInit ==
  /\ Init /\ Stream!Init /\ lacks = FALSE
  /\ Internal => /\ setup.asksAgain <=> kind # "anthropic"
                 /\ setup.endpoint = "none" => kind = "ollama"
  /\ ~Internal => kind = "openai"

Streaming == pc = "asking" /\ Streams

-----------------------------------------------------------------------------
(* A streamed request *)

\* A status that is not ok, or no connection.
StreamRefused ==
  /\ Streaming /\ reader = "off"
  /\ Answer /\ answer' = "error"
  /\ UNCHANGED stream

StreamBegins == Streaming /\ Stream!Open /\ Trickle

\* The signal of the request covers the body.
StreamTimesOut ==
  /\ Streaming /\ Internal /\ setup.timeout /\ attempt = 1
  /\ Stream!Break /\ UNCHANGED vars

\* The parser goes on.
StreamParses == Streaming /\ Stream!Parser /\ UNCHANGED vars

Taken(i) == \E n \in DOMAIN text : text[n] = i

Lacking ==
  \E i \in 1 .. closes : written[i].piece /\ written[i].read /\ ~Taken(i)

\* What the call returned is the answer, an empty text included.
\* extractJsonObject finds an object only where it is closed.
StreamReturns ==
  /\ Streaming /\ reader = "returned" /\ Stream!Leave
  /\ Answer
  /\ answer' = "prose" \/ (answer' = "plan" /\ Taken(closes))
  /\ lacks' = Lacking

StreamFails ==
  /\ Streaming /\ reader = "failed" /\ Stream!Leave
  /\ Answer /\ answer' = "error"
  /\ UNCHANGED lacks

-----------------------------------------------------------------------------
\* The planner alone, and every request that is not streamed.
Unstreamed == ~Streaming /\ UNCHANGED stream

Waits == Streaming /\ reader = "off" /\ (Silent \/ TimesOut)

Writer == Stream!Write \/ Stream!Close \/ Stream!Break

StreamProgram ==
  \/ /\ \/ Unstreamed /\ Program
        \/ Waits /\ UNCHANGED stream
        \/ StreamTimesOut \/ StreamParses
     /\ UNCHANGED lacks
  \/ StreamReturns \/ StreamFails

StreamNext ==
  \/ StreamProgram
  \/ /\ \/ Unstreamed /\ (Answer \/ Trickle)
        \/ StreamRefused \/ StreamBegins
        \/ Streaming /\ Writer /\ UNCHANGED vars
     /\ UNCHANGED lacks

StreamSpec ==
  StreamInit /\ [][StreamNext]_all /\ WF_all(StreamProgram)

-----------------------------------------------------------------------------
(* Properties *)

\* A plan accepted from a stream lacks no piece up to the one that closes it,
\* but for pieces in a line the parser does not take; no answer cut short by
\* the connection, by Gemini's usage or by a time limit becomes a plan.
PlanIsWhole ==
  plan = "planner" /\ attempt = 1 /\ Streams => ~lacks

\* However a streamed answer is cut into chunks, its text is what the lines
\* say, and a plan made of it is the plan that was written
\* (stream-parser.ts:64, json-extractor.ts:12).
StreamedIsWhole == Stream!TextIsOfLines /\ PlanIsWhole

\* A line of the stream under way has said the end.
EndSaid == Streaming /\ \E i \in DOMAIN written : Stream!Says(i)

\* Planning ends, unless it waits without a limit, which it does not where a
\* line of a stream has said the end, even if the provider never closes the
\* connection (internal-ai-planner.ts:297, stream-parser.ts:84).
PlanningEnds == <>(Ended \/ NoKey \/ [](Unlimited /\ ~EndSaid))
=============================================================================
