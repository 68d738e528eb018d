------------------------------ MODULE RunMonitor ------------------------------
(***************************************************************************)
(* The run monitor of the web interface (RunMonitor.tsx with the page that *)
(* gives it its callbacks) and what the server sends it.                   *)
(*                                                                         *)
(* The monitor learns of the selected run in two ways: it asks for the run *)
(* at intervals, and answers may come late or out of order; and it has a   *)
(* stream of events, which may be lost at any moment and is opened again by*)
(* a timer.  The user goes from run to run and from task to task meanwhile,*)
(* which makes React run the clean-up of an effect and then the effect.    *)
(***************************************************************************)
EXTENDS Integers, Sequences, FiniteSets

CONSTANTS None,
          Run, TasksOf,  \* runs, and the tasks of each
          MaxShown,      \* events kept by the monitor (500 in the code)
          EventsOf,      \* bound on the events of each run
          MaxRequests,   \* bound on the requests under way
          MaxErrors      \* bound on failures of the network

Event == [run : Run, n : Nat, ends : BOOLEAN]
Stream == [run : Run, phase : {"requested", "subscribed", "open"},
           queue : Seq(Event)]
Detail == [run : Run, status : {"active", "ended"}]
Request == [run : Run, answer : {None, "active", "ended"},
            cancelled : BOOLEAN]
Tasks == UNION {TasksOf[r] : r \in Run}

ASSUME MonitorAssumption ==
  /\ MaxShown \in Nat \ {0} /\ MaxRequests \in Nat \ {0}
  /\ EventsOf \in [Run -> Nat] /\ MaxErrors \in Nat
  /\ None \notin Run \cup Tasks \cup Stream \cup Detail

VARIABLES
  status,     \* the runs as the server has them
  emitted,    \* how many events each run has had
  announced,  \* the end of the run was its last event
  selected, detail, activeTask, live,   \* the state of the component
  source,     \* sseRef: the stream, with what is on its way, or None
  timer,      \* reconnectTimeoutRef: the run to connect to, or None
  connection, \* connectionStatus
  polls,      \* requests for the run under way
  errors,
  starts      \* the first event each stream since the selection could bring

server == <<status, emitted, announced>>
stream == <<source, timer, connection, starts>>
vars == <<server, selected, detail, activeTask, live, stream, polls, errors>>

TypeOK ==
  /\ status \in [Run -> {"active", "ended"}]
  /\ emitted \in [Run -> Nat] /\ \A r \in Run : emitted[r] <= EventsOf[r]
  /\ announced \in [Run -> BOOLEAN]
  /\ selected \in Run \cup {None}
  /\ detail \in Detail \cup {None}
  /\ activeTask \in Tasks \cup {None}
  /\ live \in Seq(Event) /\ Len(live) <= MaxShown
  /\ source \in Stream \cup {None}
  /\ timer \in Run \cup {None}
  /\ connection \in {"disconnected", "connecting", "connected", "error"}
  /\ polls \subseteq Request
  /\ errors \in 0 .. MaxErrors
  /\ starts \subseteq Nat

Init ==
  /\ status = [r \in Run |-> "active"]
  /\ emitted = [r \in Run |-> 0] /\ announced = [r \in Run |-> FALSE]
  /\ selected = None /\ detail = None /\ activeTask = None
  /\ live = <<>>
  /\ source = None /\ timer = None /\ connection = "disconnected"
  /\ polls = {} /\ errors = 0 /\ starts = {}

-----------------------------------------------------------------------------
(* The server *)

\* appendToRun notifies the watchers of the run: the streams that are
\* subscribed to it.
Notify(r, ends) ==
  LET event == [run |-> r, n |-> emitted[r] + 1, ends |-> ends]
  IN  /\ emitted[r] < EventsOf[r]
      /\ emitted' = [emitted EXCEPT ![r] = @ + 1]
      /\ source' = IF source # None /\ source.run = r
                      /\ source.phase # "requested"
                   THEN [source EXCEPT !.queue = Append(@, event)]
                   ELSE source
      /\ UNCHANGED <<selected, detail, activeTask, live, timer,
                     connection, starts, polls, errors>>

Emit(r) ==
  /\ status[r] = "active" /\ Notify(r, FALSE)
  /\ UNCHANGED <<status, announced>>

\* The status of a run is saved before its last event is appended; a run that
\* another process ends has no such event here.
EndRun(r) ==
  /\ status[r] = "active"
  /\ status' = [status EXCEPT ![r] = "ended"]
  /\ UNCHANGED <<emitted, announced, selected, detail, activeTask, live,
                 stream, polls, errors>>

Announce(r) ==
  /\ status[r] = "ended" /\ ~announced[r] /\ Notify(r, TRUE)
  /\ announced' = [announced EXCEPT ![r] = TRUE]
  /\ UNCHANGED status

\* handleSse: the stream gets the events from now on.
HandleSse ==
  /\ source # None /\ source.phase = "requested"
  /\ source' = [source EXCEPT !.phase = "subscribed"]
  /\ starts' = starts \cup {emitted[source.run] + 1}
  /\ UNCHANGED <<server, selected, detail, activeTask, live, timer,
                 connection, polls, errors>>

\* A request is answered with what the server has at that time.
AnswerPoll ==
  \E p \in polls :
    /\ p.answer = None
    /\ polls' = (polls \ {p}) \cup {[p EXCEPT !.answer = status[p.run]]}
    /\ UNCHANGED <<server, selected, detail, activeTask, live, stream,
                   errors>>

-----------------------------------------------------------------------------
(* The effects of the component *)

\* connectSse
ConnectSse(r) ==
  /\ source' = [run |-> r, phase |-> "requested", queue |-> <<>>]
  /\ timer' = None /\ connection' = "connecting"

\* (Mutant: the timer is left to fire.)
MutDisconnectSse ==
  /\ source' = None /\ timer' = timer /\ connection' = "disconnected"

DisconnectSse ==
  /\ source' = None /\ timer' = None /\ connection' = "disconnected"

\* The clean-up of the effect, and the effect for the run selected.
SseEffect(r) == IF r = None THEN DisconnectSse ELSE ConnectSse(r)

\* (Mutant: answers to requests of an earlier effect count.)
MutCleanUp(requests) == requests

\* The clean-up of the other effects.
CleanUp(requests) == {[p EXCEPT !.cancelled = TRUE] : p \in requests}

Asking(requests, r) ==
  requests \cup {[run |-> r, answer |-> None, cancelled |-> FALSE]}

\* The effect depends on the run selected and on the active task.
DetailEffect(r) ==
  polls' = IF r = None THEN CleanUp(polls) ELSE Asking(CleanUp(polls), r)

Free == Cardinality(polls) < MaxRequests

-----------------------------------------------------------------------------
(* The user *)

\* selectRun: a click on the selected run deselects it.
SelectRun(r) ==
  LET new == IF selected = r THEN None ELSE r
  IN  /\ Free
      /\ selected' = new /\ activeTask' = None
      /\ live' = <<>> /\ starts' = {}
      /\ detail' = IF new = None THEN None ELSE detail
      /\ SseEffect(new) /\ DetailEffect(new)
      /\ UNCHANGED <<server, errors>>

\* selectTask, among the tasks of the run that is shown.
SelectTask(t) ==
  /\ Free /\ detail # None /\ t \in TasksOf[detail.run]
  /\ activeTask' = IF activeTask = t THEN None ELSE t
  /\ DetailEffect(selected)
  /\ UNCHANGED <<server, selected, detail, live, stream, errors>>

-----------------------------------------------------------------------------
(* Answers, events, timers *)

\* (Mutant: the interval is set up once the run is shown.)
MutTick ==
  /\ selected # None /\ detail = None /\ Free
  /\ polls' = Asking(polls, selected)
  /\ UNCHANGED <<server, selected, detail, activeTask, live, stream, errors>>

Tick ==
  /\ selected # None /\ Free
  /\ polls' = Asking(polls, selected)
  /\ UNCHANGED <<server, selected, detail, activeTask, live, stream, errors>>

\* An answer is shown unless its effect was cleaned up; a task that the run
\* does not have is no longer active, which runs the effect again.
Shown(p) ==
  /\ detail' = [run |-> p.run, status |-> p.answer]
  /\ IF activeTask \in TasksOf[p.run] \cup {None}
     THEN polls' = polls \ {p} /\ UNCHANGED activeTask
     ELSE /\ activeTask' = None
          /\ polls' = Asking(CleanUp(polls \ {p}), selected)

DetailArrives ==
  \E p \in polls :
    /\ p.answer # None
    /\ IF p.cancelled
       THEN polls' = polls \ {p} /\ UNCHANGED <<detail, activeTask>>
       ELSE Shown(p)
    /\ UNCHANGED <<server, selected, live, stream, errors>>

\* A request fails, which the component ignores.
RequestFails ==
  /\ errors < MaxErrors /\ errors' = errors + 1
  /\ \E p \in polls : polls' = polls \ {p}
  /\ UNCHANGED <<server, selected, detail, activeTask, live, stream>>

Opened ==
  /\ source # None /\ source.phase = "subscribed"
  /\ source' = [source EXCEPT !.phase = "open"]
  /\ connection' = "connected"
  /\ UNCHANGED <<server, selected, detail, activeTask, live, timer, starts,
                 polls, errors>>

\* onmessage: the end of a run is shown at once.
MessageArrives ==
  /\ source # None /\ source.phase = "open" /\ source.queue # <<>>
  /\ LET event == Head(source.queue)
         next == Append(live, event)
     IN  /\ live' = IF Len(next) > MaxShown THEN Tail(next) ELSE next
         /\ detail' = IF event.ends /\ detail # None
                      THEN [detail EXCEPT !.status = "ended"] ELSE detail
  /\ source' = [source EXCEPT !.queue = Tail(@)]
  /\ UNCHANGED <<server, selected, activeTask, timer, connection, starts,
                 polls, errors>>

\* (Mutant: the stream is given up.)
MutConnectionLost ==
  /\ source # None /\ errors < MaxErrors /\ errors' = errors + 1
  /\ connection' = "error" /\ source' = None /\ timer' = None
  /\ UNCHANGED <<server, selected, detail, activeTask, live, starts, polls>>

\* onerror: what was on its way is lost.
ConnectionLost ==
  /\ source # None /\ errors < MaxErrors /\ errors' = errors + 1
  /\ connection' = "error" /\ source' = None /\ timer' = source.run
  /\ UNCHANGED <<server, selected, detail, activeTask, live, starts, polls>>

Reconnect ==
  /\ timer # None /\ ConnectSse(timer)
  /\ UNCHANGED <<server, selected, detail, activeTask, live, starts, polls,
                 errors>>

Next ==
  \/ \E r \in Run : Emit(r) \/ EndRun(r) \/ Announce(r) \/ SelectRun(r)
  \/ \E t \in Tasks : SelectTask(t)
  \/ HandleSse \/ AnswerPoll \/ Tick \/ DetailArrives
  \/ RequestFails \/ Opened \/ MessageArrives \/ ConnectionLost \/ Reconnect

Spec == Init /\ [][Next]_vars

\* Intervals fire, and requests are answered.
FairSpec ==
  /\ Spec
  /\ WF_vars(Tick) /\ WF_vars(AnswerPoll) /\ WF_vars(DetailArrives)

-----------------------------------------------------------------------------
(* Properties *)

\* While a run is selected there is a stream of its events or a timer that
\* will open one, never both, and the badge says which; otherwise neither.
StreamIsKept ==
  /\ selected = None <=> source = None /\ timer = None
  /\ source # None => source.run = selected /\ timer = None
  /\ timer # None => timer = selected
  /\ connection = "connected" <=> source # None /\ source.phase = "open"
  /\ connection = "error" <=> timer # None

\* The events shown are those of the selected run, each once and in the order
\* they were emitted; between two of them some are missing only where a new
\* stream was opened.
EventsInOrder ==
  /\ \A i \in DOMAIN live : live[i].run = selected
  /\ \A i \in 1 .. Len(live) - 1 :
       /\ live[i].n < live[i + 1].n
       /\ live[i + 1].n = live[i].n + 1 \/ live[i + 1].n \in starts

\* Once the selected run is shown, no late answer shows another one.
OnceShownStays ==
  [][detail # None /\ detail.run = selected /\ selected' = selected
       => detail' # None /\ detail'.run = selected]_vars

\* If from some time on a run that has ended stays selected, and the same task
\* or none stays active, then in the end the run is shown as ended, and the task
\* is one of its own, whatever was lost and however answers were delayed.
EndIsShown ==
  \A r \in Run, t \in Tasks \cup {None} :
    <>[](selected = r /\ status[r] = "ended" /\ activeTask = t)
      => /\ <>[](detail = [run |-> r, status |-> "ended"])
         /\ t \in TasksOf[r] \cup {None}
=============================================================================
