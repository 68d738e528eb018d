-------------------------- MODULE RunMonitorProofs --------------------------
(***************************************************************************)
(* The run monitor for any runs and tasks, any number of events, requests  *)
(* and network failures.                                                   *)
(***************************************************************************)
EXTENDS RunMonitor, SequenceTheorems, TLAPS

-----------------------------------------------------------------------------
(* Type correctness *)

\* A request whose answer will be shown is one for the run selected.
PollsCurrent == \A p \in polls : ~p.cancelled => p.run = selected

\* A step keeps the types; the answer that makes a monitor ask again is one
\* for the run selected.
LEMMA TypingStep == TypeOK /\ PollsCurrent /\ [Next]_vars => TypeOK'
<1> USE MonitorAssumption
<1> SUFFICES ASSUME TypeOK, PollsCurrent, [Next]_vars PROVE TypeOK'
  OBVIOUS
<1>2. TypeOK'
  <2> USE DEF TypeOK
  <2>1. CASE UNCHANGED vars
    BY <2>1 DEF vars, server, stream
  <2>2. ASSUME NEW r \in Run, NEW ends \in BOOLEAN, Notify(r, ends),
               status' \in [Run -> {"active", "ended"}],
               announced' \in [Run -> BOOLEAN]
        PROVE  TypeOK'
    <3> DEFINE event == [run |-> r, n |-> emitted[r] + 1, ends |-> ends]
    <3>1. event \in Event
      BY DEF Event
    <3>2. source' \in Stream \cup {None}
      <4>1. CASE source # None /\ source.run = r /\ source.phase # "requested"
        <5>1. Append(source.queue, event) \in Seq(Event)
          BY <3>1, <4>1, AppendProperties DEF Stream
        <5> HIDE DEF event
        <5>2. source' = [source EXCEPT !.queue = Append(source.queue, event)]
          BY <2>2, <4>1 DEF Notify, event
        <5> QED
          BY <4>1, <5>1, <5>2 DEF Stream
      <4>2. CASE ~(source # None /\ source.run = r /\ source.phase # "requested")
        BY <2>2, <4>2 DEF Notify
      <4> QED
        BY <4>1, <4>2
    <3>3. /\ emitted' \in [Run -> Nat]
          /\ \A x \in Run : emitted'[x] <= EventsOf[x]
      BY <2>2 DEF Notify
    <3> QED
      BY <2>2, <3>2, <3>3 DEF Notify
  <2>3. ASSUME NEW r \in Run, Emit(r) PROVE TypeOK'
    <3>1. Notify(r, FALSE)
      BY <2>3 DEF Emit
    <3> QED
      BY <2>2, <2>3, <3>1 DEF Emit
  <2>4. ASSUME NEW r \in Run, EndRun(r) PROVE TypeOK'
    BY <2>4 DEF EndRun, stream
  <2>5. ASSUME NEW r \in Run, Announce(r) PROVE TypeOK'
    <3>1. Notify(r, TRUE) /\ status' = status
          /\ announced' \in [Run -> BOOLEAN]
      BY <2>5 DEF Announce
    <3> QED
      BY <2>2, <3>1
  <2>6. ASSUME NEW x \in Run \cup {None}, SseEffect(x)
        PROVE  /\ source' \in Stream \cup {None}
               /\ timer' \in Run \cup {None}
               /\ connection' \in {"disconnected", "connecting"}
    <3>1. CASE x = None
      BY <2>6, <3>1 DEF SseEffect, DisconnectSse
    <3>2. CASE x # None
      <4>1. [run |-> x, phase |-> "requested", queue |-> <<>>] \in Stream
        BY <3>2 DEF Stream
      <4> QED
        BY <2>6, <3>2, <4>1 DEF SseEffect, ConnectSse
    <3> QED
      BY <3>1, <3>2
  <2>7. ASSUME NEW S, S \subseteq Request PROVE CleanUp(S) \subseteq Request
    <3>1. ASSUME NEW p \in S PROVE [p EXCEPT !.cancelled = TRUE] \in Request
      <4>1. p \in Request
        BY <2>7
      <4> QED
        BY <4>1 DEF Request
    <3> SUFFICES ASSUME NEW q \in CleanUp(S) PROVE q \in Request
      OBVIOUS
    <3>2. PICK p \in S : q = [p EXCEPT !.cancelled = TRUE]
      BY DEF CleanUp
    <3> QED
      BY <3>1, <3>2
  <2>8. ASSUME NEW S, S \subseteq Request, NEW r \in Run
        PROVE  Asking(S, r) \subseteq Request
    <3>1. [run |-> r, answer |-> None, cancelled |-> FALSE] \in Request
      BY DEF Request
    <3> QED
      BY <2>8, <3>1 DEF Asking
  <2>9. ASSUME NEW x \in Run \cup {None}, DetailEffect(x)
        PROVE  polls' \subseteq Request
    BY <2>7, <2>8, <2>9 DEF DetailEffect
  <2>10. ASSUME NEW r \in Run, SelectRun(r) PROVE TypeOK'
    <3>1. selected' \in Run \cup {None} /\ SseEffect(selected')
          /\ DetailEffect(selected')
      BY <2>10 DEF SelectRun
    <3> QED
      BY <2>6, <2>9, <2>10, <3>1 DEF SelectRun, server
  <2>11. ASSUME NEW t \in Tasks, SelectTask(t) PROVE TypeOK'
    BY <2>9, <2>11 DEF SelectTask, server, stream
  <2>12. CASE HandleSse
    <3>1. source \in Stream /\ source.run \in Run
      BY <2>12 DEF HandleSse, Stream
    <3>2. source' \in Stream
      BY <2>12, <3>1 DEF HandleSse, Stream
    <3>3. starts' \subseteq Nat
      BY <2>12, <3>1 DEF HandleSse
    <3> QED
      BY <2>12, <3>2, <3>3 DEF HandleSse, server
  <2>13. CASE AnswerPoll
    <3>1. polls' \subseteq Request
      BY <2>13 DEF AnswerPoll, Request
    <3> QED
      BY <2>13, <3>1 DEF AnswerPoll, server, stream
  <2>14. CASE Tick
    BY <2>8, <2>14 DEF Tick, server, stream
  <2>15. CASE DetailArrives
    <3>1. PICK p \in polls :
            /\ p.answer # None
            /\ IF p.cancelled
               THEN polls' = polls \ {p} /\ UNCHANGED <<detail, activeTask>>
               ELSE Shown(p)
      BY <2>15 DEF DetailArrives
    <3>2. UNCHANGED <<server, selected, live, stream, errors>>
      BY <2>15 DEF DetailArrives
    <3>3. p \in Request /\ p.run \in Run /\ p.answer \in {"active", "ended"}
      BY <3>1 DEF Request
    <3>4. CASE p.cancelled
      BY <3>1, <3>2, <3>4 DEF server, stream
    <3>5. CASE ~p.cancelled
      <4>1. Shown(p)
        BY <3>1, <3>5
      <4>2. detail' \in Detail
        BY <3>3, <4>1 DEF Shown, Detail
      <4>3. activeTask' \in Tasks \cup {None}
        BY <4>1 DEF Shown
      <4>4. polls' \subseteq Request
        <5>1. CASE activeTask \in TasksOf[p.run] \cup {None}
          BY <4>1, <5>1 DEF Shown
        <5>2. CASE activeTask \notin TasksOf[p.run] \cup {None}
          <6>1. selected \in Run
            BY <3>1, <3>3, <3>5 DEF PollsCurrent
          <6>2. CleanUp(polls \ {p}) \subseteq Request
            <7>1. polls \ {p} \subseteq Request
              OBVIOUS
            <7> QED
              BY <2>7, <7>1
          <6>3. Asking(CleanUp(polls \ {p}), selected) \subseteq Request
            BY <2>8, <6>1, <6>2
          <6> QED
            BY <4>1, <5>2, <6>3 DEF Shown
        <5> QED
          BY <5>1, <5>2
      <4> QED
        BY <3>2, <4>2, <4>3, <4>4 DEF server, stream
    <3> QED
      BY <3>4, <3>5
  <2>16. CASE RequestFails
    BY <2>16 DEF RequestFails, server, stream
  <2>17. CASE Opened
    <3>1. source' \in Stream
      BY <2>17 DEF Opened, Stream
    <3> QED
      BY <2>17, <3>1 DEF Opened, server
  <2>18. CASE MessageArrives
    <3> DEFINE event == Head(source.queue)
               next == Append(live, event)
    <3>1. source \in Stream /\ source.queue \in Seq(Event)
          /\ source.queue # <<>>
      BY <2>18 DEF MessageArrives, Stream
    <3>2. event \in Event /\ Tail(source.queue) \in Seq(Event)
      BY <3>1, HeadTailProperties
    <3>3. next \in Seq(Event) /\ Len(next) = Len(live) + 1 /\ next # <<>>
      <4>1. live \in Seq(Event)
        OBVIOUS
      <4> HIDE DEF event, TypeOK
      <4> QED
        BY <3>2, <4>1, AppendProperties
    <3>4. Tail(next) \in Seq(Event) /\ Len(Tail(next)) = Len(live)
      BY <3>3, HeadTailProperties
    <3>5. live' = IF Len(next) > MaxShown THEN Tail(next) ELSE next
      BY <2>18 DEF MessageArrives
    <3>6. live' \in Seq(Event) /\ Len(live') <= MaxShown
      <4> HIDE DEF next, event
      <4> QED
        BY <3>3, <3>4, <3>5
    <3>7. source' \in Stream
      BY <2>18, <3>1, <3>2 DEF MessageArrives, Stream
    <3>8. detail' \in Detail \cup {None}
      BY <2>18 DEF MessageArrives, Detail
    <3> QED
      BY <2>18, <3>6, <3>7, <3>8 DEF MessageArrives, server
  <2>19. CASE ConnectionLost
    <3>1. source.run \in Run
      BY <2>19 DEF ConnectionLost, Stream
    <3> QED
      BY <2>19, <3>1 DEF ConnectionLost, server
  <2>20. CASE Reconnect
    <3>1. timer \in Run /\ SseEffect(timer)
      BY <2>20 DEF Reconnect, SseEffect
    <3> QED
      BY <2>6, <2>20, <3>1 DEF Reconnect, server
  <2> QED
    BY <2>1, <2>3, <2>4, <2>5, <2>10, <2>11, <2>12, <2>13, <2>14, <2>15,
       <2>16, <2>17, <2>18, <2>19, <2>20 DEF Next
<1> QED
  BY <1>2

\* Selecting a run or a task cancels the requests under way.
LEMMA PollsStep == TypeOK /\ PollsCurrent /\ [Next]_vars => PollsCurrent'
<1> SUFFICES ASSUME TypeOK, PollsCurrent, [Next]_vars PROVE PollsCurrent'
  OBVIOUS
<1> USE DEF PollsCurrent
<1>1. ASSUME NEW S, S \subseteq polls, NEW q \in CleanUp(S)
      PROVE  q.cancelled
  <2>1. PICK p \in S : q = [p EXCEPT !.cancelled = TRUE]
    BY <1>1 DEF CleanUp
  <2> QED
    BY <1>1, <2>1 DEF TypeOK, Request
<1>2. ASSUME NEW S, NEW x, NEW q \in Asking(S, x), q \notin S
      PROVE  q.run = x
  BY <1>2 DEF Asking
<1>3. ASSUME DetailEffect(selected') PROVE PollsCurrent'
  BY <1>1, <1>2, <1>3 DEF DetailEffect
<1>4. CASE UNCHANGED vars
  BY <1>4 DEF vars
<1>5. ASSUME NEW r \in Run, Emit(r) \/ EndRun(r) \/ Announce(r)
      PROVE  PollsCurrent'
  BY <1>5 DEF Emit, EndRun, Announce, Notify
<1>6. ASSUME NEW r \in Run, SelectRun(r) PROVE PollsCurrent'
  BY <1>3, <1>6 DEF SelectRun
<1>7. ASSUME NEW t \in Tasks, SelectTask(t) PROVE PollsCurrent'
  BY <1>3, <1>7 DEF SelectTask
<1>8. CASE HandleSse \/ Opened \/ MessageArrives \/ ConnectionLost \/ Reconnect
  BY <1>8 DEF HandleSse, Opened, MessageArrives, ConnectionLost, Reconnect
<1>9. CASE AnswerPoll
  BY <1>9 DEF AnswerPoll, TypeOK, Request
<1>10. CASE Tick
  BY <1>2, <1>10 DEF Tick
<1>11. CASE DetailArrives
  <2>1. PICK p \in polls :
          IF p.cancelled
          THEN polls' = polls \ {p} /\ UNCHANGED <<detail, activeTask>>
          ELSE Shown(p)
    BY <1>11 DEF DetailArrives
  <2>2. selected' = selected
    BY <1>11 DEF DetailArrives
  <2>3. \/ polls' = polls \ {p}
        \/ polls' = Asking(CleanUp(polls \ {p}), selected)
    BY <2>1 DEF Shown
  <2>4. polls \ {p} \subseteq polls
    OBVIOUS
  <2> QED
    BY <1>1, <1>2, <2>2, <2>3, <2>4
<1>12. CASE RequestFails
  BY <1>12 DEF RequestFails
<1> QED
  BY <1>4, <1>5, <1>6, <1>7, <1>8, <1>9, <1>10, <1>11, <1>12 DEF Next

\* Every variable keeps its type, and the monitor never keeps more than
\* MaxShown events.
THEOREM Typing == Spec => [](TypeOK /\ PollsCurrent)
<1>1. Init => TypeOK /\ PollsCurrent
  BY MonitorAssumption DEF Init, TypeOK, PollsCurrent
<1> QED
  BY <1>1, TypingStep, PollsStep, PTL DEF Spec

-----------------------------------------------------------------------------
(* What is shown *)

\* Only an answer to a request of the present selection changes the run that
\* is shown.
THEOREM ShownStays == Spec => OnceShownStays
<1>1. ASSUME TypeOK, PollsCurrent, [Next]_vars,
             detail # None, detail.run = selected, selected' = selected
      PROVE  detail' # None /\ detail'.run = selected
  <2> USE MonitorAssumption
  <2>1. detail \in Detail /\ selected \in Run
    BY <1>1 DEF TypeOK, Detail
  <2>2. CASE UNCHANGED vars
    BY <1>1, <2>2 DEF vars
  <2>3. ASSUME NEW r \in Run, Emit(r) \/ EndRun(r) \/ Announce(r)
        PROVE  detail' = detail
    BY <2>3 DEF Emit, EndRun, Announce, Notify
  <2>4. ASSUME NEW r \in Run PROVE ~SelectRun(r)
    BY <1>1, <2>1 DEF SelectRun
  <2>5. ASSUME NEW t \in Tasks, SelectTask(t) PROVE detail' = detail
    BY <2>5 DEF SelectTask
  <2>6. CASE HandleSse \/ AnswerPoll \/ Tick \/ RequestFails \/ Opened
               \/ ConnectionLost \/ Reconnect
    BY <1>1, <2>6 DEF HandleSse, AnswerPoll, Tick, RequestFails, Opened,
                      ConnectionLost, Reconnect
  <2>7. CASE DetailArrives
    <3>1. PICK p \in polls :
            /\ p.answer # None
            /\ IF p.cancelled
               THEN polls' = polls \ {p} /\ UNCHANGED <<detail, activeTask>>
               ELSE Shown(p)
      BY <2>7 DEF DetailArrives
    <3>2. CASE p.cancelled
      BY <1>1, <3>1, <3>2
    <3>3. CASE ~p.cancelled
      <4>1. /\ p.run = selected /\ p.answer \in {"active", "ended"}
            /\ detail' = [run |-> p.run, status |-> p.answer]
        BY <1>1, <3>1, <3>3 DEF PollsCurrent, Shown, TypeOK, Request
      <4>2. detail' \in Detail
        BY <2>1, <4>1 DEF Detail
      <4> QED
        BY <4>1, <4>2
    <3> QED
      BY <3>2, <3>3
  <2>8. CASE MessageArrives
    <3>1. \/ detail' = detail
          \/ detail' = [detail EXCEPT !.status = "ended"]
      BY <2>8 DEF MessageArrives
    <3>2. detail' \in Detail /\ detail'.run = detail.run
      BY <2>1, <3>1 DEF Detail
    <3> QED
      BY <1>1, <3>2
  <2> QED
    BY <1>1, <2>2, <2>3, <2>4, <2>5, <2>6, <2>7, <2>8 DEF Next
<1> QED
  BY <1>1, Typing, PTL DEF Spec, OnceShownStays

-----------------------------------------------------------------------------
(* The stream *)

\* The stream or the timer belongs to the run selected, whatever is lost.
THEOREM StreamKept == Spec => []StreamIsKept
<1>1. Init => StreamIsKept
  BY DEF Init, StreamIsKept
<1>2. TypeOK /\ StreamIsKept /\ [Next]_vars => StreamIsKept'
  <2> SUFFICES ASSUME TypeOK, StreamIsKept, [Next]_vars PROVE StreamIsKept'
    OBVIOUS
  <2> USE MonitorAssumption DEF StreamIsKept
  <2>0. source # None => source \in Stream
    BY DEF TypeOK
  <2>1. CASE UNCHANGED vars
    BY <2>1 DEF vars, stream
  <2>2. ASSUME NEW r \in Run, NEW ends \in BOOLEAN, Notify(r, ends)
        PROVE  StreamIsKept'
    <3>1. CASE source' = source
      BY <2>2, <3>1 DEF Notify
    <3>2. CASE source' # source
      <4> DEFINE event == [run |-> r, n |-> emitted[r] + 1, ends |-> ends]
      <4>1. source # None
            /\ source' = [source EXCEPT !.queue = Append(source.queue, event)]
        BY <2>2, <3>2 DEF Notify
      <4> HIDE DEF event
      <4>2. source'.run = source.run /\ source'.phase = source.phase
        BY <2>0, <4>1 DEF Stream
      <4>3. source' # None
        <5>1. emitted[r] + 1 \in Nat
          BY DEF TypeOK
        <5>2. event \in Event
          BY <5>1 DEF Event, event
        <5>3. Append(source.queue, event) \in Seq(Event)
          BY <2>0, <4>1, <5>2, AppendProperties DEF Stream
        <5>4. source' \in Stream
          BY <2>0, <4>1, <5>3 DEF Stream
        <5> QED
          BY <5>4
      <4> QED
        BY <2>2, <4>1, <4>2, <4>3 DEF Notify
    <3> QED
      BY <3>1, <3>2
  <2>3. ASSUME NEW r \in Run, Emit(r) \/ EndRun(r) \/ Announce(r)
        PROVE  StreamIsKept'
    BY <2>2, <2>3 DEF Emit, EndRun, Announce, stream
  <2>4. ASSUME NEW x \in Run \cup {None}, SseEffect(x), selected' = x
        PROVE  StreamIsKept'
    <3>1. CASE x = None
      BY <2>4, <3>1 DEF SseEffect, DisconnectSse
    <3>2. CASE x # None
      <4> DEFINE new == [run |-> x, phase |-> "requested", queue |-> <<>>]
      <4>1. new \in Stream /\ new.run = x /\ new.phase = "requested"
        BY <3>2 DEF Stream
      <4>2. new # None
        BY <4>1
      <4>3. source' = new /\ timer' = None /\ connection' = "connecting"
        BY <2>4, <3>2 DEF SseEffect, ConnectSse
      <4> HIDE DEF new
      <4> QED
        BY <2>4, <3>2, <4>1, <4>2, <4>3
    <3> QED
      BY <3>1, <3>2
  <2>5. ASSUME NEW r \in Run, SelectRun(r) PROVE StreamIsKept'
    <3>1. selected' \in Run \cup {None} /\ SseEffect(selected')
      BY <2>5 DEF SelectRun
    <3> QED
      BY <2>4, <3>1
  <2>6. ASSUME NEW t \in Tasks, SelectTask(t) PROVE StreamIsKept'
    BY <2>6 DEF SelectTask, stream
  <2>7. CASE AnswerPoll \/ Tick \/ DetailArrives \/ RequestFails
    BY <2>7 DEF AnswerPoll, Tick, DetailArrives, RequestFails, stream
  <2>8. ASSUME NEW p \in {"subscribed", "open"}, source # None,
               source' = [source EXCEPT !.phase = p]
        PROVE  source' # None /\ source'.run = source.run /\ source'.phase = p
    <3>1. source' \in Stream /\ source'.run = source.run /\ source'.phase = p
      BY <2>0, <2>8 DEF Stream
    <3> QED
      BY <3>1
  <2>9. CASE HandleSse
    <3>1. source # None /\ source.phase = "requested"
          /\ source' = [source EXCEPT !.phase = "subscribed"]
          /\ UNCHANGED <<selected, timer, connection>>
      BY <2>9 DEF HandleSse
    <3> QED
      BY <2>8, <3>1
  <2>10. CASE Opened
    <3>1. source # None /\ source' = [source EXCEPT !.phase = "open"]
          /\ connection' = "connected" /\ UNCHANGED <<selected, timer>>
      BY <2>10 DEF Opened
    <3> QED
      BY <2>8, <3>1
  <2>11. CASE MessageArrives
    <3>1. source \in Stream /\ source.queue # <<>>
          /\ source' = [source EXCEPT !.queue = Tail(source.queue)]
          /\ UNCHANGED <<selected, timer, connection>>
      BY <2>0, <2>11 DEF MessageArrives
    <3>2. Tail(source.queue) \in Seq(Event)
      BY <3>1, HeadTailProperties DEF Stream
    <3>3. source' \in Stream /\ source'.run = source.run
          /\ source'.phase = source.phase
      BY <3>1, <3>2 DEF Stream
    <3> QED
      BY <3>1, <3>3
  <2>12. CASE ConnectionLost
    <3>1. source # None /\ source' = None /\ timer' = source.run
          /\ connection' = "error" /\ selected' = selected
      BY <2>12 DEF ConnectionLost
    <3> QED
      BY <3>1 DEF TypeOK
  <2>13. CASE Reconnect
    <3>1. timer \in Run /\ timer = selected /\ selected' = selected
          /\ SseEffect(timer)
      BY <2>13 DEF Reconnect, SseEffect, TypeOK
    <3> QED
      BY <2>4, <3>1
  <2> QED
    BY <2>1, <2>3, <2>5, <2>6, <2>7, <2>9, <2>10, <2>11, <2>12, <2>13 DEF Next
<1> QED
  BY <1>1, <1>2, Typing, PTL DEF Spec

-----------------------------------------------------------------------------
(* The order of the events *)

\* The events on their way are consecutive and lead up to the last one of the
\* run; a stream not yet subscribed has none.
QueueInOrder ==
  source # None =>
    /\ source.phase = "requested" => source.queue = <<>>
    /\ \A i \in 1 .. Len(source.queue) : source.queue[i].run = source.run
    /\ \A i \in 1 .. Len(source.queue) :
         source.queue[i].n + (Len(source.queue) - i) = emitted[source.run]

\* The events shown have happened.
LiveHappened == \A i \in 1 .. Len(live) : live[i].n <= emitted[selected]

\* The next event, on its way or still to come, follows the last one shown or
\* is the first of a stream.
Follows(n) ==
  /\ live[Len(live)].n < n
  /\ n = live[Len(live)].n + 1 \/ n \in starts

Junction ==
  source # None /\ live # <<>> =>
    /\ source.queue # <<>> => Follows(source.queue[1].n)
    /\ source.queue = <<>> /\ source.phase # "requested"
         => Follows(emitted[selected] + 1)

OrderInv == EventsInOrder /\ QueueInOrder /\ LiveHappened /\ Junction

\* Facts about sequences of events.
LEMMA EventSequences ==
  ASSUME NEW s \in Seq(Event)
  PROVE  /\ Len(s) \in Nat /\ DOMAIN s = 1 .. Len(s)
         /\ \A i \in 1 .. Len(s) : s[i] \in Event /\ s[i].n \in Nat
         /\ s # <<>> => Len(s) > 0 /\ Head(s) = s[1]
<1>1. Len(s) \in Nat /\ DOMAIN s = 1 .. Len(s) /\ \A i \in 1 .. Len(s) : s[i] \in Event
  BY LenProperties, ElementOfSeq
<1>2. \A e \in Event : e.n \in Nat
  BY DEF Event
<1>3. s # <<>> => Len(s) > 0 /\ Head(s) = s[1]
  BY <1>1, EmptySeq
<1> QED
  BY <1>1, <1>2, <1>3

LEMMA OrderStep ==
  TypeOK /\ StreamIsKept /\ OrderInv /\ [Next]_vars => OrderInv'
<1> SUFFICES ASSUME TypeOK, StreamIsKept, OrderInv, [Next]_vars
             PROVE  OrderInv'
  OBVIOUS
<1> USE MonitorAssumption
<1> DEFINE last == Len(live)
<1>1. /\ live \in Seq(Event) /\ last \in Nat /\ Len(live) <= MaxShown
      /\ \A i \in 1 .. last : live[i] \in Event /\ live[i].n \in Nat
      /\ DOMAIN live = 1 .. last
      /\ live # <<>> => last \in 1 .. last
  <2>1. live \in Seq(Event) /\ Len(live) <= MaxShown
    BY DEF TypeOK
  <2> QED
    BY <2>1, EventSequences
<1>2. source # None =>
        /\ source \in Stream /\ source.run = selected /\ selected \in Run
        /\ source.queue \in Seq(Event)
  BY DEF TypeOK, StreamIsKept, Stream
<1>3. \A r \in Run : emitted[r] \in Nat
  BY DEF TypeOK
<1>4. live # <<>> => selected \in Run
  BY <1>1 DEF OrderInv, EventsInOrder, Event
<1>5. CASE UNCHANGED <<live, source, selected, starts, emitted>>
  BY <1>5 DEF OrderInv, EventsInOrder, QueueInOrder, LiveHappened, Junction,
              Follows
<1>6. ASSUME NEW r \in Run, SelectRun(r) PROVE OrderInv'
  <2>1. live' = <<>>
    BY <1>6 DEF SelectRun
  <2>2. source' # None => source'.queue = <<>>
    BY <1>6 DEF SelectRun, SseEffect, ConnectSse, DisconnectSse
  <2> QED
    BY <2>1, <2>2 DEF OrderInv, EventsInOrder, QueueInOrder, LiveHappened,
                      Junction
<1>7. CASE HandleSse
  <2>1. /\ source # None /\ source.phase = "requested"
        /\ source' = [source EXCEPT !.phase = "subscribed"]
        /\ starts' = starts \cup {emitted[source.run] + 1}
        /\ UNCHANGED <<emitted, selected, live>>
    BY <1>7 DEF HandleSse, server
  <2>2. source'.queue = <<>>
    BY <1>2, <2>1 DEF OrderInv, QueueInOrder, Stream
  <2>3. EventsInOrder'
    BY <2>1 DEF OrderInv, EventsInOrder
  <2>4. Junction'
    BY <1>1, <1>2, <1>3, <2>1, <2>2
       DEF OrderInv, LiveHappened, Junction, Follows
  <2> QED
    BY <2>1, <2>2, <2>3, <2>4 DEF OrderInv, QueueInOrder, LiveHappened
<1>8. CASE Opened
  <2>1. /\ source # None /\ source.phase = "subscribed"
        /\ source' = [source EXCEPT !.phase = "open"]
        /\ UNCHANGED <<emitted, selected, live, starts>>
    BY <1>8 DEF Opened, server
  <2>2. /\ source'.queue = source.queue /\ source'.run = source.run
        /\ source'.phase = "open"
    BY <1>2, <2>1 DEF Stream
  <2> QED
    BY <2>1, <2>2 DEF OrderInv, EventsInOrder, QueueInOrder, LiveHappened,
                      Junction, Follows
<1>9. CASE ConnectionLost
  <2>1. source' = None /\ UNCHANGED <<emitted, selected, live, starts>>
    BY <1>9 DEF ConnectionLost, server
  <2> QED
    BY <2>1 DEF OrderInv, EventsInOrder, QueueInOrder, LiveHappened, Junction
<1>10. CASE Reconnect
  <2>1. /\ source'.queue = <<>> /\ source'.phase = "requested"
        /\ UNCHANGED <<emitted, selected, live, starts>>
    BY <1>10 DEF Reconnect, ConnectSse, server
  <2> QED
    BY <2>1 DEF OrderInv, EventsInOrder, QueueInOrder, LiveHappened, Junction
<1>11. ASSUME NEW r \in Run, NEW ends \in BOOLEAN, Notify(r, ends)
       PROVE  OrderInv'
  <2> DEFINE event == [run |-> r, n |-> emitted[r] + 1, ends |-> ends]
             queue == source.queue
             new == Append(queue, event)
  <2>1. /\ emitted' = [emitted EXCEPT ![r] = emitted[r] + 1]
        /\ UNCHANGED <<selected, live, starts>>
    BY <1>11 DEF Notify
  <2>2. \A x \in Run : emitted'[x] = IF x = r THEN emitted[r] + 1 ELSE emitted[x]
    BY <2>1 DEF TypeOK
  <2>3. EventsInOrder' /\ LiveHappened'
    BY <1>1, <1>3, <1>4, <2>1, <2>2 DEF OrderInv, EventsInOrder, LiveHappened
  <2>4. CASE source # None /\ source.run = r /\ source.phase # "requested"
    <3>1. event \in Event /\ event.run = r /\ event.n = emitted[r] + 1
      BY <1>3 DEF Event
    <3>2. source' = [source EXCEPT !.queue = new]
      BY <1>11, <2>4 DEF Notify
    <3> HIDE DEF event
    <3>3. /\ new \in Seq(Event) /\ Len(new) = Len(queue) + 1 /\ new # <<>>
          /\ \A i \in 1 .. Len(queue) : new[i] = queue[i]
          /\ new[Len(queue) + 1] = event
      BY <1>2, <2>4, <3>1, AppendProperties
    <3> HIDE DEF new
    <3>4. /\ source' \in Stream /\ source'.queue = new
          /\ source'.run = r /\ source'.phase = source.phase
      BY <1>2, <2>4, <3>2, <3>3 DEF Stream
    <3>5. /\ Len(queue) \in Nat /\ \A i \in 1 .. Len(queue) : queue[i].n \in Nat
          /\ queue # <<>> <=> Len(queue) > 0
      BY <1>2, <2>4, EventSequences
    <3>6. /\ \A i \in 1 .. Len(queue) : queue[i].run = r
          /\ \A i \in 1 .. Len(queue) :
               queue[i].n + (Len(queue) - i) = emitted[r]
      BY <2>4 DEF OrderInv, QueueInOrder
    <3>7. QueueInOrder'
      <4>1. \A i \in 1 .. Len(new) : new[i].run = r
        <5>1. ASSUME NEW i \in 1 .. Len(new) PROVE new[i].run = r
          <6>1. i \in 1 .. Len(queue) \/ i = Len(queue) + 1
            BY <3>3, <3>5
          <6> QED
            BY <3>1, <3>3, <3>6, <6>1
        <5> QED
          BY <5>1
      <4>2. ASSUME NEW i \in 1 .. Len(new)
            PROVE  new[i].n + (Len(new) - i) = emitted[r] + 1
        <5>1. CASE i = Len(queue) + 1
          BY <1>3, <3>1, <3>3, <3>5, <5>1
        <5>2. CASE i \in 1 .. Len(queue)
          <6>1. queue[i].n \in Nat /\ queue[i].n + (Len(queue) - i) = emitted[r]
            BY <3>5, <3>6, <5>2
          <6> QED
            <7>1. new[i] = queue[i] /\ Len(new) = Len(queue) + 1
              BY <3>3, <5>2
            <7>2. emitted[r] \in Nat /\ Len(queue) \in Nat
              BY <1>3, <3>5
            <7> DEFINE k == queue[i].n
                       len == Len(queue)
            <7>3. k \in Nat /\ len \in Nat /\ k + (len - i) = emitted[r]
                  /\ i \in 1 .. len /\ emitted[r] \in Nat
              BY <5>2, <6>1, <7>2
            <7> HIDE DEF k, len, queue, new
            <7>4. k + ((len + 1) - i) = emitted[r] + 1
              BY <7>3
            <7> QED
              BY <7>1, <7>4 DEF k, len
        <5> QED
          BY <3>3, <3>5, <5>1, <5>2
      <4> QED
        BY <2>2, <2>4, <3>3, <3>4, <4>1, <4>2 DEF QueueInOrder
    <3>8. Junction'
      <4>1. CASE queue = <<>>
        <5>1. new[1] = event
          BY <3>3, <3>5, <4>1
        <5>2. live # <<>> => Follows(event.n)
          BY <1>2, <2>4, <3>1, <4>1 DEF OrderInv, Junction
        <5> QED
          BY <2>1, <3>3, <3>4, <5>1, <5>2 DEF Junction, Follows
      <4>2. CASE queue # <<>>
        <5>1. new[1] = queue[1]
          BY <3>3, <3>5, <4>2
        <5>2. live # <<>> => Follows(queue[1].n)
          BY <2>4, <4>2 DEF OrderInv, Junction
        <5> QED
          BY <2>1, <3>3, <3>4, <5>1, <5>2 DEF Junction, Follows
      <4> QED
        BY <4>1, <4>2
    <3> QED
      BY <2>3, <3>7, <3>8 DEF OrderInv
  <2>5. CASE ~(source # None /\ source.run = r /\ source.phase # "requested")
    <3>1. source' = source
      BY <1>11, <2>5 DEF Notify
    <3>2. source # None /\ source.run = r => source.queue = <<>>
      BY <2>5 DEF OrderInv, QueueInOrder
    <3>3. source # None /\ source.run # r => emitted'[source.run] = emitted[source.run]
      BY <1>2, <2>2
    <3>4. QueueInOrder'
      BY <3>1, <3>2, <3>3 DEF OrderInv, QueueInOrder
    <3>5. Junction'
      BY <1>2, <2>1, <2>5, <3>1, <3>2, <3>3 DEF OrderInv, Junction, Follows
    <3> QED
      BY <2>3, <3>4, <3>5 DEF OrderInv
  <2> QED
    BY <2>4, <2>5
<1>12. CASE MessageArrives
  <2> DEFINE queue == source.queue
             event == Head(queue)
             next == Append(live, event)
  <2>1. /\ source # None /\ queue # <<>> /\ source.phase = "open"
        /\ live' = IF Len(next) > MaxShown THEN Tail(next) ELSE next
        /\ source' = [source EXCEPT !.queue = Tail(queue)]
        /\ UNCHANGED <<emitted, selected, starts>>
    BY <1>12 DEF MessageArrives, server
  <2>2. /\ queue \in Seq(Event) /\ Len(queue) \in Nat /\ Len(queue) >= 1
        /\ event = queue[1] /\ event \in Event /\ event.n \in Nat
        /\ \A i \in 1 .. Len(queue) : queue[i].n \in Nat
    <3>1. queue \in Seq(Event)
      BY <1>2, <2>1
    <3> HIDE DEF queue
    <3>2. Len(queue) > 0 /\ event = queue[1]
      BY <2>1, <3>1, EventSequences
    <3> HIDE DEF event
    <3> QED
      BY <3>1, <3>2, EventSequences
  <2>3. /\ Tail(queue) \in Seq(Event) /\ Len(Tail(queue)) = Len(queue) - 1
        /\ \A i \in 1 .. Len(queue) - 1 : Tail(queue)[i] = queue[i + 1]
    BY <2>1, <2>2, HeadTailProperties
  <2>4. /\ source' \in Stream /\ source'.run = source.run
        /\ source'.phase = "open" /\ source'.queue = Tail(queue)
    BY <1>2, <2>1, <2>3 DEF Stream
  <2>5. /\ \A i \in 1 .. Len(queue) : queue[i].run = selected
        /\ \A i \in 1 .. Len(queue) :
             queue[i].n + (Len(queue) - i) = emitted[selected]
        /\ live # <<>> => Follows(event.n)
    BY <1>2, <2>1, <2>2 DEF OrderInv, QueueInOrder, Junction
  <2>6. QueueInOrder'
    <3> HIDE DEF queue
    <3>1. ASSUME NEW i \in 1 .. Len(queue) - 1
          PROVE  /\ Tail(queue)[i].run = selected
                 /\ Tail(queue)[i].n + ((Len(queue) - 1) - i) = emitted[selected]
      <4>1. i + 1 \in 1 .. Len(queue) /\ Tail(queue)[i] = queue[i + 1]
        BY <2>2, <2>3
      <4>2. queue[i + 1].n \in Nat /\ queue[i + 1].run = selected
            /\ queue[i + 1].n + (Len(queue) - (i + 1)) = emitted[selected]
        BY <2>2, <2>5, <4>1
      <4> QED
        BY <2>2, <4>1, <4>2
    <3> QED
      BY <1>2, <2>1, <2>3, <2>4, <3>1 DEF QueueInOrder
  <2> HIDE DEF event, queue
  <2>7. /\ next \in Seq(Event) /\ Len(next) = last + 1 /\ next # <<>>
        /\ \A i \in 1 .. last : next[i] = live[i]
        /\ next[last + 1] = event
    BY <1>1, <2>2, AppendProperties
  <2> HIDE DEF next
  <2>8. /\ event.n <= emitted[selected] /\ event.run = selected
        /\ event.n + (Len(queue) - 1) = emitted[selected]
    <3>1. emitted[selected] \in Nat
      BY <1>2, <1>3, <2>1
    <3> QED
      BY <2>2, <2>5, <3>1
  <2>9. ASSUME NEW i \in 1 .. last + 1
        PROVE  next[i].run = selected /\ next[i].n <= emitted[selected]
    <3>1. CASE i = last + 1
      BY <2>7, <2>8, <3>1
    <3>2. CASE i \in 1 .. last
      BY <1>1, <2>7, <3>2 DEF OrderInv, EventsInOrder, LiveHappened
    <3> QED
      BY <1>1, <3>1, <3>2
  <2>10. ASSUME NEW i \in 1 .. last
         PROVE  /\ next[i].n < next[i + 1].n
                /\ next[i + 1].n = next[i].n + 1 \/ next[i + 1].n \in starts
    <3>1. CASE i = last
      BY <1>1, <2>5, <2>7, <3>1 DEF Follows
    <3>2. CASE i < last
      <4>1. i \in 1 .. last - 1 /\ i + 1 \in 1 .. last
        BY <1>1, <3>2
      <4> QED
        BY <2>7, <4>1 DEF OrderInv, EventsInOrder
    <3> QED
      BY <1>1, <3>1, <3>2
  <2>11. \E d \in {0, 1} :
           /\ Len(live') = last + 1 - d /\ Len(live') >= 1
           /\ DOMAIN live' = 1 .. Len(live')
           /\ \A i \in 1 .. Len(live') : live'[i] = next[i + d]
    <3>1. CASE Len(next) > MaxShown
      <4>1. /\ Tail(next) \in Seq(Event) /\ Len(Tail(next)) = last
            /\ \A i \in 1 .. last : Tail(next)[i] = next[i + 1]
        BY <2>7, HeadTailProperties
      <4>2. DOMAIN Tail(next) = 1 .. last
        BY <4>1, EventSequences
      <4>3. last >= 1
        BY <1>1, <2>7, <3>1
      <4> QED
        BY <1>1, <2>1, <3>1, <4>1, <4>2, <4>3
    <3>2. CASE ~(Len(next) > MaxShown)
      <4>1. live' = next /\ DOMAIN next = 1 .. last + 1
        BY <2>1, <2>7, <3>2, EventSequences
      <4>2. /\ Len(live') = last + 1 - 0 /\ Len(live') >= 1
            /\ \A i \in 1 .. last + 1 : live'[i] = next[i + 0]
        BY <1>1, <2>7, <4>1
      <4> QED
        BY <2>7, <4>1, <4>2
    <3> QED
      BY <3>1, <3>2
  <2>12. PICK d \in {0, 1} :
           /\ Len(live') = last + 1 - d /\ Len(live') >= 1
           /\ DOMAIN live' = 1 .. Len(live')
           /\ \A i \in 1 .. Len(live') : live'[i] = next[i + d]
    BY <2>11
  <2>13. EventsInOrder' /\ LiveHappened'
    <3>1. ASSUME NEW i \in 1 .. Len(live')
          PROVE  live'[i].run = selected /\ live'[i].n <= emitted[selected]
      <4>1. i + d \in 1 .. last + 1
        BY <1>1, <2>12
      <4> QED
        BY <2>9, <2>12, <4>1
    <3>2. ASSUME NEW i \in 1 .. Len(live') - 1
          PROVE  /\ live'[i].n < live'[i + 1].n
                 /\ \/ live'[i + 1].n = live'[i].n + 1
                    \/ live'[i + 1].n \in starts
      <4>1. i + d \in 1 .. last /\ i \in 1 .. Len(live') /\ i + 1 \in 1 .. Len(live')
            /\ (i + 1) + d = (i + d) + 1
        BY <1>1, <2>12
      <4>2. live'[i] = next[i + d] /\ live'[i + 1] = next[(i + d) + 1]
        BY <2>12, <4>1
      <4> QED
        BY <2>10, <4>1, <4>2
    <3> QED
      BY <2>1, <2>12, <3>1, <3>2 DEF EventsInOrder, LiveHappened
  <2>14. live'[Len(live')] = event
    <3>1. Len(live') \in 1 .. Len(live') /\ Len(live') + d = last + 1
      BY <1>1, <2>12
    <3> QED
      BY <2>7, <2>12, <3>1
  <2>15. Junction'
    <3>1. CASE Tail(queue) = <<>>
      <4>1. event.n = emitted[selected]
        <5>1. Len(queue) - 1 = 0
          BY <2>3, <3>1, EmptySeq
        <5>2. event.n \in Nat /\ event.n + 0 = emitted[selected]
          BY <2>2, <2>8, <5>1, Zenon
        <5> QED
          BY <5>2
      <4> QED
        BY <1>2, <1>3, <2>1, <2>2, <2>4, <2>14, <3>1, <4>1 DEF Junction, Follows
    <3>2. CASE Tail(queue) # <<>>
      <4>1. Tail(queue)[1].n = event.n + 1
        <5>1. Len(queue) - 1 > 0
          BY <2>3, <3>2, EventSequences
        <5>2. Tail(queue)[1] = queue[2] /\ 2 \in 1 .. Len(queue)
          BY <2>2, <2>3, <5>1
        <5>3. queue[2].n \in Nat /\ queue[2].n + (Len(queue) - 2) = emitted[selected]
          BY <2>2, <2>5, <5>2
        <5> QED
          BY <2>2, <2>8, <5>2, <5>3
      <4> QED
        BY <2>2, <2>4, <2>14, <3>2, <4>1 DEF Junction, Follows
    <3> QED
      BY <3>1, <3>2
  <2> QED
    BY <2>6, <2>13, <2>15 DEF OrderInv
<1>13. ASSUME NEW r \in Run, Emit(r) \/ EndRun(r) \/ Announce(r)
       PROVE  OrderInv'
  BY <1>5, <1>11, <1>13 DEF Emit, EndRun, Announce, stream
<1>14. ASSUME NEW t \in Tasks, SelectTask(t) PROVE OrderInv'
  BY <1>5, <1>14 DEF SelectTask, server, stream
<1>15. CASE AnswerPoll \/ Tick \/ DetailArrives \/ RequestFails
  BY <1>5, <1>15
     DEF AnswerPoll, Tick, DetailArrives, RequestFails, server, stream
<1>16. CASE UNCHANGED vars
  BY <1>5, <1>16 DEF vars, server, stream
<1> QED
  BY <1>6, <1>7, <1>8, <1>9, <1>10, <1>12, <1>13, <1>14, <1>15, <1>16 DEF Next

\* The events of a run are shown in their order and once each, however often
\* the stream is lost and whatever the user selects.
THEOREM InOrder == Spec => []EventsInOrder
<1>1. Init => OrderInv
  BY DEF Init, OrderInv, EventsInOrder, QueueInOrder, LiveHappened, Junction
<1>2. OrderInv => EventsInOrder
  BY DEF OrderInv
<1> QED
  BY <1>1, <1>2, OrderStep, Typing, StreamKept, PTL DEF Spec
=============================================================================
