--------------------------- MODULE ReconnectProofs ---------------------------
(***************************************************************************)
(* Theorems about Replay and Reconnect, for a replay window of any         *)
(* capacity and any number of events, approvals, calls, lost connections   *)
(* and restarts.                                                           *)
(***************************************************************************)
EXTENDS Reconnect, SequenceFacts, TLAPS

-----------------------------------------------------------------------------
(* The replay window. *)

Buffers == [next_sequence : Nat \ {0}, events : Seq(Events)]

(* ReplayBuffer::new builds a window. *)
LEMMA EmptyBufferIsAWindow ==
  EmptyBuffer \in Buffers /\ Window(EmptyBuffer)
<1>1. <<>> \in Seq(Events) /\ Len(<<>>) = 0
  BY EmptyType
<1> QED
  BY <1>1, CapacityAssumption DEF EmptyBuffer, Buffers, Window, Latest

(* ReplayBuffer::push keeps the window whole: the pushed event is its      *)
(* newest, and no older event is lost but the one evicted.                 *)
LEMMA PushKeepsTheWindow ==
  ASSUME NEW buffer \in Buffers, Window(buffer),
         NEW event \in Events
  PROVE  /\ Push(buffer, event) \in Buffers
         /\ Window(Push(buffer, event))
         /\ Latest(Push(buffer, event)) = Latest(buffer) + 1
         /\ LET pushed == Push(buffer, event).events
            IN  /\ pushed # <<>>
                /\ pushed[Len(pushed)] =
                     [event EXCEPT !.sequence = buffer.next_sequence]
<1> DEFINE e == [event EXCEPT !.sequence = buffer.next_sequence]
           old == buffer.events
           appended == Append(old, e)
           new == PushedEvents(buffer, e)
           n == buffer.next_sequence
<1>1. n \in Nat \ {0} /\ old \in Seq(Events)
  BY DEF Buffers
<1>2. e \in Events /\ e.sequence = n
  BY <1>1 DEF Events
<1>3. /\ Len(old) \in Nat /\ Len(old) =< Capacity /\ Len(old) =< n - 1
      /\ \A i \in 1..Len(old) : old[i].sequence = n - 1 - Len(old) + i
  BY <1>1, LenType DEF Window, Latest
<1>4. /\ appended \in Seq(Events) /\ Len(appended) = Len(old) + 1
      /\ appended[Len(old) + 1] = e
      /\ \A i \in 1..Len(old) : appended[i] = old[i]
  BY <1>1, <1>2
<1>5. \A i \in 1..Len(appended) : appended[i].sequence = n - Len(appended) + i
  <2> TAKE i \in 1..Len(appended)
  <2> HIDE DEF appended, e, old, n
  <2>1. i \in 1..Len(old) \/ i = Len(old) + 1
    BY <1>3, <1>4
  <2>2. CASE i \in 1..Len(old)
    BY <1>1, <1>3, <1>4, <2>2
  <2>3. CASE i = Len(old) + 1
    BY <1>1, <1>2, <1>3, <1>4, <2>3
  <2> QED
    BY <2>1, <2>2, <2>3
<1>6. /\ new \in Seq(Events) /\ new # <<>>
      /\ Len(new) \in Nat /\ Len(new) =< Capacity /\ Len(new) =< n
      /\ new[Len(new)] = e
      /\ \A i \in 1..Len(new) : new[i].sequence = n - Len(new) + i
  <2>1. CASE Len(appended) > Capacity
    <3>1. new = Tail(appended)
      BY <2>1 DEF PushedEvents
    <3>2. Len(appended) > 1
      BY <2>1, <1>3, <1>4, CapacityAssumption
    <3>3. /\ new \in Seq(Events)
          /\ Len(new) = Len(appended) - 1
          /\ \A i \in 1..Len(new) : new[i] = appended[i + 1]
      <4>1. appended \in Seq(Events) /\ appended # <<>>
        BY <1>4, <3>2
      <4> HIDE DEF new, appended
      <4> QED
        BY <3>1, <4>1, TailElements
    <3> HIDE DEF new, appended
    <3>4. /\ Len(new) = Len(old) /\ Len(old) = Capacity /\ Len(old) > 0
          /\ new # <<>>
      BY <1>3, <1>4, <2>1, <3>2, <3>3, CapacityAssumption
    <3>5. \A i \in 1..Len(new) :
            /\ i + 1 \in 1..Len(appended)
            /\ new[i].sequence = n - Len(appended) + i + 1
      <4> SUFFICES ASSUME NEW i \in 1..Len(new)
                   PROVE  /\ i + 1 \in 1..Len(appended)
                          /\ new[i].sequence = n - Len(appended) + i + 1
        OBVIOUS
      <4>1. i + 1 \in 1..Len(appended)
        BY <1>3, <1>4, <3>3, <3>4
      <4>2. appended[i + 1].sequence = n - Len(appended) + (i + 1)
        BY <1>5, <4>1
      <4>3. new[i] = appended[i + 1]
        BY <3>3
      <4>4. /\ n \in Int /\ Len(appended) \in Int /\ i \in Int
            /\ new[i].sequence = n - Len(appended) + (i + 1)
        BY <1>1, <1>3, <1>4, <4>2, <4>3
      <4> HIDE DEF n
      <4>5. n - Len(appended) + (i + 1) = n - Len(appended) + i + 1
        BY <4>4
      <4> QED
        BY <4>1, <4>4, <4>5
    <3>6. \A i \in 1..Len(new) : new[i].sequence = n - Len(new) + i
      BY <1>1, <1>3, <1>4, <3>3, <3>4, <3>5
    <3>7. new[Len(new)] = e
      BY <1>3, <1>4, <3>3, <3>4
    <3> QED
      BY <1>1, <1>3, <3>3, <3>4, <3>6, <3>7, CapacityAssumption
  <2>2. CASE ~(Len(appended) > Capacity)
    <3>1. new = appended
      BY <2>2 DEF PushedEvents
    <3> HIDE DEF new, appended
    <3>2. appended # <<>> /\ Len(appended) =< Capacity /\ Len(appended) =< n
      BY <1>1, <1>3, <1>4, <2>2, CapacityAssumption
    <3>3. appended[Len(appended)] = e
      BY <1>3, <1>4
    <3> QED
      BY <1>3, <1>4, <1>5, <3>1, <3>2, <3>3
  <2> QED
    BY <2>1, <2>2
<1>7. Push(buffer, event) = [next_sequence |-> n + 1, events |-> new]
  BY DEF Push
<1> DEFINE pushed == Push(buffer, event)
<1>8. /\ pushed.next_sequence = n + 1 /\ pushed.events = new
      /\ pushed = [next_sequence |-> n + 1, events |-> new]
  BY <1>7
<1>9. Latest(buffer) = n - 1 /\ Latest(pushed) = n
  BY <1>1, <1>8 DEF Latest
<1> HIDE DEF new, appended, pushed
<1>10. pushed \in Buffers
  BY <1>1, <1>6, <1>8 DEF Buffers
<1>11. Window(pushed)
  BY <1>1, <1>6, <1>8, <1>9 DEF Window
<1> QED
  BY <1>1, <1>6, <1>8, <1>9, <1>10, <1>11 DEF pushed

(* replay_after, when it does not ask for a resync, returns exactly the    *)
(* events after the cursor: cursor + 1 up to the newest, in order.         *)
LEMMA EventsAfterContinue ==
  ASSUME NEW buffer \in Buffers, Window(buffer),
         NEW after \in Nat, ~ResyncRequired(buffer, after)
  PROVE  /\ EventsAfter(buffer, after) \in Seq(Events)
         /\ Len(EventsAfter(buffer, after)) =
              IF after < Latest(buffer) THEN Latest(buffer) - after ELSE 0
         /\ \A i \in 1..Len(EventsAfter(buffer, after)) :
              EventsAfter(buffer, after)[i].sequence = after + i
<1> DEFINE s == buffer.events
           last == Latest(buffer)
<1>1. last \in Nat /\ s \in Seq(Events)
  BY DEF Buffers, Latest
<1>2. /\ Len(s) \in Nat /\ Len(s) =< last
      /\ last > 0 => s # <<>>
      /\ \A i \in 1..Len(s) : s[i].sequence = last - Len(s) + i
  BY <1>1, LenType DEF Window
<1>3. CASE s = <<>>
  <2>1. last = 0
    BY <1>1, <1>2, <1>3
  <2>2. EventsAfter(buffer, after) = <<>>
    BY <1>3 DEF EventsAfter
  <2> QED
    BY <2>1, <2>2
<1>4. CASE s # <<>>
  <2>1. Len(s) >= 1 /\ Oldest(buffer) = last - Len(s) + 1
    <3>1. Len(s) >= 1
      BY <1>1, <1>4
    <3>2. s[1].sequence = last - Len(s) + 1
      BY <1>2, <3>1
    <3> QED
      BY <3>1, <3>2 DEF Oldest
  <2>2. after + 1 >= Oldest(buffer)
    <3>1. Oldest(buffer) \in Int
      BY <1>1, <1>2, <2>1
    <3>2. ~(after + 1 < Oldest(buffer))
      BY <1>4 DEF ResyncRequired
    <3> QED
      BY <3>1, <3>2
  <2> DEFINE first == IF after < Oldest(buffer) THEN 1
                      ELSE after - Oldest(buffer) + 2
  <2>3. first = after - Oldest(buffer) + 2 /\ first \in Nat \ {0}
    <3> DEFINE oldest == Oldest(buffer)
    <3>1. oldest \in Int /\ after + 1 >= oldest
      BY <1>1, <1>2, <2>1, <2>2
    <3>2. first = IF after < oldest THEN 1 ELSE after - oldest + 2
      OBVIOUS
    <3> HIDE DEF first, oldest, s, last
    <3>3. first = after - oldest + 2 /\ first \in Nat \ {0}
      BY <3>1, <3>2
    <3> QED
      BY <3>3 DEF oldest
  <2>4. EventsAfter(buffer, after) = SubSeq(s, first, Len(s))
    BY <1>4 DEF EventsAfter
  <2> HIDE DEF first, s, last
  <2>5. CASE after < last
    <3>1. first \in 1..Len(s)
      BY <1>1, <1>2, <2>1, <2>3, <2>5
    <3>2. /\ SubSeq(s, first, Len(s)) \in Seq(Events)
          /\ Len(SubSeq(s, first, Len(s))) = Len(s) - first + 1
          /\ \A i \in 1..Len(s) - first + 1 :
               SubSeq(s, first, Len(s))[i] = s[first + i - 1]
      BY <1>1, <3>1, SuffixElements
    <3>3. Len(s) - first + 1 = last - after
      BY <1>1, <1>2, <2>1, <2>3
    <3>4. \A i \in 1..last - after : s[first + i - 1].sequence = after + i
      <4> SUFFICES ASSUME NEW i \in 1..last - after
                   PROVE  s[first + i - 1].sequence = after + i
        OBVIOUS
      <4>1. first + i - 1 \in 1..Len(s)
        BY <1>1, <1>2, <2>3, <3>1, <3>3
      <4>2. s[first + i - 1].sequence = last - Len(s) + (first + i - 1)
        BY <1>2, <4>1
      <4> QED
        BY <1>1, <1>2, <2>1, <2>3, <4>2
    <3> QED
      BY <2>4, <2>5, <3>2, <3>3, <3>4 DEF last
  <2>6. CASE ~(after < last)
    <3>1. first > Len(s)
      BY <1>1, <1>2, <2>1, <2>3, <2>6
    <3>2. SubSeq(s, first, Len(s)) = <<>>
      BY <1>1, <1>2, <2>3, <3>1
    <3> QED
      BY <2>4, <2>6, <3>2 DEF last
  <2> QED
    BY <2>5, <2>6
<1> QED
  BY <1>3, <1>4

-----------------------------------------------------------------------------
(* Type correctness. *)

(* send: the connection's queue takes all the messages or none of them. *)
LEMMA SentType ==
  ASSUME TypeOK, NEW messages \in Seq(Messages)
  PROVE  /\ Sent(messages) \in Seq(Messages)
         /\ broker.output /\ broker.generation = link =>
              Sent(messages) = output \o messages
         /\ ~(broker.output /\ broker.generation = link) =>
              Sent(messages) = output
<1>1. output \in Seq(Messages) /\ output \o messages \in Seq(Messages)
  BY ConcatElements DEF TypeOK, ClientTypeOK
<1> QED
  BY <1>1 DEF Sent

(* Nothing is sent while the client holds no connection. *)
LEMMA SilentWithoutLink ==
  ASSUME TypeOK, link = 0
  PROVE  ~(broker.output /\ broker.generation = link) /\ output = <<>>
BY DEF TypeOK, BrokerTypeOK, ClientTypeOK

(* send, for one message. *)
LEMMA SendType ==
  ASSUME TypeOK, NEW message \in Messages, Send(message)
  PROVE  /\ output' \in Seq(Messages)
         /\ broker.output /\ broker.generation = link =>
              output' = Append(output, message)
         /\ ~(broker.output /\ broker.generation = link) => output' = output
<1>1. <<message>> \in Seq(Messages) /\ output \in Seq(Messages)
  BY AppendType DEF TypeOK, ClientTypeOK
<1>2. output \o <<message>> = Append(output, message)
  BY <1>1
<1> QED
  BY <1>1, <1>2, SentType DEF Send

(* The broker's ClientInput queue when a connection closes: some of its    *)
(* unread frames are lost, and the close follows what is left.             *)
LEMMA CutType ==
  ASSUME TypeOK, NEW k \in 0..Len(input), CutTo(k)
  PROVE  /\ input' \in Seq(Items)
         /\ Len(input') = k + 1 /\ Len(input) \in Nat
         /\ \A i \in 1..k : input'[i] = input[i]
         /\ input'[k + 1] = [kind |-> "closed", generation |-> link]
<1>1. input \in Seq(Items) /\ link \in Nat
  BY DEF TypeOK, BrokerTypeOK, ClientTypeOK
<1> DEFINE kept == SubSeq(input, 1, k)
           closed == [kind |-> "closed", generation |-> link]
<1>2. closed \in Items
  BY <1>1 DEF Items
<1>3. /\ kept \in Seq(Items) /\ Len(kept) = k
      /\ \A i \in 1..k : kept[i] = input[i]
  BY <1>1, PrefixElements
<1>4. input' = Append(kept, closed)
  BY DEF CutTo
<1>5. Len(input) \in Nat
  BY <1>1, LenType
<1> HIDE DEF kept, closed
<1>6. /\ input' \in Seq(Items) /\ Len(input') = k + 1
      /\ input'[k + 1] = closed
      /\ \A i \in 1..k : input'[i] = kept[i]
  BY <1>2, <1>3, <1>4, AppendElements
<1> QED
  BY <1>3, <1>5, <1>6 DEF closed

(* What handle_provider_event forwards and retains. *)
LEMMA PublishType ==
  ASSUME TypeOK, NEW event \in Events, Publish(event)
  PROVE  /\ ReplayTypeOK'
         /\ Latest(replay') = Latest(replay) + 1 /\ Latest(replay) \in Nat
         /\ output' \in Seq(Messages)
         /\ \/ /\ broker.phase = "Ready" /\ broker.output
               /\ broker.generation = link
               /\ \E e \in Events :
                    /\ e.sequence = Latest(replay) + 1
                    /\ e.type = event.type /\ e.approval = event.approval
                    /\ output' = Append(output, EventMessage(e))
            \/ /\ ~(/\ broker.phase = "Ready" /\ broker.output
                    /\ broker.generation = link)
               /\ output' = output
<1> DEFINE pushed == Push(replay, event)
           e == [event EXCEPT !.sequence = replay.next_sequence]
<1>1. replay \in Buffers /\ Window(replay) /\ output \in Seq(Messages)
  BY DEF TypeOK, ReplayTypeOK, ClientTypeOK, Buffers
<1>2. /\ pushed \in Buffers /\ Window(pushed)
      /\ Latest(pushed) = Latest(replay) + 1
      /\ pushed.events[Len(pushed.events)] = e
  BY <1>1, PushKeepsTheWindow
<1>3. replay' = pushed
  BY DEF Publish
<1>4. replay.next_sequence \in Nat \ {0}
  BY <1>1 DEF Buffers
<1>5. Latest(replay) \in Nat /\ replay.next_sequence = Latest(replay) + 1
  BY <1>4 DEF Latest
<1>6. /\ e \in Events /\ e.sequence = Latest(replay) + 1
      /\ e.type = event.type /\ e.approval = event.approval
  BY <1>4, <1>5 DEF Events
<1>7. ReplayTypeOK'
  BY <1>2, <1>3 DEF ReplayTypeOK, Buffers
<1> DEFINE message == EventMessage(e)
<1>8. message \in Messages /\ <<message>> \in Seq(Messages)
  BY <1>6 DEF EventMessage, Messages
<1>9. output' = IF broker.phase = "Ready" THEN Sent(<<message>>) ELSE output
  BY <1>2 DEF Publish
<1>10. output \o <<message>> = Append(output, message)
  BY <1>1, <1>8
<1> HIDE DEF e, pushed, message
<1>11. /\ Sent(<<message>>) \in Seq(Messages)
       /\ broker.output /\ broker.generation = link =>
            Sent(<<message>>) = Append(output, message)
       /\ ~(broker.output /\ broker.generation = link) =>
            Sent(<<message>>) = output
  BY <1>8, <1>10, SentType
<1> QED
  BY <1>1, <1>2, <1>3, <1>5, <1>6, <1>7, <1>9, <1>11 DEF message

(* Reading one item of the ClientInput queue. *)
LEMMA ItemType ==
  ASSUME TypeOK, input # <<>>
  PROVE  /\ Head(input) \in Items /\ Tail(input) \in Seq(Items)
         /\ Head(input).generation \in Nat
         /\ Head(input).kind = "initialize" =>
              /\ Head(input).id \in Nat /\ Head(input).last_sequence \in Nat
         /\ Head(input).kind = "request" => Head(input).id \in Nat
<1>1. Head(input) \in Items /\ Tail(input) \in Seq(Items)
  BY TailType DEF TypeOK, BrokerTypeOK
<1> QED
  BY <1>1 DEF Items

(* Reading one message of the connection. *)
LEMMA MessageType ==
  ASSUME TypeOK, output # <<>>
  PROVE  /\ Head(output) \in Messages /\ Tail(output) \in Seq(Messages)
         /\ Head(output).kind = "event" => Head(output).event \in Events
         /\ Head(output).kind = "response" => Head(output).id \in Nat
         /\ Head(output).kind = "initialized_result" =>
              /\ Head(output).id \in Nat /\ Head(output).latest \in Nat
              /\ Head(output).resync \in BOOLEAN
<1>1. Head(output) \in Messages /\ Tail(output) \in Seq(Messages)
  BY TailType DEF TypeOK, ClientTypeOK
<1> QED
  BY <1>1 DEF Messages

(* What broker.replay_after is asked for and answers is well formed. *)
LEMMA ReplayedType ==
  ASSUME TypeOK, NEW cursor \in Nat
  PROVE  /\ Replayed(cursor) \in Seq(Messages)
         /\ ResyncRequired(replay, cursor) => Replayed(cursor) = <<>>
         /\ ~ResyncRequired(replay, cursor) =>
              /\ Len(Replayed(cursor)) =
                   IF cursor < Latest(replay) THEN Latest(replay) - cursor
                                              ELSE 0
              /\ \A i \in 1..Len(Replayed(cursor)) :
                   /\ Replayed(cursor)[i].kind = "event"
                   /\ Replayed(cursor)[i].event.sequence = cursor + i
<1>1. replay \in Buffers /\ Window(replay)
  BY DEF TypeOK, ReplayTypeOK, Buffers
<1>2. CASE ResyncRequired(replay, cursor)
  <2>1. Replayed(cursor) = <<>>
    BY <1>2 DEF Replayed
  <2> QED
    BY <1>2, <2>1, EmptyType
<1>3. CASE ~ResyncRequired(replay, cursor)
  <2> DEFINE events == EventsAfter(replay, cursor)
  <2>1. /\ events \in Seq(Events)
        /\ Len(events) = IF cursor < Latest(replay)
                         THEN Latest(replay) - cursor ELSE 0
        /\ \A i \in 1..Len(events) : events[i].sequence = cursor + i
    BY <1>1, <1>3, EventsAfterContinue
  <2>2. Replayed(cursor) = [i \in 1..Len(events) |-> EventMessage(events[i])]
    BY <1>3 DEF Replayed
  <2>3. Len(events) \in Nat /\ \A i \in 1..Len(events) : events[i] \in Events
    BY <2>1
  <2> HIDE DEF events
  <2>4. \A i \in 1..Len(events) : EventMessage(events[i]) \in Messages
    BY <2>3 DEF EventMessage, Messages
  <2>5. Replayed(cursor) \in Seq(Messages) /\ Len(Replayed(cursor)) = Len(events)
    BY <2>2, <2>3, <2>4
  <2>6. \A i \in 1..Len(events) :
          /\ Replayed(cursor)[i].kind = "event"
          /\ Replayed(cursor)[i].event.sequence = cursor + i
    BY <2>1, <2>2 DEF EventMessage
  <2> QED
    BY <1>3, <2>1, <2>5, <2>6
<1> QED
  BY <1>2, <1>3

(* What the steps of client.lua's connection do to its state name.         *)
Conns == [state : Connection!ClientStates, pipe : BOOLEAN, timer : BOOLEAN,
          attempt : Nat]

Linked(c) == c.state \in {"negotiating", "connected"}

LEMMA ConnectionSteps ==
  /\ Connection!FreshClient \in Conns /\ ~Linked(Connection!FreshClient)
  /\ \A c \in Conns :
       /\ Connection!Started(c) \in Conns
       /\ Linked(Connection!Started(c)) <=> Linked(c)
       /\ Linked(c) => Connection!Started(c) = c
       /\ Connection!TimerFired(c) \in Conns
       /\ Connection!TimerFired(c).state = c.state
       /\ Connection!Negotiating(c) \in Conns
       /\ Connection!Negotiating(c).state = "negotiating"
       /\ Connection!Ready(c) \in Conns
       /\ Connection!Ready(c).state = "connected"
       /\ Connection!Lost(c) \in Conns
       /\ ~Linked(Connection!Lost(c))
<1>1. Connection!FreshClient \in Conns /\ ~Linked(Connection!FreshClient)
  BY DEF Connection!FreshClient, Conns, Linked, Connection!ClientStates
<1>2. ASSUME NEW c \in Conns
      PROVE  /\ Connection!Started(c) \in Conns
             /\ Linked(Connection!Started(c)) <=> Linked(c)
             /\ Linked(c) => Connection!Started(c) = c
             /\ Connection!TimerFired(c) \in Conns
             /\ Connection!TimerFired(c).state = c.state
             /\ Connection!Negotiating(c) \in Conns
             /\ Connection!Negotiating(c).state = "negotiating"
             /\ Connection!Ready(c) \in Conns
             /\ Connection!Ready(c).state = "connected"
  BY <1>2 DEF Connection!Started, Connection!UnderWay, Connection!Opening,
     Connection!TimerFired, Connection!Negotiating, Connection!Ready, Conns,
     Linked, Connection!ClientStates
<1>3. ASSUME NEW c \in Conns
      PROVE  /\ Connection!LostOnce(c) \in Conns
             /\ ~Linked(Connection!LostOnce(c))
  <2> DEFINE down == [c EXCEPT !.pipe = FALSE, !.state = "disconnected"]
  <2>1. down \in Conns /\ down.state = "disconnected"
    BY DEF Conns, Connection!ClientStates
  <2>2. Connection!LostOnce(c) = Connection!Scheduled(down)
    BY DEF Connection!LostOnce
  <2> HIDE DEF down
  <2>3. CASE down.timer
    BY <2>1, <2>2, <2>3 DEF Connection!Scheduled, Linked
  <2>4. CASE ~down.timer
    <3> DEFINE again == down.attempt < MaxAttempts
    <3>1. again \in BOOLEAN /\ down.attempt + 1 \in Nat
      BY <2>1, AttemptsAssumption DEF Conns
    <3>2. Connection!LostOnce(c) =
            [down EXCEPT !.attempt = @ + 1, !.timer = again,
                         !.state = IF again THEN "reconnecting" ELSE "failed"]
      BY <2>2, <2>4 DEF Connection!Scheduled
    <3> HIDE DEF again
    <3> QED
      BY <2>1, <3>1, <3>2 DEF Conns, Linked, Connection!ClientStates
  <2> QED
    BY <2>3, <2>4
<1>4. ASSUME NEW c \in Conns
      PROVE  Connection!Lost(c) \in Conns /\ ~Linked(Connection!Lost(c))
  BY <1>3 DEF Connection!Lost
<1> QED
  BY <1>1, <1>2, <1>4

(* Init is well typed. *)
LEMMA InitType ==
  Init => TypeOK
<1> SUFFICES ASSUME Init PROVE TypeOK
  OBVIOUS
<1>1. ReplayTypeOK
  BY EmptyBufferIsAWindow DEF Init, ReplayTypeOK, Buffers
<1>2. BrokerTypeOK
  BY EmptyType DEF Init, BrokerTypeOK, NewBroker, Phases
<1>3. ClientTypeOK
  <2>1. /\ client = NewClient /\ model = NewModel /\ link = 0
        /\ accepted = 0 /\ output = <<>> /\ whole = TRUE
    BY DEF Init
  <2>2. /\ Connection!FreshClient \in Conns
        /\ ~Linked(Connection!FreshClient)
    BY ConnectionSteps
  <2> QED
    BY <2>1, <2>2, EmptyType
       DEF ClientTypeOK, NewClient, NewModel, Conns, Linked
<1> QED
  BY <1>1, <1>2, <1>3 DEF TypeOK

(* Provider events and task answers keep the types. *)
LEMMA ProviderTypes ==
  ASSUME TypeOK,
         \/ ProviderNote
         \/ \E a \in Approvals : ApprovalRequested(a) \/ ApprovalResolved(a)
         \/ \E request \in owed : TaskAnswers(request)
  PROVE  TypeOK'
<1>1. ASSUME NEW event \in Events, Publish(event),
             UNCHANGED <<broker, owed, input, accepted, link, client, model,
                         whole>>,
             approval' \in [Approvals -> {"new", "open", "denying", "closed"}]
      PROVE  TypeOK'
  <2>1. ReplayTypeOK' /\ output' \in Seq(Messages)
    BY <1>1, PublishType
  <2>2. link' = 0 => output' = <<>>
    BY <1>1, PublishType, SilentWithoutLink
  <2>3. BrokerTypeOK' /\ ClientTypeOK'
    BY <1>1, <2>1, <2>2 DEF TypeOK, BrokerTypeOK, ClientTypeOK
  <2> QED
    BY <2>1, <2>3 DEF TypeOK
<1>2. approval \in [Approvals -> {"new", "open", "denying", "closed"}]
  BY DEF TypeOK, BrokerTypeOK
<1>3. CASE ProviderNote
  <2>1. Event("note", None) \in Events
    BY DEF Event, Events
  <2> QED
    BY <1>1, <1>2, <1>3, <2>1 DEF ProviderNote
<1>4. ASSUME NEW a \in Approvals, ApprovalRequested(a) \/ ApprovalResolved(a)
      PROVE  TypeOK'
  <2>1. /\ Event("approval.requested", a) \in Events
        /\ Event("approval.resolved", a) \in Events
    BY DEF Event, Events
  <2>2. approval' \in [Approvals -> {"new", "open", "denying", "closed"}]
    BY <1>2, <1>4 DEF ApprovalRequested, ApprovalResolved, AskedStatus
  <2> QED
    BY <1>1, <1>4, <2>1, <2>2 DEF ApprovalRequested, ApprovalResolved
<1>5. ASSUME NEW request \in owed, TaskAnswers(request)
      PROVE  TypeOK'
  <2>1. /\ output' \in Seq(Messages) /\ owed' \subseteq Nat \X Nat
        /\ broker' \in [phase : Phases, generation : Nat, cursor : Nat,
                        output : BOOLEAN, next_request : Nat,
                        pending : SUBSET Registered]
    <3>1. /\ output \in Seq(Messages) /\ owed \subseteq Nat \X Nat
          /\ broker \in [phase : Phases, generation : Nat,
                         cursor : Nat, output : BOOLEAN, next_request : Nat,
                         pending : SUBSET Registered]
      BY DEF TypeOK, BrokerTypeOK, ClientTypeOK
    <3>2. owed' \subseteq Nat \X Nat
      BY <1>5, <3>1 DEF TaskAnswers
    <3>3. CASE UNCHANGED <<broker, output>>
      BY <3>1, <3>2, <3>3
    <3>4. ASSUME NEW p \in broker.pending,
                 broker' = [broker EXCEPT !.pending = @ \ {p}],
                 IF p.generation = broker.generation
                 THEN Send(Response(p.public_id, p.origin))
                 ELSE UNCHANGED output
          PROVE  output' \in Seq(Messages) /\ broker' \in
                   [phase : Phases, generation : Nat, cursor : Nat,
                    output : BOOLEAN, next_request : Nat,
                    pending : SUBSET Registered]
      <4>1. p \in Registered
        BY <3>1
      <4>2. Response(p.public_id, p.origin) \in Messages
        BY <4>1 DEF Registered, Response, Messages
      <4>3. output' \in Seq(Messages)
        BY <3>1, <3>4, <4>2, SendType
      <4>4. broker.pending \ {p} \in SUBSET Registered
        BY <3>1
      <4> QED
        BY <3>1, <3>4, <4>3, <4>4
    <3> QED
      BY <1>5, <3>2, <3>3, <3>4 DEF TaskAnswers
  <2>2. UNCHANGED <<replay, approval, input, accepted, link, client, model,
                    whole>>
    BY <1>5 DEF TaskAnswers
  <2>3. ReplayTypeOK'
    BY <2>2 DEF TypeOK, ReplayTypeOK, Window, Latest
  <2>5. link = 0 => output' = <<>>
    BY <1>5, SilentWithoutLink DEF TaskAnswers, Send, Sent
  <2>6. broker'.output = broker.output /\ broker'.generation = broker.generation
    BY <1>5 DEF TaskAnswers, TypeOK, BrokerTypeOK
  <2>4. BrokerTypeOK' /\ ClientTypeOK'
    BY <2>1, <2>2, <2>5, <2>6 DEF TypeOK, BrokerTypeOK, ClientTypeOK
  <2> QED
    BY <2>3, <2>4 DEF TypeOK
<1> QED
  BY <1>3, <1>4, <1>5

(* The handlers of the broker's client input keep the types. *)
LEMMA BrokerReadsTypes ==
  ASSUME TypeOK, BrokerReads
  PROVE  TypeOK'
<1> DEFINE Brokers == [phase : Phases, generation : Nat, cursor : Nat,
                       output : BOOLEAN, next_request : Nat,
                       pending : SUBSET Registered]
<1>1. /\ broker \in Brokers /\ accepted \in Nat
      /\ broker.generation \in Nat
      /\ owed \subseteq Nat \X Nat /\ output \in Seq(Messages)
      /\ approval \in [Approvals -> {"new", "open", "denying", "closed"}]
  BY DEF TypeOK, BrokerTypeOK, ClientTypeOK
<1>2. SUFFICES /\ input' \in Seq(Items)
               /\ broker' \in Brokers
               /\ owed' \subseteq Nat \X Nat
               /\ output' \in Seq(Messages)
               /\ approval' \in
                    [Approvals -> {"new", "open", "denying", "closed"}]
               /\ UNCHANGED <<replay, accepted, link, client, model>>
               /\ whole' \in BOOLEAN
  <2>3. link = 0 => output' = <<>>
    BY SilentWithoutLink DEF BrokerReads, HandleConnected, HandleClosed,
       HandleInitialize, HandleInitialized, HandleRequest, Send, Sent
  <2>4. broker'.output => broker'.generation # 0
    <3>1. broker.generation \in Nat /\ (broker.output => broker.generation # 0)
      BY DEF TypeOK, BrokerTypeOK
    <3>2. CASE HandleConnected
      <4>1. Head(input).generation \in Nat
        BY <3>2, ItemType DEF HandleConnected, Item
      <4>2. Head(input).generation > broker.generation =>
              Head(input).generation # 0
        BY <3>1, <4>1
      <4> QED
        BY <1>1, <3>1, <3>2, <4>1, <4>2 DEF HandleConnected
    <3>3. CASE HandleClosed
      BY <1>1, <3>1, <3>3 DEF HandleClosed
    <3>4. CASE HandleInitialize \/ HandleInitialized \/ HandleRequest
      BY <1>1, <3>1, <3>4
         DEF HandleInitialize, HandleInitialized, HandleRequest
    <3> QED
      BY <3>2, <3>3, <3>4 DEF BrokerReads
  <2> SUFFICES ASSUME /\ input' \in Seq(Items)
                      /\ broker' \in Brokers
                      /\ owed' \subseteq Nat \X Nat
                      /\ output' \in Seq(Messages)
                      /\ approval' \in
                           [Approvals -> {"new", "open", "denying", "closed"}]
                      /\ UNCHANGED <<replay, accepted, link, client, model>>
                      /\ whole' \in BOOLEAN
               PROVE  TypeOK'
    OBVIOUS
  <2>1. ReplayTypeOK'
    BY DEF TypeOK, ReplayTypeOK, Window, Latest
  <2>2. BrokerTypeOK' /\ ClientTypeOK'
    BY <2>3, <2>4 DEF TypeOK, BrokerTypeOK, ClientTypeOK
  <2> QED
    BY <2>1, <2>2 DEF TypeOK
<1>3. whole \in BOOLEAN
  BY DEF TypeOK, ClientTypeOK
<1>4. CASE HandleConnected
  <2>1. /\ Head(input).generation \in Nat /\ Tail(input) \in Seq(Items)
        /\ input' = Tail(input)
    BY <1>4, ItemType DEF HandleConnected, Item
  <2>2. broker' \in Brokers
    BY <1>1, <1>4, <2>1 DEF HandleConnected, Phases
  <2>3. UNCHANGED <<replay, owed, approval, accepted, link, output, client,
                    model, whole>>
    BY <1>4 DEF HandleConnected
  <2> QED
    BY <1>1, <1>3, <2>1, <2>2, <2>3
<1>5. CASE HandleClosed
  <2>1. /\ Tail(input) \in Seq(Items) /\ input' = Tail(input)
    BY <1>5, ItemType DEF HandleClosed, Item
  <2> DEFINE remaining ==
               {p \in broker.pending : p.generation # broker.generation}
  <2>2. broker' \in Brokers
    <3>1. \/ broker' = broker
          \/ broker' = [broker EXCEPT !.output = FALSE,
                                      !.phase = "AwaitInitialize",
                                      !.cursor = 0, !.pending = remaining]
      BY <1>5 DEF HandleClosed
    <3>2. remaining \in SUBSET Registered
      BY <1>1
    <3>3. ASSUME NEW r \in SUBSET Registered
          PROVE  [broker EXCEPT !.output = FALSE,
                                !.phase = "AwaitInitialize",
                                !.cursor = 0, !.pending = r] \in Brokers
      BY <1>1 DEF Phases
    <3> QED
      BY <1>1, <3>1, <3>2, <3>3
  <2>3. approval' \in [Approvals -> {"new", "open", "denying", "closed"}]
    BY <1>1, <1>5 DEF HandleClosed, ClientGone
  <2>4. UNCHANGED <<replay, owed, accepted, link, output, client, model,
                    whole>>
    BY <1>5 DEF HandleClosed
  <2> QED
    BY <1>1, <1>3, <2>1, <2>2, <2>3, <2>4
<1>6. CASE HandleInitialize
  <2>1. /\ Head(input).id \in Nat /\ Head(input).last_sequence \in Nat
        /\ Tail(input) \in Seq(Items) /\ input' = Tail(input)
    BY <1>6, ItemType DEF HandleInitialize, Item
  <2>2. Latest(replay) \in Nat
    BY DEF TypeOK, ReplayTypeOK, Latest
  <2> DEFINE resync == ResyncRequired(replay, Head(input).last_sequence)
             result == InitializeResult(Head(input).id, resync, Latest(replay))
  <2>3. resync \in BOOLEAN
    BY DEF ResyncRequired
  <2>4. result \in Messages
    BY <2>1, <2>2, <2>3 DEF InitializeResult, Messages
  <2>5. \/ Send(result) \/ output' = output
    BY <1>6 DEF HandleInitialize
  <2> HIDE DEF result
  <2>6. output' \in Seq(Messages)
    BY <1>1, <2>4, <2>5, SendType
  <2> HIDE DEF resync
  <2>7. broker' \in Brokers
    <3>1. \/ broker' = [broker EXCEPT
                !.phase = "AwaitInitialized",
                !.cursor = IF resync THEN Latest(replay)
                                     ELSE Head(input).last_sequence]
          \/ broker' = broker
      BY <1>6 DEF HandleInitialize, resync
    <3> QED
      BY <1>1, <2>1, <2>2, <3>1 DEF Phases
  <2>8. UNCHANGED <<replay, owed, approval, accepted, link, client, model,
                    whole>>
    BY <1>6 DEF HandleInitialize
  <2> QED
    BY <1>1, <1>3, <2>1, <2>6, <2>7, <2>8
<1>7. CASE HandleInitialized
  <2>1. Tail(input) \in Seq(Items) /\ input' = Tail(input)
    BY <1>7, ItemType DEF HandleInitialized, Item
  <2>2. output' \in Seq(Messages) /\ whole' \in BOOLEAN
    <3>1. Replayed(broker.cursor) \in Seq(Messages)
      BY <1>1, ReplayedType
    <3>2. Sent(Replayed(broker.cursor)) \in Seq(Messages)
      BY <3>1, SentType
    <3> QED
      BY <1>1, <1>3, <1>7, <3>2 DEF HandleInitialized
  <2>3. broker' \in Brokers
    BY <1>1, <1>7 DEF HandleInitialized, Phases
  <2>4. UNCHANGED <<replay, owed, approval, accepted, link, client, model>>
    BY <1>7 DEF HandleInitialized
  <2> QED
    BY <1>1, <2>1, <2>2, <2>3, <2>4
<1>8. CASE HandleRequest
  <2>1. /\ Head(input).id \in Nat /\ Head(input).generation \in Nat
        /\ Tail(input) \in Seq(Items) /\ input' = Tail(input)
    BY <1>8, ItemType DEF HandleRequest, Item
  <2> DEFINE registered == RuntimeRequest(Head(input))
  <2>2. registered \in Registered /\ registered.request \in Nat \X Nat
    BY <1>1, <2>1 DEF RuntimeRequest, Registered
  <2>3. Response(Head(input).id, Head(input).generation) \in Messages
    BY <2>1 DEF Response, Messages
  <2>4. output' \in Seq(Messages)
    BY <1>1, <1>8, <2>3, SendType DEF HandleRequest
  <2>5. /\ \/ broker' = [broker EXCEPT !.next_request = @ + 1,
                                       !.pending = @ \cup {registered}]
           \/ broker' = broker
        /\ owed' = owed \cup {registered.request} \/ owed' = owed
    BY <1>8 DEF HandleRequest
  <2> HIDE DEF registered
  <2>6. broker' \in Brokers /\ owed' \subseteq Nat \X Nat
    <3>1. /\ broker.pending \cup {registered} \in SUBSET Registered
          /\ broker.next_request + 1 \in Nat
      BY <1>1, <2>2
    <3> QED
      BY <1>1, <2>2, <2>5, <3>1
  <2>7. UNCHANGED <<replay, approval, accepted, link, client, model, whole>>
    BY <1>8 DEF HandleRequest
  <2> QED
    BY <1>1, <1>3, <2>1, <2>4, <2>6, <2>7
<1> QED
  BY <1>4, <1>5, <1>6, <1>7, <1>8 DEF BrokerReads

(* The steps of the client keep the types. *)
LEMMA ClientTypes ==
  ASSUME TypeOK, Start \/ TimerFires \/ Connects \/ Call \/ ClientReads
  PROVE  TypeOK'
<1> DEFINE Clients == [conn : Conns, last_sequence : Nat, next_id : Nat,
                       pending : SUBSET Nat]
           Models == [last_sequence : Nat, sequence_gap : BOOLEAN,
                      pending : SUBSET Approvals]
<1>1. /\ client \in Clients /\ model \in Models /\ accepted \in Nat
      /\ client.last_sequence = model.last_sequence
      /\ link \in {0, accepted}
      /\ Linked(client.conn) <=> (link # 0)
      /\ input \in Seq(Items) /\ output \in Seq(Messages)
      /\ link = 0 => output = <<>>
      /\ whole \in BOOLEAN
  BY DEF TypeOK, BrokerTypeOK, ClientTypeOK, Conns, Linked
<1>2. SUFFICES /\ client' \in Clients /\ model' \in Models
               /\ client'.last_sequence = model'.last_sequence
               /\ link' \in {0, accepted'} /\ accepted' \in Nat
               /\ Linked(client'.conn) <=> (link' # 0)
               /\ input' \in Seq(Items) /\ output' \in Seq(Messages)
               /\ link' = 0 => output' = <<>>
               /\ UNCHANGED <<replay, broker, owed, approval>>
               /\ whole' \in BOOLEAN
  <2> SUFFICES ASSUME
               /\ client' \in Clients /\ model' \in Models
               /\ client'.last_sequence = model'.last_sequence
               /\ link' \in {0, accepted'} /\ accepted' \in Nat
               /\ Linked(client'.conn) <=> (link' # 0)
               /\ input' \in Seq(Items) /\ output' \in Seq(Messages)
               /\ link' = 0 => output' = <<>>
               /\ UNCHANGED <<replay, broker, owed, approval>>
               /\ whole' \in BOOLEAN
               PROVE  TypeOK'
    OBVIOUS
  <2>1. ReplayTypeOK'
    BY DEF TypeOK, ReplayTypeOK, Window, Latest
  <2>2. BrokerTypeOK' /\ ClientTypeOK'
    BY DEF TypeOK, BrokerTypeOK, ClientTypeOK, Conns, Linked
  <2> QED
    BY <2>1, <2>2 DEF TypeOK
<1>9. /\ client.next_id + 1 \in Nat
      /\ client.pending \cup {client.next_id} \in SUBSET Nat
  BY <1>1
<1>10. CASE Start \/ TimerFires
  <2>1. PICK conn \in {Connection!Started(client.conn),
                       Connection!TimerFired(client.conn)} :
          client' = [client EXCEPT !.conn = conn]
    BY <1>10 DEF Start, TimerFires
  <2>2. conn \in Conns /\ (Linked(conn) <=> Linked(client.conn))
    BY <1>1, ConnectionSteps DEF Linked
  <2>3. /\ client' \in Clients /\ client'.conn = conn
        /\ client'.last_sequence = client.last_sequence
    BY <1>1, <2>1, <2>2
  <2>4. UNCHANGED <<replay, broker, owed, approval, input, accepted, link,
                    output, model, whole>>
    BY <1>10 DEF Start, TimerFires
  <2> QED
    BY <1>1, <2>2, <2>3, <2>4
<1>3. CASE Connects
  <2> DEFINE g == accepted + 1
             connected == [kind |-> "connected", generation |-> g]
             initialize == [kind |-> "initialize", generation |-> g,
                            id |-> client.next_id,
                            last_sequence |-> client.last_sequence]
  <2>1. g \in Nat /\ link' = g /\ accepted' = g /\ g # 0
    BY <1>1, <1>3 DEF Connects, Opening, NextGeneration
  <2>2. connected \in Items /\ initialize \in Items
    BY <1>1, <2>1 DEF Items
  <2>3. input' = input \o <<connected, initialize>>
    BY <1>3, <2>1 DEF Connects
  <2> HIDE DEF connected, initialize
  <2>4. <<connected, initialize>> \in Seq(Items)
    BY <2>2
  <2>5. input' \in Seq(Items)
    BY <1>1, <2>3, <2>4, ConcatElements
  <2>8. /\ Connection!Negotiating(client.conn) \in Conns
        /\ Linked(Connection!Negotiating(client.conn))
    BY <1>1, ConnectionSteps DEF Linked
  <2>6. /\ client' \in Clients /\ Linked(client'.conn)
        /\ client'.last_sequence = client.last_sequence
    BY <1>1, <1>3, <1>9, <2>8 DEF Connects
  <2>7. UNCHANGED <<replay, broker, owed, approval, output, model, whole>>
    BY <1>3 DEF Connects
  <2> QED
    BY <1>1, <2>1, <2>5, <2>6, <2>7
<1>4. CASE Call
  <2> DEFINE request == [kind |-> "request", generation |-> link,
                         id |-> client.next_id]
  <2>1. request \in Items /\ input' = Append(input, request)
    BY <1>1, <1>4 DEF Call, Items
  <2> HIDE DEF request
  <2>2. input' \in Seq(Items)
    BY <1>1, <2>1, AppendElements
  <2>3. /\ client' \in Clients /\ client'.conn = client.conn
        /\ client'.last_sequence = client.last_sequence
    BY <1>1, <1>4, <1>9 DEF Call
  <2>4. UNCHANGED <<replay, broker, owed, approval, accepted, link, output,
                    model, whole>>
    BY <1>4 DEF Call
  <2> QED
    BY <1>1, <2>2, <2>3, <2>4
<1>5. ASSUME ClientReads
      PROVE  output # <<>> /\ output' = Tail(output) /\ link # 0
  <2>1. output # <<>> /\ output' = Tail(output)
    BY <1>5 DEF ClientReads, ReceiveInitialized, ReceiveResponse, ReceiveEvent,
                Message
  <2> QED
    BY <1>1, <2>1
<1>6. CASE ReceiveInitialized
  <2> DEFINE result == Head(output)
  <2>1. /\ result.id \in Nat /\ result.latest \in Nat
        /\ result.resync \in BOOLEAN
        /\ output' \in Seq(Messages)
    BY <1>5, <1>6, MessageType DEF ClientReads, ReceiveInitialized, Message
  <2>7. /\ Connection!Ready(client.conn) \in Conns
        /\ Linked(Connection!Ready(client.conn))
    BY <1>1, ConnectionSteps DEF Linked
  <2>2. /\ client' \in Clients /\ Linked(client'.conn)
        /\ client'.last_sequence = IF result.resync THEN result.latest
                                   ELSE client.last_sequence
    BY <1>1, <1>6, <2>1, <2>7 DEF ReceiveInitialized
  <2>3. /\ model' \in Models
        /\ model'.last_sequence = IF result.resync THEN result.latest
                                  ELSE model.last_sequence
    BY <1>1, <1>6, <2>1 DEF ReceiveInitialized, BeginResync
  <2>4. link # 0
    BY <1>1, <1>5, <1>6 DEF ClientReads
  <2>5. input' \in Seq(Items)
    <3>1. [kind |-> "initialized", generation |-> link] \in Items
      BY <1>1 DEF Items
    <3> QED
      BY <1>1, <1>6, <3>1, AppendElements DEF ReceiveInitialized
  <2>6. UNCHANGED <<replay, broker, owed, approval, accepted, link>>
        /\ whole' \in BOOLEAN
    BY <1>1, <1>6, <2>1 DEF ReceiveInitialized
  <2> QED
    BY <1>1, <2>1, <2>2, <2>3, <2>4, <2>5, <2>6
<1>7. CASE ReceiveResponse
  <2>1. output' \in Seq(Messages)
    BY <1>5, <1>7, MessageType DEF ClientReads
  <2>2. /\ client' \in Clients /\ client'.conn = client.conn
        /\ client'.last_sequence = client.last_sequence
    BY <1>1, <1>7 DEF ReceiveResponse
  <2>3. UNCHANGED <<replay, broker, owed, approval, input, accepted, link,
                    model, whole>>
    BY <1>7 DEF ReceiveResponse
  <2> QED
    BY <1>1, <1>5, <1>7, <2>1, <2>2, <2>3 DEF ClientReads
<1>8. CASE ReceiveEvent
  <2> DEFINE event == Head(output).event
  <2>1. event \in Events /\ output' \in Seq(Messages)
    BY <1>5, <1>8, MessageType DEF ClientReads, ReceiveEvent, Message
  <2>2. /\ event.sequence \in Nat
        /\ event.type \in {"approval.requested", "approval.resolved"} =>
             event.approval \in Approvals
    BY <2>1 DEF Events
  <2>3. Projected(model.pending, event) \in SUBSET Approvals
    BY <1>1, <2>2 DEF Projected
  <2>4. /\ client' \in Clients /\ client'.conn = client.conn
        /\ client'.last_sequence = IF event.sequence > client.last_sequence
                                   THEN event.sequence
                                   ELSE client.last_sequence
    BY <1>1, <1>8, <2>2 DEF ReceiveEvent
  <2>5. /\ model' \in Models
        /\ model'.last_sequence = IF event.sequence =< model.last_sequence
                                  THEN model.last_sequence
                                  ELSE event.sequence
    <3>1. model' = Applied(event)
      BY <1>8 DEF ReceiveEvent
    <3> HIDE DEF event
    <3> QED
      BY <1>1, <2>2, <2>3, <3>1 DEF Applied
  <2>6. UNCHANGED <<replay, broker, owed, approval, input, accepted, link,
                    whole>>
    BY <1>8 DEF ReceiveEvent
  <2> QED
    BY <1>1, <1>5, <1>8, <2>1, <2>2, <2>4, <2>5, <2>6 DEF ClientReads
<1> QED
  BY <1>3, <1>4, <1>6, <1>7, <1>8, <1>10 DEF ClientReads

(* Lost and refused connections and restarts keep the types. *)
LEMMA FailureTypes ==
  ASSUME TypeOK,
         ConnectionLost \/ ConnectionRefused \/ NvimRestart \/ BrokerRestart
  PROVE  TypeOK'
<1> DEFINE Clients == [conn : Conns, last_sequence : Nat, next_id : Nat,
                       pending : SUBSET Nat]
           Models == [last_sequence : Nat, sequence_gap : BOOLEAN,
                      pending : SUBSET Approvals]
<1>1. /\ client \in Clients /\ model \in Models
      /\ client.last_sequence = model.last_sequence
      /\ whole \in BOOLEAN /\ input \in Seq(Items)
      /\ output \in Seq(Messages)
      /\ model.last_sequence \in Nat
      /\ Linked(client.conn) <=> (link # 0)
      /\ link = 0 => output = <<>>
      /\ approval \in [Approvals -> {"new", "open", "denying", "closed"}]
  BY DEF TypeOK, BrokerTypeOK, ClientTypeOK, Conns, Linked
<1>2. ASSUME LoseConnection
      PROVE  /\ client' \in Clients /\ ~Linked(client'.conn)
             /\ model' \in Models
             /\ client'.last_sequence = model'.last_sequence
             /\ link' = 0 /\ output' = <<>> /\ output' \in Seq(Messages)
  <2>1. /\ Connection!Lost(client.conn) \in Conns
        /\ ~Linked(Connection!Lost(client.conn))
    BY <1>1, ConnectionSteps
  <2> QED
    BY <1>1, <1>2, <2>1, EmptyType DEF LoseConnection
<1>3. /\ NewClient \in Clients /\ ~Linked(NewClient.conn)
      /\ NewModel \in Models /\ NewClient.last_sequence = 0
      /\ NewModel.last_sequence = 0
  BY ConnectionSteps DEF NewClient, NewModel
<1>5. CASE ConnectionLost \/ ConnectionRefused \/ NvimRestart
  <2>1. UNCHANGED <<replay, broker, owed, approval, accepted>>
    BY <1>5 DEF ConnectionLost, ConnectionRefused, NvimRestart
  <2>2. input' \in Seq(Items)
    BY <1>1, <1>5, CutType DEF ConnectionLost, ConnectionRefused, NvimRestart
  <2>3. /\ client' \in Clients /\ ~Linked(client'.conn)
        /\ model' \in Models
        /\ client'.last_sequence = model'.last_sequence
        /\ link' = 0 /\ output' = <<>> /\ output' \in Seq(Messages)
        /\ whole' \in BOOLEAN
    <3>1. CASE ConnectionLost \/ ConnectionRefused
      BY <1>1, <1>2, <3>1 DEF ConnectionLost, ConnectionRefused
    <3>2. CASE NvimRestart
      BY <1>3, <3>2, EmptyType DEF NvimRestart
    <3> QED
      BY <1>5, <3>1, <3>2
  <2>4. ReplayTypeOK'
    BY <2>1 DEF TypeOK, ReplayTypeOK, Window, Latest
  <2>5. BrokerTypeOK' /\ ClientTypeOK'
    BY <2>1, <2>2, <2>3
       DEF TypeOK, BrokerTypeOK, ClientTypeOK, Conns, Linked
  <2> QED
    BY <2>4, <2>5 DEF TypeOK
<1>6. CASE BrokerRestart
  <2>1. /\ replay' = EmptyBuffer /\ broker' = NewBroker /\ owed' = {}
        /\ input' = <<>> /\ accepted' = 0
        /\ whole' = (whole /\ client.last_sequence = 0)
    BY <1>6 DEF BrokerRestart
  <2>2. approval' \in [Approvals -> {"new", "open", "denying", "closed"}]
    BY <1>6 DEF BrokerRestart
  <2>3. ReplayTypeOK'
    <3>1. EmptyBuffer \in Buffers /\ Window(EmptyBuffer)
      BY EmptyBufferIsAWindow
    <3> QED
      BY <2>1, <3>1 DEF ReplayTypeOK, Buffers
  <2>4. BrokerTypeOK'
    BY <2>1, <2>2, EmptyType DEF BrokerTypeOK, NewBroker, Phases
  <2>5. /\ client' \in Clients /\ ~Linked(client'.conn)
        /\ model' \in Models
        /\ client'.last_sequence = model'.last_sequence
        /\ link' = 0 /\ output' = <<>> /\ output' \in Seq(Messages)
    BY <1>1, <1>2, <1>6 DEF BrokerRestart
  <2>6. ClientTypeOK'
    BY <1>1, <2>1, <2>5 DEF ClientTypeOK, Conns, Linked
  <2> QED
    BY <2>3, <2>4, <2>6 DEF TypeOK
<1> QED
  BY <1>5, <1>6

(* With a lost connection go the link, what was on its way and what the    *)
(* model showed; the cursor stays unless Neovim goes too.                  *)
LEMMA LossForgets ==
  ASSUME TypeOK,
         ConnectionLost \/ ConnectionRefused \/ NvimRestart \/ BrokerRestart
  PROVE  /\ link' = 0 /\ output' = <<>>
         /\ \/ NvimRestart
            \/ /\ model'.last_sequence = model.last_sequence
               /\ model'.sequence_gap = model.sequence_gap
         /\ model'.pending \subseteq model.pending
         /\ link # 0 => model'.pending = {}
<1>1. /\ model \in [last_sequence : Nat, sequence_gap : BOOLEAN,
                    pending : SUBSET Approvals]
      /\ link = 0 => output = <<>>
  BY DEF TypeOK, ClientTypeOK
<1>2. ASSUME LoseConnection
      PROVE  /\ link' = 0 /\ output' = <<>> /\ model'.pending = {}
             /\ model'.last_sequence = model.last_sequence
             /\ model'.sequence_gap = model.sequence_gap
  BY <1>1, <1>2 DEF LoseConnection
<1>3. CASE ConnectionLost \/ ConnectionRefused
  BY <1>2, <1>3 DEF ConnectionLost, ConnectionRefused
<1>4. CASE NvimRestart
  BY <1>4 DEF NvimRestart, NewModel
<1>5. CASE BrokerRestart
  BY <1>1, <1>2, <1>5 DEF BrokerRestart
<1> QED
  BY <1>3, <1>4, <1>5

(* Every step keeps the types. *)
LEMMA NextTypes ==
  ASSUME TypeOK, [Next]_vars
  PROVE  TypeOK'
<1>1. CASE UNCHANGED vars
  <2>1. ReplayTypeOK'
    BY <1>1 DEF vars, TypeOK, ReplayTypeOK, Window, Latest
  <2>2. BrokerTypeOK' /\ ClientTypeOK'
    BY <1>1 DEF vars, TypeOK, BrokerTypeOK, ClientTypeOK
  <2> QED
    BY <2>1, <2>2 DEF TypeOK
<1> QED
  BY <1>1, ProviderTypes, BrokerReadsTypes, ClientTypes, FailureTypes
     DEF Next

(* The replay window (replay.rs) never exceeds its capacity and never has a *)
(* hole, whatever is published and however often the broker restarts; the  *)
(* cursors of client.lua and model.lua stay together through events,       *)
(* resyncs and restarts.                                                   *)
THEOREM ReconnectTypeCorrect ==
  Spec => []TypeOK
<1>1. Init => TypeOK
  BY InitType
<1>2. TypeOK /\ [Next]_vars => TypeOK'
  BY NextTypes
<1> QED
  BY <1>1, <1>2, PTL DEF Spec

-----------------------------------------------------------------------------
(* Whose answer is it. *)

(* A deferred call is registered under the generation it was made over. *)
AnswersInv ==
  /\ \A p \in broker.pending : p.origin = p.generation
  /\ ResponsesAreOurs

(* A message added to the connection, if it is a response, answers a call  *)
(* made over the connection the broker serves.                             *)
LEMMA SendKeepsAnswers ==
  ASSUME TypeOK, AnswersInv, NEW message \in Messages, Send(message),
         link' = link,
         message.kind = "response" => message.origin = broker.generation
  PROVE  ResponsesAreOurs'
<1>1. output \in Seq(Messages)
  BY DEF TypeOK, ClientTypeOK
<1>2. CASE broker.output /\ broker.generation = link
  <2>1. output' = Append(output, message)
    BY <1>2, SendType
  <2>2. /\ Len(output') = Len(output) + 1 /\ Len(output) \in Nat
        /\ output'[Len(output) + 1] = message
        /\ \A i \in 1..Len(output) : output'[i] = output[i]
    BY <1>1, <2>1, AppendElements
  <2> QED
    BY <1>2, <2>2 DEF AnswersInv, ResponsesAreOurs
<1>3. CASE ~(broker.output /\ broker.generation = link)
  BY <1>3, SendType DEF AnswersInv, ResponsesAreOurs
<1> QED
  BY <1>2, <1>3

(* No step lets an answer onto a connection that did not ask for it. *)
LEMMA AnswersStep ==
  ASSUME TypeOK, AnswersInv, [Next]_vars
  PROVE  AnswersInv'
<1>1. output \in Seq(Messages) /\ broker.pending \subseteq Registered
  BY DEF TypeOK, BrokerTypeOK, ClientTypeOK
<1>2. CASE UNCHANGED vars
  BY <1>2 DEF vars, AnswersInv, ResponsesAreOurs
<1>3. ASSUME NEW event \in Events, Publish(event), broker' = broker,
             link' = link
      PROVE  AnswersInv'
  <2>1. CASE output' = output
    BY <1>3, <2>1 DEF AnswersInv, ResponsesAreOurs
  <2>2. ASSUME NEW e \in Events, output' = Append(output, EventMessage(e))
        PROVE  AnswersInv'
    <3>1. /\ EventMessage(e) \in Messages
          /\ EventMessage(e).kind # "response"
      BY DEF EventMessage, Messages
    <3>2. /\ Len(output') = Len(output) + 1 /\ Len(output) \in Nat
          /\ output'[Len(output) + 1] = EventMessage(e)
          /\ \A i \in 1..Len(output) : output'[i] = output[i]
      BY <1>1, <2>2, <3>1, AppendElements
    <3>3. ResponsesAreOurs'
      BY <1>3, <3>1, <3>2 DEF AnswersInv, ResponsesAreOurs
    <3> QED
      BY <1>3, <3>3 DEF AnswersInv
  <2> QED
    BY <1>3, <2>1, <2>2, PublishType
<1>4. CASE ProviderNote
  <2>1. Event("note", None) \in Events
    BY DEF Event, Events
  <2> QED
    BY <1>3, <1>4, <2>1 DEF ProviderNote
<1>5. ASSUME NEW a \in Approvals, ApprovalRequested(a) \/ ApprovalResolved(a)
      PROVE  AnswersInv'
  <2>1. /\ Event("approval.requested", a) \in Events
        /\ Event("approval.resolved", a) \in Events
    BY DEF Event, Events
  <2> QED
    BY <1>3, <1>5, <2>1 DEF ApprovalRequested, ApprovalResolved
<1>6. ASSUME NEW request \in owed, TaskAnswers(request)
      PROVE  AnswersInv'
  <2>1. CASE UNCHANGED <<broker, output>>
    BY <1>6, <2>1 DEF TaskAnswers, AnswersInv, ResponsesAreOurs
  <2>2. ASSUME NEW p \in broker.pending,
               broker' = [broker EXCEPT !.pending = @ \ {p}],
               IF p.generation = broker.generation
               THEN Send(Response(p.public_id, p.origin))
               ELSE UNCHANGED output
        PROVE  AnswersInv'
    <3>1. p \in Registered
      BY <1>1
    <3>2. Response(p.public_id, p.origin) \in Messages
      BY <3>1 DEF Registered, Response, Messages
    <3>3. \A q \in broker'.pending : q.origin = q.generation
      BY <2>2 DEF AnswersInv, TypeOK, BrokerTypeOK
    <3>4. link' = link
      BY <1>6 DEF TaskAnswers
    <3>5. p.origin = p.generation
      BY DEF AnswersInv
    <3>6. ResponsesAreOurs'
      <4>1. CASE p.generation = broker.generation
        <5>1. Response(p.public_id, p.origin).origin = broker.generation
          BY <3>5, <4>1 DEF Response
        <5> QED
          BY <2>2, <3>2, <3>4, <4>1, <5>1, SendKeepsAnswers
      <4>2. CASE p.generation # broker.generation
        BY <2>2, <3>4, <4>2 DEF AnswersInv, ResponsesAreOurs
      <4> QED
        BY <4>1, <4>2
    <3> QED
      BY <3>3, <3>6 DEF AnswersInv
  <2> QED
    BY <1>6, <2>1, <2>2 DEF TaskAnswers
<1>7. CASE HandleConnected \/ HandleClosed
  <2>1. link' = link /\ output' = output
    BY <1>7 DEF HandleConnected, HandleClosed
  <2>2. broker'.pending \subseteq broker.pending
    <3>1. CASE HandleConnected
      BY <3>1 DEF HandleConnected, TypeOK, BrokerTypeOK
    <3>2. CASE HandleClosed
      <4> DEFINE remaining ==
                   {p \in broker.pending : p.generation # broker.generation}
      <4>1. \/ broker' = broker
            \/ broker' = [broker EXCEPT !.output = FALSE,
                                        !.phase = "AwaitInitialize",
                                        !.cursor = 0, !.pending = remaining]
        BY <3>2 DEF HandleClosed
      <4>2. remaining \subseteq broker.pending
        OBVIOUS
      <4>3. ASSUME NEW r
            PROVE  [broker EXCEPT !.output = FALSE,
                                  !.phase = "AwaitInitialize",
                                  !.cursor = 0, !.pending = r].pending = r
        BY DEF TypeOK, BrokerTypeOK
      <4> QED
        BY <4>1, <4>2, <4>3
    <3> QED
      BY <1>7, <3>1, <3>2
  <2> QED
    BY <2>1, <2>2 DEF AnswersInv, ResponsesAreOurs
<1>8. CASE HandleInitialize
  <2>1. broker'.pending = broker.pending /\ link' = link
    BY <1>8 DEF HandleInitialize, TypeOK, BrokerTypeOK
  <2> DEFINE resync == ResyncRequired(replay, Head(input).last_sequence)
             result == InitializeResult(Head(input).id, resync, Latest(replay))
  <2>2. Send(result) \/ output' = output
    BY <1>8 DEF HandleInitialize
  <2>3. result \in Messages /\ result.kind # "response"
    <3>1. Latest(replay) \in Nat /\ resync \in BOOLEAN
      BY DEF TypeOK, ReplayTypeOK, Latest, ResyncRequired
    <3>2. Head(input).id \in Nat
      BY <1>8, ItemType DEF HandleInitialize, Item
    <3> QED
      BY <3>1, <3>2 DEF InitializeResult, Messages
  <2> HIDE DEF result
  <2>4. ResponsesAreOurs'
    <3>1. CASE Send(result)
      BY <2>1, <2>3, <3>1, SendKeepsAnswers
    <3>2. CASE output' = output
      BY <2>1, <3>2 DEF AnswersInv, ResponsesAreOurs
    <3> QED
      BY <2>2, <3>1, <3>2
  <2> QED
    BY <2>1, <2>4 DEF AnswersInv
<1>9. CASE HandleInitialized
  <2>1. broker'.pending = broker.pending /\ link' = link
    BY <1>9 DEF HandleInitialized, TypeOK, BrokerTypeOK
  <2> DEFINE replayed == Replayed(broker.cursor)
  <2>2. output' = output \/ output' = output \o replayed
    BY <1>9 DEF HandleInitialized, Sent
  <2>3. /\ replayed \in Seq(Messages)
        /\ \A i \in 1..Len(replayed) : replayed[i].kind = "event"
    <3>1. broker.cursor \in Nat
      BY DEF TypeOK, BrokerTypeOK
    <3>2. Len(<<>>) = 0
      BY EmptyType
    <3>3. \/ replayed = <<>>
          \/ \A i \in 1..Len(replayed) : replayed[i].kind = "event"
      BY <3>1, ReplayedType
    <3>4. replayed \in Seq(Messages)
      BY <3>1, ReplayedType
    <3> QED
      BY <3>2, <3>3, <3>4
  <2> HIDE DEF replayed
  <2>4. CASE output' = output \o replayed
    <3>1. /\ Len(output') = Len(output) + Len(replayed)
          /\ Len(output) \in Nat /\ Len(replayed) \in Nat
          /\ \A i \in 1..Len(output) : output'[i] = output[i]
          /\ \A i \in 1..Len(replayed) : output'[Len(output) + i] = replayed[i]
      BY <1>1, <2>3, <2>4, ConcatElements
    <3>2. ASSUME NEW i \in 1..Len(output'), output'[i].kind = "response"
          PROVE  output'[i].origin = link
      <4>1. CASE i \in 1..Len(output)
        BY <3>1, <3>2, <4>1 DEF AnswersInv, ResponsesAreOurs
      <4>2. CASE i \notin 1..Len(output)
        <5>1. /\ i - Len(output) \in 1..Len(replayed)
              /\ Len(output) + (i - Len(output)) = i
          BY <3>1, <4>2
        <5>2. output'[i] = replayed[i - Len(output)]
          BY <3>1, <5>1
        <5> QED
          BY <2>3, <3>2, <5>1, <5>2
      <4> QED
        BY <4>1, <4>2
    <3> QED
      BY <2>1, <3>2 DEF AnswersInv, ResponsesAreOurs
  <2> QED
    BY <2>1, <2>2, <2>4 DEF AnswersInv, ResponsesAreOurs
<1>10. CASE HandleRequest
  <2> DEFINE registered == RuntimeRequest(Head(input))
             refusal == Response(Head(input).id, Head(input).generation)
  <2>1. link' = link /\ input # <<>> /\ Head(input).kind = "request"
    BY <1>10 DEF HandleRequest, Item
  <2>2. CASE broker.phase = "Ready"
    <3>1. /\ broker'.pending = broker.pending \cup {registered}
          /\ output' = output /\ Head(input).generation = broker.generation
      BY <1>10, <2>2 DEF HandleRequest, TypeOK, BrokerTypeOK, Current
    <3>2. registered.origin = registered.generation
      BY <3>1 DEF RuntimeRequest
    <3> QED
      BY <2>1, <3>1, <3>2 DEF AnswersInv, ResponsesAreOurs
  <2>3. CASE broker.phase # "Ready"
    <3>1. /\ broker' = broker /\ Send(refusal)
          /\ Head(input).generation = broker.generation
      BY <1>10, <2>3 DEF HandleRequest, Current
    <3>2. refusal \in Messages /\ refusal.origin = broker.generation
      BY <2>1, <3>1, ItemType DEF Response, Messages
    <3>3. ResponsesAreOurs'
      BY <2>1, <3>1, <3>2, SendKeepsAnswers
    <3> QED
      BY <3>1, <3>3 DEF AnswersInv
  <2> QED
    BY <2>2, <2>3
<1>11. CASE Connects
  <2>1. output' = output /\ broker' = broker /\ link = 0
    BY <1>11 DEF Connects, Opening
  <2>2. Len(output') = 0
    BY <2>1, EmptyType, SilentWithoutLink
  <2> QED
    BY <2>1, <2>2 DEF AnswersInv, ResponsesAreOurs
<1>12. CASE Start \/ TimerFires \/ Call
  BY <1>12 DEF Start, TimerFires, Call, AnswersInv, ResponsesAreOurs
<1>13. CASE ClientReads
  <2>1. /\ output # <<>> /\ output' = Tail(output)
        /\ link' = link /\ broker' = broker
    BY <1>13 DEF ClientReads, ReceiveInitialized, ReceiveResponse,
                 ReceiveEvent, Message
  <2>2. /\ Len(output) \in Nat \ {0} /\ Len(output') = Len(output) - 1
        /\ \A i \in 1..Len(output') : output'[i] = output[i + 1]
    BY <1>1, <2>1, TailElements
  <2>3. \A i \in 1..Len(output') : i + 1 \in 1..Len(output)
    BY <2>2
  <2> QED
    BY <2>1, <2>2, <2>3 DEF AnswersInv, ResponsesAreOurs
<1>14. CASE \/ ConnectionLost \/ ConnectionRefused
            \/ NvimRestart \/ BrokerRestart
  <2>1. output' = <<>>
    BY <1>14, LossForgets
  <2>2. Len(output') = 0
    BY <2>1, EmptyType
  <2>3. broker' = broker \/ broker' = NewBroker
    BY <1>14 DEF ConnectionLost, ConnectionRefused, NvimRestart, BrokerRestart
  <2> QED
    BY <2>2, <2>3 DEF AnswersInv, ResponsesAreOurs, NewBroker
<1> QED
  BY <1>2, <1>4, <1>5, <1>6, <1>7, <1>8, <1>9, <1>10, <1>11, <1>12, <1>13,
     <1>14 DEF Next, BrokerReads

(* However many times Neovim restarts with the same request ids, an answer *)
(* computed for an earlier connection is never delivered as the answer to  *)
(* a call of this one (disconnect, runtime_request, send_runtime_response).*)
THEOREM AnswersReachTheirCaller ==
  Spec => []ResponsesAreOurs
<1>1. Init => AnswersInv
  <2> SUFFICES ASSUME Init PROVE AnswersInv
    OBVIOUS
  <2>1. Len(output) = 0 /\ broker.pending = {}
    BY EmptyType DEF Init, NewBroker
  <2> QED
    BY <2>1 DEF AnswersInv, ResponsesAreOurs
<1>2. TypeOK /\ AnswersInv /\ [Next]_vars => AnswersInv'
  BY AnswersStep
<1>3. AnswersInv => ResponsesAreOurs
  BY DEF AnswersInv
<1> QED
  BY <1>1, <1>2, <1>3, ReconnectTypeCorrect, PTL DEF Spec

-----------------------------------------------------------------------------
(* Replay and live stream meet. *)

(* The broker serves the connection the client holds. *)
Served == link # 0 /\ broker.generation = link

(* Served, and the client's initialize has been handled. *)
Greeted == Served /\ broker.phase # "AwaitInitialize"

(* The answers to initialize the client has not read. *)
Results == {i \in 1..Len(output) : output[i].kind = "initialized_result"}

(* accept_clients numbers connections upwards, and serves one at a time:   *)
(* the close that is queued is never that of the connection in use.        *)
Numbered ==
  /\ broker.generation =< accepted
  /\ \A i \in 1..Len(input) :
       /\ input[i].generation =< accepted
       /\ link # 0 /\ input[i].kind = "closed" => input[i].generation # link
  /\ Served => broker.output

(* Nothing is streamed before the client is ready. *)
NothingEarly == ~Live => OnTheWay = {}

(* The one answer to initialize, and the cursor the broker kept with it. *)
ResultsInv ==
  \A i \in Results :
    /\ Served /\ broker.phase = "AwaitInitialized"
    /\ client.conn.state = "negotiating"
    /\ output[i].latest =< Latest(replay)
    /\ broker.cursor = IF output[i].resync THEN output[i].latest
                                           ELSE model.last_sequence
    /\ Results = {i}

(* A client that has acknowledged has what the replay will start from. *)
CursorInv ==
  /\ Served /\ broker.phase = "AwaitInitialized" /\ client.conn.state = "connected"
       => broker.cursor = model.last_sequence
  /\ link # 0 /\ ~Greeted => client.conn.state = "negotiating"

(* The handshake frames of the connection in use. *)
FramesInv ==
  \A i \in 1..Len(input) :
    link # 0 /\ input[i].generation = link =>
      /\ input[i].kind = "initialized" => client.conn.state = "connected"
      /\ input[i].kind = "initialize" /\ ~Greeted =>
           input[i].last_sequence = model.last_sequence

Handshake ==
  /\ NothingEarly
  /\ ResultsInv
  /\ CursorInv
  /\ FramesInv

(* The client is never ahead of a broker from which it missed nothing. *)
Behind == whole => ~model.sequence_gap /\ model.last_sequence =< Latest(replay)

StreamInv ==
  /\ Numbered
  /\ Handshake
  /\ Behind
  /\ StreamContinues

(* The messages other than responses are those there were, in their order: *)
(* a response was added at the end or taken from the front, or nothing.    *)
SameStream ==
  \E d \in {0, 1} :
    /\ \A i \in 1..Len(output') :
         output'[i].kind # "response" =>
           i + d \in 1..Len(output) /\ output'[i] = output[i + d]
    /\ \A i \in 1..Len(output) :
         output[i].kind # "response" =>
           i - d \in 1..Len(output') /\ output'[i - d] = output[i]

(* No frame enters the queue but a call over the connection in use. *)
SameFrames ==
  \A i \in 1..Len(input') :
    \/ \E j \in 1..Len(input) : input'[i] = input[j]
    \/ input'[i].kind = "request" /\ input'[i].generation = link

(* An unchanged connection. *)
LEMMA SameStreamWhenUnchanged ==
  ASSUME TypeOK, output' = output
  PROVE  SameStream
<1>1. Len(output) \in Nat
  BY LenType DEF TypeOK, ClientTypeOK
<1>2. \A i \in 1..Len(output) : i + 0 = i /\ i - 0 = i
  BY <1>1
<1> QED
  BY <1>2 DEF SameStream

(* An unchanged input queue. *)
LEMMA SameFramesWhenUnchanged ==
  ASSUME input' = input
  PROVE  SameFrames
BY DEF SameFrames

(* A handled item leaves the input queue. *)
LEMMA SameFramesWhenRead ==
  ASSUME TypeOK, input # <<>>, input' = Tail(input)
  PROVE  SameFrames
<1>1. input \in Seq(Items)
  BY DEF TypeOK, BrokerTypeOK
<1>2. /\ Len(input) \in Nat \ {0} /\ Len(input') = Len(input) - 1
      /\ \A i \in 1..Len(input') : input'[i] = input[i + 1]
  BY <1>1, TailElements
<1>3. \A i \in 1..Len(input') : i + 1 \in 1..Len(input)
  BY <1>2
<1> QED
  BY <1>2, <1>3 DEF SameFrames

(* A response joins the connection. *)
LEMMA SameStreamWhenAnswered ==
  ASSUME TypeOK, NEW id \in Nat, NEW origin \in Nat,
         Send(Response(id, origin))
  PROVE  SameStream
<1> DEFINE message == Response(id, origin)
<1>1. message \in Messages /\ message.kind = "response"
  BY DEF Response, Messages
<1>2. output \in Seq(Messages)
  BY DEF TypeOK, ClientTypeOK
<1> HIDE DEF message
<1>3. CASE output' = Append(output, message)
  <2>1. /\ Len(output) \in Nat /\ Len(output') = Len(output) + 1
        /\ output'[Len(output) + 1] = message
        /\ \A i \in 1..Len(output) : output'[i] = output[i]
    BY <1>1, <1>2, <1>3, AppendElements
  <2>2. \A i \in 1..Len(output') :
          /\ output'[i].kind # "response" => i \in 1..Len(output)
          /\ i + 0 = i /\ i - 0 = i
    BY <1>1, <2>1
  <2>3. \A i \in 1..Len(output) : i - 0 = i /\ i \in 1..Len(output')
    BY <2>1
  <2> QED
    BY <2>1, <2>2, <2>3 DEF SameStream
<1> QED
  BY <1>1, <1>3, SendType, SameStreamWhenUnchanged DEF message

(* A response leaves the connection. *)
LEMMA SameStreamWhenRead ==
  ASSUME TypeOK, Message("response"), output' = Tail(output)
  PROVE  SameStream
<1>1. output \in Seq(Messages) /\ output # <<>> /\ Head(output).kind = "response"
  BY DEF TypeOK, ClientTypeOK, Message
<1>2. /\ Len(output) \in Nat \ {0} /\ Len(output') = Len(output) - 1
      /\ Head(output) = output[1]
      /\ \A i \in 1..Len(output') : output'[i] = output[i + 1]
  BY <1>1, TailElements
<1>3. \A i \in 1..Len(output') : i + 1 \in 1..Len(output)
  BY <1>2
<1>4. \A i \in 1..Len(output) :
        output[i].kind # "response" =>
          i - 1 \in 1..Len(output') /\ (i - 1) + 1 = i
  BY <1>1, <1>2
<1> QED
  BY <1>2, <1>3, <1>4 DEF SameStream

(* A step that only adds or removes responses, calls and handled items     *)
(* keeps the invariant.                                                    *)
LEMMA SameConnection ==
  ASSUME TypeOK, StreamInv, SameStream, SameFrames,
         UNCHANGED <<replay, accepted, link, model, whole>>,
         broker'.generation = broker.generation,
         broker'.phase = broker.phase,
         broker'.output = broker.output,
         broker'.cursor = broker.cursor,
         link # 0 => client'.conn.state = client.conn.state
  PROVE  StreamInv'
<1> USE DEF StreamInv, Handshake
<1>1. Live' = Live /\ Served' = Served /\ Greeted' = Greeted
  BY DEF Live, Served, Greeted
<1>2. PICK d \in {0, 1} :
        /\ \A i \in 1..Len(output') :
             output'[i].kind # "response" =>
               i + d \in 1..Len(output) /\ output'[i] = output[i + d]
        /\ \A i \in 1..Len(output) :
             output[i].kind # "response" =>
               i - d \in 1..Len(output') /\ output'[i - d] = output[i]
  BY DEF SameStream
<1>3. \A i \in OnTheWay' : i + d \in OnTheWay /\ output'[i] = output[i + d]
  BY <1>2 DEF OnTheWay
<1>4. \A i \in OnTheWay : i - d \in OnTheWay' /\ output'[i - d] = output[i]
  BY <1>2 DEF OnTheWay
<1>5. \A i \in Results' : i + d \in Results /\ output'[i] = output[i + d]
  BY <1>2 DEF Results
<1>7. Numbered'
  <2>1. accepted \in Nat /\ link \in Nat /\ link =< accepted
    BY DEF TypeOK, BrokerTypeOK, ClientTypeOK
  <2>2. \A i \in 1..Len(input') :
          /\ input'[i].generation =< accepted
          /\ link # 0 /\ input'[i].kind = "closed" =>
               input'[i].generation # link
    BY <2>1 DEF Numbered, SameFrames
  <2> QED
    BY <1>1, <2>2 DEF Numbered
<1>8. NothingEarly'
  BY <1>1, <1>3 DEF NothingEarly
<1>9. ResultsInv'
  <2> SUFFICES ASSUME NEW i \in Results'
               PROVE  (/\ Served /\ broker.phase = "AwaitInitialized"
                       /\ client.conn.state = "negotiating"
                       /\ output[i].latest =< Latest(replay)
                       /\ broker.cursor = IF output[i].resync
                                          THEN output[i].latest
                                          ELSE model.last_sequence
                       /\ Results = {i})'
    BY DEF ResultsInv
  <2>1. i + d \in Results /\ output'[i] = output[i + d]
    BY <1>5
  <2>2. \A j \in Results' : j = i
    <3> TAKE j \in Results'
    <3>1. j + d \in Results /\ Results = {i + d}
      BY <1>5, <2>1 DEF ResultsInv
    <3>2. j \in Int /\ i \in Int /\ d \in Int
      BY DEF Results
    <3> QED
      BY <3>1, <3>2
  <2>3. Latest(replay)' = Latest(replay)
    BY DEF Latest
  <2> QED
    BY <1>1, <2>1, <2>2, <2>3 DEF ResultsInv, Served
<1>10. CursorInv'
  BY <1>1 DEF CursorInv, Served
<1>11. FramesInv'
  BY <1>1 DEF FramesInv, SameFrames
<1>12. Behind'
  BY DEF Behind, Latest
<1>13. StreamContinues'
  <2> SUFFICES ASSUME Live, whole
               PROVE  (/\ ~model.sequence_gap
                       /\ {output[i].event.sequence : i \in OnTheWay}
                            = model.last_sequence + 1..Latest(replay)
                       /\ \A i, j \in OnTheWay : i < j =>
                            output[i].event.sequence < output[j].event.sequence)'
    BY <1>1 DEF StreamContinues
  <2>1. /\ ~model.sequence_gap
        /\ {output[i].event.sequence : i \in OnTheWay}
             = model.last_sequence + 1..Latest(replay)
        /\ \A i, j \in OnTheWay :
             i < j => output[i].event.sequence < output[j].event.sequence
    BY DEF StreamContinues
  <2>2. {output'[i].event.sequence : i \in OnTheWay'}
          = {output[i].event.sequence : i \in OnTheWay}
    BY <1>3, <1>4
  <2>3. \A i, j \in OnTheWay' : i < j =>
          output'[i].event.sequence < output'[j].event.sequence
    <3> TAKE i, j \in OnTheWay'
    <3>1. i \in Int /\ j \in Int /\ d \in Int
      BY DEF OnTheWay
    <3>2. i < j => i + d < j + d
      BY <3>1
    <3> QED
      BY <1>3, <2>1, <3>2
  <2>4. (model.last_sequence + 1..Latest(replay))'
          = model.last_sequence + 1..Latest(replay)
    BY DEF Latest
  <2> QED
    BY <2>1, <2>2, <2>3, <2>4
<1> QED
  BY <1>7, <1>8, <1>9, <1>10, <1>11, <1>12, <1>13

(* handle_provider_event: the next event joins the stream of a client that *)
(* is ready, and only the window otherwise.                                *)
LEMMA PublishKeepsTheStream ==
  ASSUME TypeOK, StreamInv, NEW event \in Events, Publish(event),
         UNCHANGED <<broker, input, accepted, link, client, model, whole>>
  PROVE  StreamInv'
<1> USE DEF StreamInv, Handshake
<1>1. Live' = Live /\ Served' = Served /\ Greeted' = Greeted
  BY DEF Live, Served, Greeted
<1>2. /\ Latest(replay)' = Latest(replay) + 1 /\ Latest(replay) \in Nat
      /\ model.last_sequence \in Nat /\ output \in Seq(Messages)
  BY PublishType DEF TypeOK, ClientTypeOK
<1>3. Numbered' /\ CursorInv' /\ FramesInv'
  BY <1>1 DEF Numbered, CursorInv, FramesInv
<1>4. Behind'
  BY <1>2 DEF Behind
<1>5. CASE ~Live /\ output' = output
  <2>1. OnTheWay' = OnTheWay /\ Results' = Results
    BY <1>5 DEF OnTheWay, Results
  <2>2. NothingEarly' /\ StreamContinues'
    BY <1>1, <1>5, <2>1 DEF NothingEarly, StreamContinues
  <2>3. ResultsInv'
    <3> SUFFICES ASSUME NEW i \in Results
                 PROVE  (/\ Served /\ broker.phase = "AwaitInitialized"
                         /\ client.conn.state = "negotiating"
                         /\ output[i].latest =< Latest(replay)
                         /\ broker.cursor = IF output[i].resync
                                            THEN output[i].latest
                                            ELSE model.last_sequence
                         /\ Results = {i})'
      BY <2>1 DEF ResultsInv
    <3>1. output[i].latest =< Latest(replay)
      BY DEF ResultsInv
    <3>2. output[i].latest \in Nat
      BY <1>2 DEF Results, Messages
    <3>3. (output[i].latest =< Latest(replay))'
      BY <1>2, <1>5, <3>1, <3>2
    <3> QED
      BY <1>1, <1>5, <2>1, <3>3 DEF ResultsInv
  <2> QED
    BY <1>3, <1>4, <2>2, <2>3
<1>6. ASSUME NEW e \in Events, e.sequence = Latest(replay) + 1, Live,
             output' = Append(output, EventMessage(e))
      PROVE  StreamInv'
  <2> DEFINE n == Len(output)
  <2>1. /\ EventMessage(e) \in Messages /\ EventMessage(e).kind = "event"
        /\ EventMessage(e).event = e
    BY DEF EventMessage, Messages
  <2>2. /\ n \in Nat /\ Len(output') = n + 1
        /\ output'[n + 1] = EventMessage(e)
        /\ \A i \in 1..n : output'[i] = output[i]
    BY <1>2, <1>6, <2>1, AppendElements
  <2>3. /\ OnTheWay' = OnTheWay \cup {n + 1}
        /\ OnTheWay \subseteq 1..n
    BY <2>1, <2>2 DEF OnTheWay
  <2>4. NothingEarly'
    BY <1>1, <1>6 DEF NothingEarly
  <2>5. ResultsInv'
    <3>1. Results = {}
      BY <1>6 DEF ResultsInv, Live
    <3>2. Results' = {}
      BY <2>1, <2>2, <3>1 DEF Results
    <3> QED
      BY <3>2 DEF ResultsInv
  <2>6. StreamContinues'
    <3> SUFFICES ASSUME whole
                 PROVE  (/\ ~model.sequence_gap
                         /\ {output[i].event.sequence : i \in OnTheWay}
                              = model.last_sequence + 1..Latest(replay)
                         /\ \A i, j \in OnTheWay : i < j =>
                              output[i].event.sequence
                                < output[j].event.sequence)'
      BY DEF StreamContinues
    <3>1. /\ ~model.sequence_gap
          /\ {output[i].event.sequence : i \in OnTheWay}
               = model.last_sequence + 1..Latest(replay)
          /\ \A i, j \in OnTheWay :
               i < j => output[i].event.sequence < output[j].event.sequence
      BY <1>6 DEF StreamContinues
    <3>2. model.last_sequence =< Latest(replay)
      BY DEF Behind
    <3>3. /\ output'[n + 1].event.sequence = Latest(replay) + 1
          /\ \A i \in OnTheWay : output'[i] = output[i]
      BY <1>6, <2>1, <2>2, <2>3
    <3>4. {output'[i].event.sequence : i \in OnTheWay'}
            = {output[i].event.sequence : i \in OnTheWay}
                \cup {Latest(replay) + 1}
      BY <2>3, <3>3
    <3>5. model.last_sequence + 1..Latest(replay) + 1
            = (model.last_sequence + 1..Latest(replay))
                \cup {Latest(replay) + 1}
      BY <1>2, <3>2
    <3>6. \A i, j \in OnTheWay' : i < j =>
            output'[i].event.sequence < output'[j].event.sequence
      <4> SUFFICES ASSUME NEW i \in OnTheWay', NEW j \in OnTheWay', i < j
                   PROVE  output'[i].event.sequence < output'[j].event.sequence
        OBVIOUS
      <4>1. i \in OnTheWay
        BY <2>2, <2>3
      <4>2. CASE j \in OnTheWay
        BY <3>1, <3>3, <4>1, <4>2
      <4>3. CASE j = n + 1
        <5>1. output[i].event.sequence \in model.last_sequence + 1..Latest(replay)
          BY <3>1, <4>1
        <5> HIDE DEF n
        <5>2. output[i].event.sequence < Latest(replay) + 1
          BY <1>2, <5>1
        <5> QED
          BY <3>3, <4>1, <4>3, <5>2
      <4> QED
        BY <2>3, <4>2, <4>3
    <3> QED
      BY <1>2, <3>1, <3>4, <3>5, <3>6
  <2> QED
    BY <1>3, <1>4, <2>4, <2>5, <2>6
<1>7. Live <=> /\ broker.phase = "Ready" /\ broker.output
               /\ broker.generation = link
  BY DEF Live, Numbered, Served, TypeOK, BrokerTypeOK
<1> QED
  BY <1>5, <1>6, <1>7, PublishType

(* The item at the head of the input queue obeys what all items do. *)
LEMMA HeadItem ==
  ASSUME TypeOK, StreamInv, input # <<>>
  PROVE  /\ Head(input).generation =< accepted
         /\ link # 0 /\ Head(input).kind = "closed" =>
              Head(input).generation # link
         /\ link # 0 /\ Head(input).generation = link =>
              /\ Head(input).kind = "initialized" =>
                   client.conn.state = "connected"
              /\ Head(input).kind = "initialize" /\ ~Greeted =>
                   Head(input).last_sequence = model.last_sequence
<1>1. input \in Seq(Items)
  BY DEF TypeOK, BrokerTypeOK
<1>2. Head(input) = input[1] /\ 1 \in 1..Len(input)
  BY <1>1, TailElements
<1> QED
  BY <1>2 DEF StreamInv, Numbered, Handshake, FramesInv

(* connect: a new connection starts with an empty stream. *)
LEMMA ConnectedKeepsTheStream ==
  ASSUME TypeOK, StreamInv, HandleConnected
  PROVE  StreamInv'
<1> USE DEF StreamInv, Handshake
<1>1. /\ input # <<>> /\ input' = Tail(input)
      /\ UNCHANGED <<replay, accepted, link, output, client, model, whole>>
  BY DEF HandleConnected, Item
<1>2. SameStream /\ SameFrames
  BY <1>1, SameStreamWhenUnchanged, SameFramesWhenRead
<1>3. CASE broker' = broker
  BY <1>1, <1>2, <1>3, SameConnection
<1>4. CASE broker' # broker
  <2> DEFINE g == Head(input).generation
  <2>1. /\ g \in Nat /\ g =< accepted
    BY <1>1, ItemType, HeadItem
  <2>2. /\ ~(g <= broker.generation)
        /\ broker' = [broker EXCEPT !.generation = g,
                                    !.phase = "AwaitInitialize",
                                    !.cursor = 0, !.output = TRUE]
    BY <1>4 DEF HandleConnected
  <2>3. /\ broker'.generation = g /\ broker'.phase = "AwaitInitialize"
        /\ broker'.output = TRUE
    BY <2>2 DEF TypeOK, BrokerTypeOK
  <2>4. ~Served
    BY <2>1, <2>2 DEF Served, TypeOK, BrokerTypeOK, ClientTypeOK
  <2>5. ~Live /\ ~Live' /\ ~Greeted /\ ~Greeted'
    BY <1>1, <2>3, <2>4 DEF Live, Served, Greeted
  <2>6. OnTheWay = {} /\ Results = {}
    BY <2>4, <2>5 DEF NothingEarly, ResultsInv
  <2>7. OnTheWay' = {} /\ Results' = {}
    BY <1>1, <2>6 DEF OnTheWay, Results
  <2>8. Numbered'
    BY <1>1, <1>2, <2>1, <2>3 DEF Numbered, SameFrames, Served, TypeOK,
       BrokerTypeOK, ClientTypeOK
  <2>9. NothingEarly' /\ ResultsInv' /\ StreamContinues'
    BY <2>5, <2>7 DEF NothingEarly, ResultsInv, StreamContinues
  <2>10. CursorInv'
    BY <1>1, <2>3, <2>5 DEF CursorInv
  <2>11. FramesInv'
    BY <1>1, <1>2, <2>5 DEF FramesInv, SameFrames
  <2>12. Behind'
    BY <1>1 DEF Behind, Latest
  <2> QED
    BY <2>8, <2>9, <2>10, <2>11, <2>12
<1> QED
  BY <1>3, <1>4

(* disconnect: the connection it ends is not the one in use. *)
LEMMA ClosedKeepsTheStream ==
  ASSUME TypeOK, StreamInv, HandleClosed
  PROVE  StreamInv'
<1> USE DEF StreamInv, Handshake
<1>1. /\ input # <<>> /\ input' = Tail(input) /\ Head(input).kind = "closed"
      /\ UNCHANGED <<replay, accepted, link, output, client, model, whole>>
  BY DEF HandleClosed, Item
<1>2. SameStream /\ SameFrames
  BY <1>1, SameStreamWhenUnchanged, SameFramesWhenRead
<1>3. CASE Head(input).generation # broker.generation
  <2>1. broker' = broker
    BY <1>3 DEF HandleClosed
  <2> QED
    BY <1>1, <1>2, <2>1, SameConnection
<1>4. CASE Head(input).generation = broker.generation
  <2>1. ~Served
    BY <1>1, <1>4, HeadItem DEF Served
  <2>2. broker'.generation = broker.generation
    <3>1. ASSUME NEW r
          PROVE  [broker EXCEPT !.output = FALSE,
                                !.phase = "AwaitInitialize",
                                !.cursor = 0, !.pending = r].generation
                   = broker.generation
      BY DEF TypeOK, BrokerTypeOK
    <3> QED
      BY <1>4, <3>1 DEF HandleClosed
  <2>3. ~Served' /\ ~Live /\ ~Live' /\ ~Greeted /\ ~Greeted'
    BY <1>1, <2>1, <2>2 DEF Served, Live, Greeted
  <2>4. OnTheWay = {} /\ Results = {}
    BY <2>1, <2>3 DEF NothingEarly, ResultsInv
  <2>5. OnTheWay' = {} /\ Results' = {}
    BY <1>1, <2>4 DEF OnTheWay, Results
  <2>6. Numbered'
    BY <1>1, <1>2, <2>2, <2>3 DEF Numbered, SameFrames, TypeOK,
       BrokerTypeOK, ClientTypeOK
  <2>7. NothingEarly' /\ ResultsInv' /\ StreamContinues'
    BY <2>3, <2>5 DEF NothingEarly, ResultsInv, StreamContinues
  <2>8. CursorInv' /\ FramesInv'
    BY <1>1, <1>2, <2>3 DEF CursorInv, FramesInv, SameFrames
  <2>9. Behind'
    BY <1>1 DEF Behind, Latest
  <2> QED
    BY <2>6, <2>7, <2>8, <2>9
<1> QED
  BY <1>3, <1>4

(* initialize: the cursor the broker keeps is the client's, or the newest  *)
(* event when it asks the client to resync.                                *)
LEMMA InitializeKeepsTheStream ==
  ASSUME TypeOK, StreamInv, HandleInitialize
  PROVE  StreamInv'
<1> USE DEF StreamInv, Handshake
<1>1. /\ input # <<>> /\ input' = Tail(input)
      /\ Head(input).kind = "initialize"
      /\ UNCHANGED <<replay, accepted, link, client, model, whole>>
  BY DEF HandleInitialize, Item
<1>2. SameFrames
  BY <1>1, SameFramesWhenRead
<1>3. CASE UNCHANGED <<broker, output>>
  <2>1. SameStream
    BY <1>3, SameStreamWhenUnchanged
  <2> QED
    BY <1>1, <1>2, <1>3, <2>1, SameConnection
<1>4. CASE Current /\ broker.phase = "AwaitInitialize"
  <2> DEFINE after == Head(input).last_sequence
             resync == ResyncRequired(replay, after)
             cursor == IF resync THEN Latest(replay) ELSE after
             result == InitializeResult(Head(input).id, resync, Latest(replay))
             n == Len(output)
  <2>1. /\ broker' = [broker EXCEPT !.phase = "AwaitInitialized",
                                    !.cursor = cursor]
        /\ Send(result)
    BY <1>4 DEF HandleInitialize
  <2>2. /\ broker'.phase = "AwaitInitialized" /\ broker'.cursor = cursor
        /\ broker'.generation = broker.generation
        /\ broker'.output = broker.output
    BY <2>1 DEF TypeOK, BrokerTypeOK
  <2>3. /\ resync \in BOOLEAN /\ Latest(replay) \in Nat /\ Head(input).id \in Nat
        /\ output \in Seq(Messages)
    BY <1>1, ItemType DEF TypeOK, ReplayTypeOK, ClientTypeOK, Latest,
       ResyncRequired
  <2>4. /\ result \in Messages /\ result.kind = "initialized_result"
        /\ result.resync = resync /\ result.latest = Latest(replay)
    BY <2>3 DEF InitializeResult, Messages
  <2>5. ~Live /\ ~Live' /\ ~Greeted /\ Served' = Served
    BY <1>1, <1>4, <2>2 DEF Live, Greeted, Served
  <2>6. OnTheWay = {} /\ Results = {}
    BY <1>4, <2>5 DEF NothingEarly, ResultsInv
  <2>7. Numbered'
    BY <1>1, <1>2, <2>2, <2>5 DEF Numbered, SameFrames, TypeOK,
       BrokerTypeOK, ClientTypeOK
  <2>8. Behind' /\ StreamContinues'
    BY <1>1, <2>5 DEF Behind, Latest, StreamContinues
  <2>9. CursorInv'
    <3>1. link # 0 => client.conn.state = "negotiating"
      BY <2>5 DEF CursorInv
    <3> QED
      BY <1>1, <2>5, <3>1 DEF CursorInv, Served
  <2>10. FramesInv'
    BY <1>1, <1>2, <2>5 DEF FramesInv, SameFrames
  <2>11. CASE ~Served
    <3>1. output' = output
      BY <2>1, <2>4, <2>11, SendType, SilentWithoutLink DEF Served
    <3>2. OnTheWay' = {} /\ Results' = {}
      BY <2>6, <3>1 DEF OnTheWay, Results
    <3> QED
      BY <2>7, <2>8, <2>9, <2>10, <3>2 DEF NothingEarly, ResultsInv
  <2>12. CASE Served
    <3>1. /\ client.conn.state = "negotiating" /\ after = model.last_sequence
      BY <1>1, <1>4, <2>5, <2>12, HeadItem DEF CursorInv, Served, Current
    <3>2. output' = Append(output, result)
      BY <2>1, <2>4, <2>12, SendType DEF Numbered, Served
    <3> HIDE DEF result
    <3>3. /\ n \in Nat /\ Len(output') = n + 1 /\ output'[n + 1] = result
          /\ \A i \in 1..n : output'[i] = output[i]
      BY <2>3, <2>4, <3>2, AppendElements
    <3>4. OnTheWay' = {} /\ Results' = {n + 1}
      BY <2>4, <2>6, <3>3 DEF OnTheWay, Results
    <3>5. Latest(replay)' = Latest(replay)
      BY <1>1 DEF Latest
    <3>6. ResultsInv'
      BY <1>1, <2>2, <2>3, <2>4, <2>5, <2>12, <3>1, <3>3, <3>4, <3>5
         DEF ResultsInv
    <3> QED
      BY <2>7, <2>8, <2>9, <2>10, <3>4, <3>6 DEF NothingEarly
  <2> QED
    BY <2>11, <2>12
<1> QED
  BY <1>3, <1>4 DEF HandleInitialize

(* initialized: what is replayed is what the client has not seen, up to the *)
(* newest event, and the live stream continues from there.                 *)
LEMMA InitializedKeepsTheStream ==
  ASSUME TypeOK, StreamInv, HandleInitialized
  PROVE  StreamInv'
<1> USE DEF StreamInv, Handshake
<1>1. /\ input # <<>> /\ input' = Tail(input)
      /\ Head(input).kind = "initialized"
      /\ UNCHANGED <<replay, accepted, link, client, model>>
  BY DEF HandleInitialized, Item
<1>2. SameFrames
  BY <1>1, SameFramesWhenRead
<1>3. CASE UNCHANGED <<broker, output, whole>>
  <2>1. SameStream
    BY <1>3, SameStreamWhenUnchanged
  <2> QED
    BY <1>1, <1>2, <1>3, <2>1, SameConnection
<1>4. CASE Current /\ broker.phase = "AwaitInitialized"
  <2> DEFINE cursor == broker.cursor
             replayed == Replayed(cursor)
             n == Len(output)
             m == Len(replayed)
  <2>1. /\ broker' = [broker EXCEPT !.phase = "Ready"]
        /\ output' = Sent(replayed)
        /\ whole' = (whole /\ ~( /\ broker.generation = link
                                 /\ ResyncRequired(replay, cursor)))
    BY <1>4 DEF HandleInitialized
  <2>2. /\ broker'.phase = "Ready"
        /\ broker'.generation = broker.generation
        /\ broker'.output = broker.output
    BY <2>1 DEF TypeOK, BrokerTypeOK
  <2>3. /\ cursor \in Nat /\ Latest(replay) \in Nat
        /\ model.last_sequence \in Nat
        /\ output \in Seq(Messages) /\ n \in Nat
        /\ whole \in BOOLEAN
    BY DEF TypeOK, ReplayTypeOK, BrokerTypeOK, ClientTypeOK, Latest
  <2>4. ~Live /\ Served' = Served /\ Live' = Served /\ (Greeted <=> Served)
        /\ Greeted' = Greeted
    BY <1>1, <1>4, <2>2 DEF Live, Served, Greeted
  <2>5. OnTheWay = {}
    BY <2>4 DEF NothingEarly
  <2>6. Numbered'
    BY <1>1, <1>2, <2>2, <2>4 DEF Numbered, SameFrames, TypeOK,
       BrokerTypeOK, ClientTypeOK
  <2>7. Behind'
    BY <1>1, <2>1, <2>3 DEF Behind, Latest
  <2>8. CursorInv'
    BY <1>1, <2>2, <2>4 DEF CursorInv
  <2>9. FramesInv'
    BY <1>1, <1>2, <2>4 DEF FramesInv, SameFrames
  <2>10. CASE ~Served
    <3>1. output' = output
      BY <2>1, <2>10, SilentWithoutLink DEF Sent, Served
    <3>2. OnTheWay' = {} /\ Results = {} /\ Results' = {}
      BY <2>5, <2>10, <3>1 DEF OnTheWay, Results, ResultsInv
    <3> QED
      BY <2>4, <2>6, <2>7, <2>8, <2>9, <2>10, <3>2
         DEF NothingEarly, ResultsInv, StreamContinues
  <2>11. CASE Served
    <3>1. client.conn.state = "connected" /\ cursor = model.last_sequence
      BY <1>1, <1>4, <2>11, HeadItem DEF CursorInv, Served, Current
    <3>2. Results = {}
      BY <3>1 DEF ResultsInv
    <3>3. replayed \in Seq(Messages)
      BY <2>3, ReplayedType
    <3>4. output' = output \o replayed
      BY <2>1, <2>11, <3>3, SentType DEF Numbered, Served
    <3>5. /\ m \in Nat /\ Len(output') = n + m
          /\ \A i \in 1..n : output'[i] = output[i]
          /\ \A i \in 1..m : output'[n + i] = replayed[i]
      BY <2>3, <3>3, <3>4, ConcatElements
    <3>6. NothingEarly'
      BY <2>4, <2>11 DEF NothingEarly
    <3>7. CASE ResyncRequired(replay, cursor)
      <4>1. m = 0
        BY <2>3, <3>7, ReplayedType, EmptyType
      <4>2. Results' = {}
        BY <3>2, <3>5, <4>1, <2>3 DEF Results
      <4>3. ~whole'
        BY <2>1, <2>11, <3>7 DEF Served
      <4> QED
        BY <2>6, <2>7, <2>8, <2>9, <3>6, <4>2, <4>3
           DEF ResultsInv, StreamContinues
    <3>8. CASE ~ResyncRequired(replay, cursor)
      <4>1. /\ m = IF cursor < Latest(replay) THEN Latest(replay) - cursor
                                              ELSE 0
            /\ \A i \in 1..m : /\ replayed[i].kind = "event"
                               /\ replayed[i].event.sequence = cursor + i
        BY <2>3, <3>8, ReplayedType
      <4> HIDE DEF m, n, cursor, replayed
      <4>2. \A i \in 1..m : /\ output'[n + i].kind = "event"
                            /\ output'[n + i].event.sequence = cursor + i
        BY <3>5, <4>1
      <4>3. \A i \in 1..Len(output') :
              i \in 1..n \/ (i - n \in 1..m /\ n + (i - n) = i)
        BY <2>3, <3>5
      <4>4. OnTheWay' = {n + i : i \in 1..m}
        <5>1. \A i \in 1..n : output'[i].kind # "event"
          BY <2>5, <3>5 DEF OnTheWay, n
        <5>2. \A i \in 1..m : n + i \in 1..Len(output')
          BY <2>3, <3>5
        <5>3. \A i \in OnTheWay' : \E k \in 1..m : i = n + k
          BY <4>3, <5>1 DEF OnTheWay
        <5>4. \A k \in 1..m : n + k \in OnTheWay'
          BY <4>2, <5>2 DEF OnTheWay
        <5> QED
          BY <5>3, <5>4
      <4>5. Results' = {}
        <5>1. \A i \in 1..n : output'[i].kind # "initialized_result"
          BY <3>2, <3>5 DEF Results, n
        <5>2. \A i \in 1..Len(output') : output'[i].kind # "initialized_result"
          BY <4>2, <4>3, <5>1
        <5> QED
          BY <5>2 DEF Results
      <4>6. {output'[i].event.sequence : i \in OnTheWay'}
              = {cursor + i : i \in 1..m}
        BY <4>2, <4>4
      <4>7. {cursor + i : i \in 1..m} = cursor + 1..Latest(replay)
        <5>1. \A i \in 1..m : cursor + i \in cursor + 1..Latest(replay)
          BY <2>3, <3>5, <4>1
        <5>2. \A k \in cursor + 1..Latest(replay) :
                k - cursor \in 1..m /\ cursor + (k - cursor) = k
          BY <2>3, <3>5, <4>1
        <5> QED
          BY <5>1, <5>2
      <4>8. \A i, j \in OnTheWay' : i < j =>
              output'[i].event.sequence < output'[j].event.sequence
        <5> SUFFICES ASSUME NEW i \in 1..m, NEW j \in 1..m, n + i < n + j
                     PROVE  output'[n + i].event.sequence
                              < output'[n + j].event.sequence
          BY <4>4
        <5>1. cursor + i < cursor + j
          BY <2>3, <3>5
        <5> QED
          BY <4>2, <5>1
      <4>9. StreamContinues'
        <5>1. Latest(replay)' = Latest(replay) /\ model' = model
          BY <1>1 DEF Latest
        <5>2. whole' => ~model.sequence_gap
          BY <2>1, <2>3 DEF Behind
        <5> QED
          BY <3>1, <4>6, <4>7, <4>8, <5>1, <5>2 DEF StreamContinues
      <4> QED
        BY <2>6, <2>7, <2>8, <2>9, <3>6, <4>5, <4>9 DEF ResultsInv
    <3> QED
      BY <3>7, <3>8
  <2> QED
    BY <2>10, <2>11
<1> QED
  BY <1>3, <1>4 DEF HandleInitialized

(* _open_transport: the new connection's number is that of no frame that   *)
(* is still queued, and its initialize carries the client's cursor.        *)
LEMMA ConnectKeepsTheStream ==
  ASSUME TypeOK, StreamInv, Connects
  PROVE  StreamInv'
<1> USE DEF StreamInv, Handshake
<1> DEFINE g == accepted + 1
           connected == [kind |-> "connected", generation |-> g]
           initialize == [kind |-> "initialize", generation |-> g,
                          id |-> client.next_id,
                          last_sequence |-> client.last_sequence]
           n == Len(input)
<1>1. /\ link = 0 /\ link' = g /\ accepted' = g
      /\ input' = input \o <<connected, initialize>>
      /\ UNCHANGED <<replay, broker, owed, approval, output, model, whole>>
  BY DEF Connects, Opening, NextGeneration
<1>2. /\ accepted \in Nat /\ broker.generation \in Nat
      /\ input \in Seq(Items) /\ output = <<>>
      /\ client.last_sequence = model.last_sequence
      /\ client.next_id \in Nat /\ client.last_sequence \in Nat
  BY <1>1, SilentWithoutLink DEF TypeOK, BrokerTypeOK, ClientTypeOK
<1>3. client'.conn.state = "negotiating"
  BY ConnectionSteps DEF Connects, TypeOK, ClientTypeOK, Conns
<1>4. connected \in Items /\ initialize \in Items
  BY <1>2 DEF Items
<1> DEFINE two == <<connected, initialize>>
<1>5. /\ two \in Seq(Items) /\ Len(two) = 2
      /\ two[1] = connected /\ two[2] = initialize
  BY <1>4
<1>6. /\ n \in Nat /\ Len(input') = n + 2
      /\ \A i \in 1..n : input'[i] = input[i]
      /\ input'[n + 1] = connected /\ input'[n + 2] = initialize
  <2> HIDE DEF two, connected, initialize
  <2>1. /\ Len(input \o two) = n + Len(two) /\ n \in Nat
        /\ \A i \in 1..n : (input \o two)[i] = input[i]
        /\ \A i \in 1..Len(two) : (input \o two)[n + i] = two[i]
    <3>1. input \in Seq(Items) /\ two \in Seq(Items)
      BY <1>2, <1>5
    <3> QED
      BY <3>1, ConcatElements
  <2>2. input' = input \o two
    BY <1>1 DEF two, connected, initialize
  <2>3. 1 \in 1..Len(two) /\ 2 \in 1..Len(two)
    BY <1>5
  <2>4. input'[n + 1] = connected /\ input'[n + 2] = initialize
    BY <1>5, <2>1, <2>2, <2>3
  <2> QED
    BY <1>5, <2>1, <2>2, <2>4
<1>7. \A i \in 1..Len(input') : i \in 1..n \/ i = n + 1 \/ i = n + 2
  BY <1>6
<1>8. ~Served' /\ ~Live' /\ ~Greeted'
  BY <1>1, <1>2 DEF Numbered, Served, Live, Greeted
<1>9. OnTheWay' = {} /\ Results' = {}
  BY <1>1, <1>2, EmptyType DEF OnTheWay, Results
<1>10. Numbered'
  <2>1. \A i \in 1..n : input[i].generation \in Nat /\ input[i].generation =< accepted
    BY <1>2 DEF Numbered, Items
  <2>2. \A i \in 1..Len(input') :
          /\ input'[i].generation =< g
          /\ input'[i].kind = "closed" => input'[i].generation # g
    <3>1. connected.generation = g /\ connected.kind # "closed"
          /\ initialize.generation = g /\ initialize.kind # "closed"
      OBVIOUS
    <3>2. \A i \in 1..n :
            input[i].generation =< g /\ input[i].generation # g
      BY <1>2, <2>1
    <3>3. g =< g
      BY <1>2
    <3> HIDE DEF connected, initialize, g
    <3> QED
      BY <1>6, <1>7, <3>1, <3>2, <3>3
  <2>3. broker.generation =< g
    BY <1>2 DEF Numbered
  <2> QED
    BY <1>1, <1>8, <2>2, <2>3 DEF Numbered
<1>11. FramesInv'
  <2>1. \A i \in 1..n : input[i].generation # g
    <3>1. \A i \in 1..n :
            input[i].generation \in Nat /\ input[i].generation =< accepted
      BY <1>2 DEF Numbered, Items
    <3> QED
      BY <1>2, <3>1
  <2>2. /\ connected.kind = "connected" /\ initialize.kind = "initialize"
        /\ initialize.last_sequence = model.last_sequence
    BY <1>2
  <2> QED
    BY <1>1, <1>6, <1>7, <2>1, <2>2 DEF FramesInv
<1>12. NothingEarly' /\ ResultsInv' /\ StreamContinues' /\ CursorInv'
  BY <1>3, <1>8, <1>9 DEF NothingEarly, ResultsInv, StreamContinues, CursorInv
<1>13. Behind'
  BY <1>1 DEF Behind, Latest
<1> QED
  BY <1>10, <1>11, <1>12, <1>13

(* The initialize callback: the client's cursor becomes the broker's.      *)
LEMMA AcknowledgedKeepsTheStream ==
  ASSUME TypeOK, StreamInv, ReceiveInitialized
  PROVE  StreamInv'
<1> USE DEF StreamInv, Handshake
<1> DEFINE result == Head(output)
           frame == [kind |-> "initialized", generation |-> link]
<1>1. /\ output # <<>> /\ output' = Tail(output)
      /\ result.kind = "initialized_result"
      /\ input' = Append(input, frame)
      /\ UNCHANGED <<replay, broker, accepted, link>>
  BY DEF ReceiveInitialized, Message
<1>2. /\ output \in Seq(Messages) /\ input \in Seq(Items)
      /\ link \in Nat /\ link =< accepted /\ accepted \in Nat
  BY DEF TypeOK, BrokerTypeOK, ClientTypeOK
<1>3. /\ Len(output) \in Nat \ {0} /\ Len(output') = Len(output) - 1
      /\ result = output[1]
      /\ \A i \in 1..Len(output') : output'[i] = output[i + 1]
  BY <1>1, <1>2, TailElements
<1>4. 1 \in Results
  BY <1>1, <1>3 DEF Results
<1>5. /\ Served /\ broker.phase = "AwaitInitialized"
      /\ result.latest =< Latest(replay)
      /\ broker.cursor = IF result.resync THEN result.latest
                                          ELSE model.last_sequence
      /\ Results = {1}
  BY <1>3, <1>4 DEF ResultsInv
<1>6. ~Live /\ ~Live' /\ Served' /\ Greeted /\ Greeted'
  BY <1>1, <1>5 DEF Live, Served, Greeted
<1>7. OnTheWay = {}
  BY <1>6 DEF NothingEarly
<1>8. OnTheWay' = {} /\ Results' = {}
  <2>1. \A i \in 1..Len(output') : i + 1 \in 1..Len(output) /\ i + 1 # 1
    BY <1>3
  <2> QED
    BY <1>3, <1>5, <1>7, <2>1 DEF OnTheWay, Results
<1>9. result.latest \in Nat /\ result.resync \in BOOLEAN
  BY <1>1, MessageType
<1>10. /\ client'.conn.state = "connected"
       /\ model'.last_sequence = broker.cursor
       /\ result.resync => ~model'.sequence_gap
       /\ ~result.resync => model' = model
       /\ whole' = (whole \/ result.resync)
  <2>1. /\ client' = [client EXCEPT
              !.conn = Connection!Ready(@),
              !.pending = @ \ {result.id},
              !.last_sequence = IF result.resync THEN result.latest ELSE @]
        /\ model' = IF result.resync THEN BeginResync(result.latest) ELSE model
        /\ whole' = (whole \/ result.resync)
    BY DEF ReceiveInitialized
  <2>3. client'.conn = Connection!Ready(client.conn) /\ client.conn \in Conns
    BY <2>1 DEF TypeOK, ClientTypeOK, Conns
  <2>2. client'.conn.state = "connected"
    BY <2>3, ConnectionSteps
  <2> QED
    BY <1>5, <2>1, <2>2 DEF BeginResync
<1>11. Behind'
  <2>1. Latest(replay)' = Latest(replay)
    BY <1>1 DEF Latest
  <2>2. CASE result.resync
    BY <1>5, <1>10, <2>1, <2>2 DEF Behind
  <2>3. CASE ~result.resync
    BY <1>5, <1>10, <2>1, <2>3 DEF Behind, TypeOK, ClientTypeOK
  <2> QED
    BY <2>2, <2>3
<1>12. /\ Len(input) \in Nat /\ Len(input') = Len(input) + 1
       /\ input'[Len(input) + 1] = frame
       /\ \A i \in 1..Len(input) : input'[i] = input[i]
  <2>1. frame \in Items
    BY <1>2 DEF Items
  <2> HIDE DEF frame
  <2> QED
    BY <1>1, <1>2, <2>1, AppendElements
<1>13. \A i \in 1..Len(input') : i \in 1..Len(input) \/ i = Len(input) + 1
  BY <1>12
<1>14. Numbered'
  <2>1. \A i \in 1..Len(input') :
          /\ input'[i].generation =< accepted
          /\ link # 0 /\ input'[i].kind = "closed" =>
               input'[i].generation # link
    BY <1>2, <1>12, <1>13 DEF Numbered
  <2> QED
    BY <1>1, <1>5, <2>1 DEF Numbered
<1>15. FramesInv' /\ CursorInv'
  BY <1>1, <1>6, <1>10 DEF FramesInv, CursorInv
<1>16. NothingEarly' /\ ResultsInv' /\ StreamContinues'
  BY <1>6, <1>8 DEF NothingEarly, ResultsInv, StreamContinues
<1> QED
  BY <1>11, <1>14, <1>15, <1>16

(* apply_event: the event read is the one after the client's cursor.       *)
LEMMA EventKeepsTheStream ==
  ASSUME TypeOK, StreamInv, ReceiveEvent
  PROVE  StreamInv'
<1> USE DEF StreamInv, Handshake
<1> DEFINE event == Head(output).event
           last == model.last_sequence
<1>1. /\ output # <<>> /\ output' = Tail(output)
      /\ Head(output).kind = "event" /\ model' = Applied(event)
      /\ UNCHANGED <<replay, broker, input, accepted, link, whole>>
  BY DEF ReceiveEvent, Message
<1>2. /\ output \in Seq(Messages) /\ last \in Nat
      /\ Latest(replay) \in Nat /\ event.sequence \in Nat
  BY <1>1, MessageType DEF TypeOK, ClientTypeOK, ReplayTypeOK, Latest, Events
<1>3. /\ Len(output) \in Nat \ {0} /\ Len(output') = Len(output) - 1
      /\ Head(output) = output[1]
      /\ \A i \in 1..Len(output') : output'[i] = output[i + 1]
  BY <1>1, <1>2, TailElements
<1>4. 1 \in OnTheWay /\ event = output[1].event
  BY <1>1, <1>3 DEF OnTheWay
<1>5. Live /\ Live' /\ Served' = Served /\ Greeted /\ Greeted'
  BY <1>1, <1>4 DEF NothingEarly, Live, Served, Greeted
<1>6. Results = {} /\ Results' = {}
  <2>1. Results = {}
    BY <1>5 DEF ResultsInv, Live
  <2>2. ASSUME NEW i \in Results'
        PROVE  i + 1 \in Results
    <3>1. i \in 1..Len(output') /\ output'[i].kind = "initialized_result"
      BY DEF Results
    <3>2. i + 1 \in 1..Len(output) /\ output'[i] = output[i + 1]
      BY <1>3, <3>1
    <3> QED
      BY <3>1, <3>2 DEF Results
  <2> QED
    BY <2>1, <2>2
<1>7. client'.conn.state = client.conn.state
  BY DEF ReceiveEvent, TypeOK, ClientTypeOK
<1>8. /\ OnTheWay' = {i - 1 : i \in OnTheWay \ {1}}
      /\ \A i \in OnTheWay' : i + 1 \in OnTheWay /\ i + 1 # 1
                              /\ output'[i] = output[i + 1]
  <2>1. \A i \in OnTheWay' : i + 1 \in OnTheWay \ {1} /\ (i + 1) - 1 = i
                             /\ output'[i] = output[i + 1]
    <3> TAKE i \in OnTheWay'
    <3>1. i \in 1..Len(output') /\ output'[i].kind = "event"
      BY DEF OnTheWay
    <3>2. /\ i + 1 \in 1..Len(output) /\ i + 1 # 1 /\ (i + 1) - 1 = i
          /\ output'[i] = output[i + 1]
      BY <1>3, <3>1
    <3> QED
      BY <3>1, <3>2 DEF OnTheWay
  <2>2. \A i \in OnTheWay \ {1} : i - 1 \in OnTheWay'
    <3> TAKE i \in OnTheWay \ {1}
    <3>1. i - 1 \in 1..Len(output') /\ (i - 1) + 1 = i
      BY <1>3 DEF OnTheWay
    <3>2. output'[i - 1] = output[i]
      BY <1>3, <3>1
    <3> QED
      BY <3>1, <3>2 DEF OnTheWay
  <2> QED
    BY <2>1, <2>2
<1>9. Numbered' /\ NothingEarly' /\ ResultsInv' /\ CursorInv' /\ FramesInv'
  BY <1>1, <1>5, <1>6, <1>7
     DEF Numbered, NothingEarly, ResultsInv, CursorInv, FramesInv, Live
<1>10. CASE ~whole
  BY <1>1, <1>9, <1>10 DEF Behind, StreamContinues
<1>11. CASE whole
  <2>1. /\ ~model.sequence_gap
        /\ {output[i].event.sequence : i \in OnTheWay} = last + 1..Latest(replay)
        /\ \A i, j \in OnTheWay :
             i < j => output[i].event.sequence < output[j].event.sequence
    BY <1>5, <1>11 DEF StreamContinues
  <2>2. event.sequence = last + 1
    <3>1. event.sequence \in last + 1..Latest(replay)
      BY <1>4, <2>1
    <3>2. last + 1 \in last + 1..Latest(replay)
      BY <1>2, <3>1
    <3>3. PICK i \in OnTheWay : output[i].event.sequence = last + 1
      BY <2>1, <3>2
    <3>4. i \in Nat /\ i >= 1
      BY DEF OnTheWay
    <3>5. CASE i > 1
      <4>1. event.sequence < last + 1
        BY <1>4, <2>1, <3>3, <3>5
      <4> QED
        BY <1>2, <3>1, <4>1
    <3> QED
      BY <1>4, <3>3, <3>4, <3>5
  <2>3. /\ model'.last_sequence = last + 1
        /\ ~model'.sequence_gap
    <3> HIDE DEF event
    <3>1. ~(event.sequence <= model.last_sequence)
      BY <1>2, <2>2
    <3> QED
      BY <1>1, <2>1, <2>2, <3>1 DEF Applied
  <2>4. Latest(replay)' = Latest(replay)
    BY <1>1 DEF Latest
  <2>5. last + 1 =< Latest(replay)
    BY <1>2, <1>4, <2>1, <2>2
  <2>6. Behind'
    BY <2>3, <2>4, <2>5 DEF Behind
  <2>7. {output'[i].event.sequence : i \in OnTheWay'}
          = {output[i].event.sequence : i \in OnTheWay \ {1}}
    <3>1. \A i \in OnTheWay \ {1} :
            i - 1 \in OnTheWay' /\ output'[i - 1] = output[i]
      <4> TAKE i \in OnTheWay \ {1}
      <4>1. i - 1 \in OnTheWay' /\ (i - 1) + 1 = i
        BY <1>8 DEF OnTheWay
      <4> QED
        BY <1>8, <4>1
    <3> QED
      BY <1>8, <3>1
  <2>8. {output[i].event.sequence : i \in OnTheWay \ {1}}
          = (last + 1) + 1..Latest(replay)
    <3>1. \A i \in OnTheWay \ {1} :
            output[i].event.sequence \in (last + 1) + 1..Latest(replay)
      <4> TAKE i \in OnTheWay \ {1}
      <4>1. 1 < i
        BY DEF OnTheWay
      <4>2. last + 1 < output[i].event.sequence
        BY <1>4, <2>1, <2>2, <4>1
      <4>3. output[i].event.sequence \in last + 1..Latest(replay)
        BY <2>1
      <4> QED
        BY <1>2, <4>2, <4>3
    <3>2. \A k \in (last + 1) + 1..Latest(replay) :
            \E i \in OnTheWay \ {1} : output[i].event.sequence = k
      <4> TAKE k \in (last + 1) + 1..Latest(replay)
      <4>1. k \in last + 1..Latest(replay) /\ k # last + 1
        BY <1>2
      <4>2. PICK i \in OnTheWay : output[i].event.sequence = k
        BY <2>1, <4>1
      <4>3. i # 1
        BY <1>4, <2>2, <4>1, <4>2
      <4> QED
        BY <4>2, <4>3
    <3> QED
      BY <3>1, <3>2
  <2>9. \A i, j \in OnTheWay' : i < j =>
          output'[i].event.sequence < output'[j].event.sequence
    <3> TAKE i, j \in OnTheWay'
    <3>1. i < j => i + 1 < j + 1
      BY DEF OnTheWay
    <3> QED
      BY <1>8, <2>1, <3>1
  <2>10. StreamContinues'
    BY <2>3, <2>4, <2>7, <2>8, <2>9 DEF StreamContinues
  <2> QED
    BY <1>9, <2>6, <2>10
<1> QED
  BY <1>10, <1>11

(* A connection that is lost, with Neovim or with the broker: nothing is    *)
(* served until the next one, and a restarted broker is ahead only of a    *)
(* client that has seen nothing.                                           *)
LEMMA FailuresKeepTheStream ==
  ASSUME TypeOK, StreamInv,
         ConnectionLost \/ ConnectionRefused \/ NvimRestart \/ BrokerRestart
  PROVE  StreamInv'
<1> USE DEF StreamInv, Handshake
<1>1. link' = 0 /\ output' = <<>>
  BY LossForgets
<1>2. ~Served' /\ ~Live' /\ ~Greeted'
  BY <1>1 DEF Served, Live, Greeted
<1>3. OnTheWay' = {} /\ Results' = {}
  BY <1>1, EmptyType DEF OnTheWay, Results
<1>4. NothingEarly' /\ ResultsInv' /\ CursorInv' /\ FramesInv'
      /\ StreamContinues'
  BY <1>1, <1>2, <1>3
     DEF NothingEarly, ResultsInv, CursorInv, FramesInv, StreamContinues
<1>5. CASE ConnectionLost \/ ConnectionRefused \/ NvimRestart
  <2>1. UNCHANGED <<replay, broker, accepted>>
    BY <1>5 DEF ConnectionLost, ConnectionRefused, NvimRestart
  <2>2. /\ link \in Nat /\ link =< accepted /\ accepted \in Nat
        /\ Latest(replay) \in Nat
    BY DEF TypeOK, BrokerTypeOK, ClientTypeOK, ReplayTypeOK, Latest
  <2>3. Numbered'
    <3>1. CASE \E k \in 0..Len(input) : link # 0 /\ CutTo(k)
      <4>1. PICK k \in 0..Len(input) : link # 0 /\ CutTo(k)
        BY <3>1
      <4>2. /\ Len(input') = k + 1 /\ Len(input) \in Nat
            /\ \A i \in 1..k : input'[i] = input[i]
            /\ input'[k + 1] = [kind |-> "closed", generation |-> link]
        BY <4>1, CutType
      <4>3. \A i \in 1..k : i \in 1..Len(input)
        BY <4>2
      <4>4. \A i \in 1..Len(input') : i \in 1..k \/ i = k + 1
        BY <4>2
      <4>5. \A i \in 1..k : input'[i].generation =< accepted
        BY <4>2, <4>3 DEF Numbered
      <4>6. input'[k + 1].generation =< accepted
        BY <2>2, <4>2
      <4> QED
        BY <1>1, <1>2, <2>1, <4>4, <4>5, <4>6 DEF Numbered
    <3>2. CASE link = 0 /\ input' = input
      BY <1>1, <1>2, <2>1, <3>2 DEF Numbered
    <3> QED
      BY <1>5, <3>1, <3>2
         DEF ConnectionLost, ConnectionRefused, Opening, NvimRestart
  <2>4. Latest(replay)' = Latest(replay)
    BY <2>1 DEF Latest
  <2>5. CASE ConnectionLost \/ ConnectionRefused
    <3>1. /\ model'.last_sequence = model.last_sequence
          /\ model'.sequence_gap = model.sequence_gap
          /\ whole' = whole
      BY <2>5 DEF ConnectionLost, ConnectionRefused, LoseConnection, TypeOK,
                  ClientTypeOK
    <3> QED
      BY <1>4, <2>3, <2>4, <3>1 DEF Behind
  <2>6. CASE NvimRestart
    <3>1. model' = NewModel
      BY <2>6 DEF NvimRestart
    <3>2. 0 =< Latest(replay)
      BY <2>2
    <3> QED
      BY <1>4, <2>3, <2>4, <3>1, <3>2 DEF Behind, NewModel
  <2> QED
    BY <1>5, <2>5, <2>6
<1>6. CASE BrokerRestart
  <2>1. Numbered'
    BY <1>2, <1>6, EmptyType DEF BrokerRestart, NewBroker, Numbered
  <2>3. /\ model'.last_sequence = model.last_sequence
        /\ model'.sequence_gap = model.sequence_gap
    BY <1>6 DEF BrokerRestart, LoseConnection, TypeOK, ClientTypeOK
  <2>2. Behind'
    BY <1>6, <2>3
       DEF BrokerRestart, EmptyBuffer, Behind, Latest, TypeOK, ClientTypeOK
  <2> QED
    BY <1>4, <2>1, <2>2
<1> QED
  BY <1>5, <1>6


(* send_runtime_response: only a response joins the stream. *)
LEMMA TaskAnswerKeepsTheStream ==
  ASSUME TypeOK, StreamInv, NEW request, TaskAnswers(request)
  PROVE  StreamInv'
<1>1. /\ input' = input
      /\ UNCHANGED <<replay, accepted, link, model, whole, client>>
  BY DEF TaskAnswers
<1>2. /\ broker'.generation = broker.generation
      /\ broker'.phase = broker.phase
      /\ broker'.output = broker.output
      /\ broker'.cursor = broker.cursor
  BY DEF TaskAnswers, TypeOK, BrokerTypeOK
<1>3. SameStream
  <2>1. CASE output' = output
    BY <2>1, SameStreamWhenUnchanged
  <2>2. CASE \E p \in broker.pending : Send(Response(p.public_id, p.origin))
    <3>1. PICK p \in broker.pending : Send(Response(p.public_id, p.origin))
      BY <2>2
    <3>2. p.public_id \in Nat /\ p.origin \in Nat
      BY DEF TypeOK, BrokerTypeOK, Registered
    <3> QED
      BY <3>1, <3>2, SameStreamWhenAnswered
  <2> QED
    BY <2>1, <2>2 DEF TaskAnswers
<1> QED
  BY <1>1, <1>2, <1>3, SameFramesWhenUnchanged, SameConnection

(* handle_request: a refusal is a response, a deferred call is registered. *)
LEMMA RequestKeepsTheStream ==
  ASSUME TypeOK, StreamInv, HandleRequest
  PROVE  StreamInv'
<1>1. /\ input # <<>> /\ input' = Tail(input) /\ Head(input).kind = "request"
      /\ UNCHANGED <<replay, accepted, link, model, whole, client>>
  BY DEF HandleRequest, Item
<1>2. /\ broker'.generation = broker.generation
      /\ broker'.phase = broker.phase
      /\ broker'.output = broker.output
      /\ broker'.cursor = broker.cursor
  BY DEF HandleRequest, TypeOK, BrokerTypeOK
<1>3. SameStream
  <2>1. CASE output' = output
    BY <2>1, SameStreamWhenUnchanged
  <2>2. CASE Send(Response(Head(input).id, Head(input).generation))
    BY <1>1, <2>2, ItemType, SameStreamWhenAnswered
  <2> QED
    BY <2>1, <2>2 DEF HandleRequest
<1> QED
  BY <1>1, <1>2, <1>3, SameFramesWhenRead, SameConnection

(* request: one more call over the connection in use. *)
LEMMA CallKeepsTheStream ==
  ASSUME TypeOK, StreamInv, Call
  PROVE  StreamInv'
<1> DEFINE call == [kind |-> "request", generation |-> link,
                    id |-> client.next_id]
<1>1. /\ input' = Append(input, call) /\ output' = output
      /\ UNCHANGED <<replay, broker, accepted, link, model, whole>>
  BY DEF Call
<1>2. client'.conn.state = client.conn.state
  BY DEF Call, TypeOK, ClientTypeOK
<1>3. SameFrames
  <2>1. input \in Seq(Items) /\ link \in Nat /\ client.next_id \in Nat
    BY DEF TypeOK, BrokerTypeOK, ClientTypeOK
  <2>2. call \in Items /\ call.kind = "request" /\ call.generation = link
    BY <2>1 DEF Items
  <2> HIDE DEF call
  <2>3. /\ Len(input) \in Nat /\ Len(input') = Len(input) + 1
        /\ input'[Len(input) + 1] = call
        /\ \A i \in 1..Len(input) : input'[i] = input[i]
    BY <1>1, <2>1, <2>2, AppendElements
  <2>4. \A i \in 1..Len(input') : i \in 1..Len(input) \/ i = Len(input) + 1
    BY <2>3
  <2> QED
    BY <2>2, <2>3, <2>4 DEF SameFrames
<1> QED
  BY <1>1, <1>2, <1>3, SameStreamWhenUnchanged, SameConnection

(* start and the reconnect timer open a pipe, and touch no connection in   *)
(* use.                                                                    *)
LEMMA WaitingSteps ==
  ASSUME TypeOK, Start \/ TimerFires
  PROVE  /\ link # 0 => client'.conn.state = client.conn.state
         /\ UNCHANGED <<replay, broker, owed, approval, input, accepted, link,
                        output, model, whole>>
<1>1. UNCHANGED <<replay, broker, owed, approval, input, accepted, link,
                  output, model, whole>>
  BY DEF Start, TimerFires
<1>2. client.conn \in Conns /\ (link # 0 => Linked(client.conn))
  BY DEF TypeOK, ClientTypeOK, Conns, Linked
<1>3. CASE Start
  <2>1. client'.conn = Connection!Started(client.conn)
    BY <1>3 DEF Start, TypeOK, ClientTypeOK
  <2> QED
    BY <1>1, <1>2, <2>1, ConnectionSteps
<1>4. CASE TimerFires
  <2>1. client'.conn = Connection!TimerFired(client.conn)
    BY <1>4 DEF TimerFires, TypeOK, ClientTypeOK
  <2> QED
    BY <1>1, <1>2, <2>1, ConnectionSteps
<1> QED
  BY <1>3, <1>4

LEMMA WaitingKeepsTheStream ==
  ASSUME TypeOK, StreamInv, Start \/ TimerFires
  PROVE  StreamInv'
  BY WaitingSteps, SameStreamWhenUnchanged, SameFramesWhenUnchanged,
     SameConnection

(* _handle_message: a response leaves the connection. *)
LEMMA ResponseKeepsTheStream ==
  ASSUME TypeOK, StreamInv, ReceiveResponse
  PROVE  StreamInv'
<1>1. /\ Message("response") /\ output' = Tail(output) /\ input' = input
      /\ UNCHANGED <<replay, broker, accepted, link, model, whole>>
  BY DEF ReceiveResponse
<1>2. client'.conn.state = client.conn.state
  BY DEF ReceiveResponse, TypeOK, ClientTypeOK
<1> QED
  BY <1>1, <1>2, SameFramesWhenUnchanged, SameStreamWhenRead, SameConnection

(* Every step of the broker, the client and the connection. *)
LEMMA StreamStep ==
  ASSUME TypeOK, StreamInv, [Next]_vars
  PROVE  StreamInv'
<1>1. CASE ProviderNote
  <2>1. Event("note", None) \in Events
    BY DEF Event, Events
  <2> QED
    BY <1>1, <2>1, PublishKeepsTheStream DEF ProviderNote
<1>2. CASE \E a \in Approvals : ApprovalRequested(a) \/ ApprovalResolved(a)
  <2>1. PICK a \in Approvals : ApprovalRequested(a) \/ ApprovalResolved(a)
    BY <1>2
  <2>2. /\ Event("approval.requested", a) \in Events
        /\ Event("approval.resolved", a) \in Events
    BY DEF Event, Events
  <2> QED
    BY <2>1, <2>2, PublishKeepsTheStream
       DEF ApprovalRequested, ApprovalResolved
<1>3. CASE \E request \in owed : TaskAnswers(request)
  BY <1>3, TaskAnswerKeepsTheStream
<1>4. CASE BrokerReads
  BY <1>4, ConnectedKeepsTheStream, ClosedKeepsTheStream,
     InitializeKeepsTheStream, InitializedKeepsTheStream,
     RequestKeepsTheStream DEF BrokerReads
<1>5. CASE Connects
  BY <1>5, ConnectKeepsTheStream
<1>10. CASE Start \/ TimerFires
  BY <1>10, WaitingKeepsTheStream
<1>6. CASE Call
  BY <1>6, CallKeepsTheStream
<1>7. CASE ClientReads
  BY <1>7, AcknowledgedKeepsTheStream, ResponseKeepsTheStream,
     EventKeepsTheStream DEF ClientReads
<1>8. CASE \/ ConnectionLost \/ ConnectionRefused
           \/ NvimRestart \/ BrokerRestart
  BY <1>8, FailuresKeepTheStream
<1>9. CASE UNCHANGED vars
  BY <1>9, SameStreamWhenUnchanged, SameFramesWhenUnchanged, SameConnection
     DEF vars
<1> QED
  BY <1>1, <1>2, <1>3, <1>4, <1>5, <1>6, <1>7, <1>8, <1>9, <1>10 DEF Next

(* The invariant of the handshake and the stream holds in every state. *)
LEMMA StreamInvariant ==
  Spec => []StreamInv
<1>1. Init => StreamInv
  <2> SUFFICES ASSUME Init
               PROVE  StreamInv
    OBVIOUS
  <2>1. link = 0 /\ output = <<>> /\ input = <<>> /\ whole = TRUE
    BY DEF Init
  <2>2. ~Served /\ ~Live /\ OnTheWay = {} /\ Results = {}
    BY <2>1, EmptyType DEF Served, Live, OnTheWay, Results
  <2>3. Numbered
    BY <2>1, <2>2, EmptyType DEF Init, NewBroker, Numbered
  <2>4. Behind
    BY DEF Init, NewModel, EmptyBuffer, Behind, Latest
  <2>5. Handshake /\ StreamContinues
    BY <2>1, <2>2, EmptyType DEF Handshake, NothingEarly, ResultsInv,
       CursorInv, FramesInv, StreamContinues
  <2> QED
    BY <2>3, <2>4, <2>5 DEF StreamInv
<1>2. TypeOK /\ StreamInv /\ [Next]_vars => StreamInv'
  BY StreamStep
<1> QED
  BY <1>1, <1>2, ReconnectTypeCorrect, PTL DEF Spec

(* initialize, initialized and replay_after: for every capacity of the     *)
(* window and any number of lost connections and restarts, what a client   *)
(* is replayed and what it is then sent live continue what it has applied, *)
(* without a hole, a repetition or a reordering, unless the broker skipped *)
(* a replay since the client's baseline.                                   *)
THEOREM ReplayMeetsLive ==
  Spec => []StreamContinues
<1>1. StreamInv => StreamContinues
  BY DEF StreamInv
<1> QED
  BY <1>1, StreamInvariant, PTL

-----------------------------------------------------------------------------
(* Reconnecting neither resurrects an approval nor hides one.              *)

(* The connection a place of the ClientInput queue belongs to; place 0 is  *)
(* the broker itself, which has read everything before the queue.          *)
Gen(i) == IF i = 0 THEN broker.generation ELSE input[i].generation

(* After this place the connection is closed. *)
Shut(i) == IF i = 0 THEN ~broker.output ELSE input[i].kind = "closed"

(* accept_clients serves one connection at a time: in the queue, the items *)
(* of a connection follow each other, nothing follows its close but the    *)
(* next connection, and that one has a higher number.                      *)
Blocks ==
  /\ \A i, j \in 0..Len(input) :
       i < j /\ (\A m \in i+1..j : input[m].kind # "connected") =>
         Gen(i) = Gen(j) /\ ~Shut(i)
  /\ \A i \in 1..Len(input) :
       input[i].kind = "connected" => Shut(i - 1) /\ Gen(i - 1) < Gen(i)
  /\ Gen(Len(input)) = accepted
  /\ Shut(Len(input)) <=> link = 0
  /\ ~broker.output => broker.phase = "AwaitInitialize"

(* An item the broker reads leaves the rest of the queue as it was. *)
LEMMA ReadKeepsBlocks ==
  ASSUME TypeOK, Blocks, input # <<>>, input' = Tail(input),
         UNCHANGED <<accepted, link>>,
         broker'.generation = input[1].generation,
         broker'.output <=> input[1].kind # "closed",
         ~broker'.output => broker'.phase = "AwaitInitialize"
  PROVE  Blocks'
<1>1. input \in Seq(Items)
  BY DEF TypeOK, BrokerTypeOK
<1>2. /\ Len(input) \in Nat \ {0} /\ Len(input') = Len(input) - 1
      /\ \A i \in 1..Len(input') : input'[i] = input[i + 1]
  BY <1>1, TailElements
<1>3. \A i \in 0..Len(input') :
        /\ i + 1 \in 1..Len(input)
        /\ Gen(i)' = Gen(i + 1) /\ (Shut(i)' <=> Shut(i + 1))
  <2> TAKE i \in 0..Len(input')
  <2>1. CASE i = 0
    BY <1>2, <2>1 DEF Gen, Shut
  <2>2. CASE i # 0
    <3>1. i \in 1..Len(input') /\ i + 1 # 0
      BY <1>2, <2>2
    <3> QED
      BY <1>2, <3>1, <2>2 DEF Gen, Shut
  <2> QED
    BY <2>1, <2>2
<1>4. ASSUME NEW i \in 0..Len(input'), NEW j \in 0..Len(input'), i < j,
             \A m \in i+1..j : input'[m].kind # "connected"
      PROVE  Gen(i)' = Gen(j)' /\ ~Shut(i)'
  <2>1. ASSUME NEW m \in (i+1)+1..j+1
        PROVE  input[m].kind # "connected"
    <3>1. m - 1 \in i+1..j /\ m - 1 \in 1..Len(input') /\ (m - 1) + 1 = m
      BY <1>2
    <3> QED
      BY <1>2, <1>4, <3>1
  <2>2. i + 1 \in 0..Len(input) /\ j + 1 \in 0..Len(input) /\ i + 1 < j + 1
    BY <1>2, <1>4
  <2> QED
    BY <1>3, <2>1, <2>2 DEF Blocks
<1>5. ASSUME NEW i \in 1..Len(input'), input'[i].kind = "connected"
      PROVE  Shut(i - 1)' /\ Gen(i - 1)' < Gen(i)'
  <2>1. /\ i - 1 \in 0..Len(input') /\ i \in 0..Len(input')
        /\ (i - 1) + 1 = i /\ i + 1 \in 1..Len(input) /\ (i + 1) - 1 = i
    BY <1>2
  <2>2. Shut(i) /\ Gen(i) < Gen(i + 1)
    BY <1>2, <1>5, <2>1 DEF Blocks
  <2> QED
    BY <1>3, <2>1, <2>2
<1>6. /\ Len(input') \in 0..Len(input') /\ Len(input') + 1 = Len(input)
  BY <1>2
<1>7. /\ Gen(Len(input))' = accepted /\ (Shut(Len(input))' <=> link = 0)
  BY <1>3, <1>6 DEF Blocks
<1> QED
  BY <1>4, <1>5, <1>7 DEF Blocks
(* A frame of the connection in use joins the queue. *)
LEMMA FrameKeepsBlocks ==
  ASSUME TypeOK, Blocks, NEW frame \in Items, input' = Append(input, frame),
         frame.kind \in Frames, frame.generation = link, link # 0,
         UNCHANGED <<broker, accepted, link>>
  PROVE  Blocks'
<1>1. input \in Seq(Items) /\ link = accepted
  BY DEF TypeOK, BrokerTypeOK, ClientTypeOK
<1>0. PICK n \in Nat : n = Len(input)
  BY <1>1, LenType
<1>2. /\ n \in Nat /\ Len(input') = n + 1
      /\ input'[n + 1] = frame
      /\ \A i \in 1..n : input'[i] = input[i]
  BY <1>1, <1>0, AppendElements
<1>3. frame.kind # "connected" /\ frame.kind # "closed"
  BY DEF Frames
<1>4. \A i \in 0..n : Gen(i)' = Gen(i) /\ (Shut(i)' <=> Shut(i))
  <2> TAKE i \in 0..n
  <2>1. i = 0 \/ i \in 1..n
    BY <1>2
  <2> QED
    BY <1>2, <2>1 DEF Gen, Shut
<1>5. Gen(n + 1)' = accepted /\ ~Shut(n + 1)'
  <2>1. n + 1 # 0
    BY <1>2
  <2> QED
    BY <1>1, <1>2, <1>3, <2>1 DEF Gen, Shut
<1>6. Gen(n) = accepted /\ ~Shut(n)
  BY <1>0 DEF Blocks
<1>7. ASSUME NEW i \in 0..n + 1, NEW j \in 0..n + 1, i < j,
             \A m \in i+1..j : input'[m].kind # "connected"
      PROVE  Gen(i)' = Gen(j)' /\ ~Shut(i)'
  <2>1. CASE j \in 0..n
    <3>1. \A m \in i+1..j : m \in 1..n
      BY <1>2, <2>1
    <3>2. i \in 0..n
      BY <1>2, <1>7, <2>1
    <3>3. Gen(i) = Gen(j) /\ ~Shut(i)
      BY <1>2, <1>7, <1>0, <2>1, <3>1, <3>2 DEF Blocks
    <3> QED
      BY <1>4, <2>1, <3>2, <3>3
  <2>2. CASE j = n + 1
    <3>1. i \in 0..n
      BY <1>2, <1>7, <2>2
    <3>2. CASE i = n
      BY <1>4, <1>5, <1>6, <2>2, <3>1, <3>2
    <3>3. CASE i < n
      <4>1. \A m \in i+1..n : m \in i+1..j /\ m \in 1..n
        BY <1>2, <2>2, <3>1
      <4>2. Gen(i) = Gen(n) /\ ~Shut(i)
        BY <1>2, <1>7, <1>0, <3>1, <3>3, <4>1 DEF Blocks
      <4> QED
        BY <1>4, <1>5, <1>6, <2>2, <3>1, <4>2
    <3> QED
      BY <1>2, <3>1, <3>2, <3>3
  <2> QED
    BY <1>2, <2>1, <2>2
<1>8. ASSUME NEW i \in 1..n + 1, input'[i].kind = "connected"
      PROVE  Shut(i - 1)' /\ Gen(i - 1)' < Gen(i)'
  <2>1. i \in 1..n /\ i - 1 \in 0..n /\ i \in 0..n
    BY <1>2, <1>3, <1>8
  <2> QED
    BY <1>2, <1>4, <1>8, <1>0, <2>1 DEF Blocks
<1>9. /\ Gen(Len(input))' = accepted /\ (Shut(Len(input))' <=> link = 0)
  BY <1>2, <1>5
<1>10. ~broker'.output => broker'.phase = "AwaitInitialize"
  BY DEF Blocks
<1> QED
  BY <1>2, <1>10, <1>7, <1>8, <1>9 DEF Blocks

(* _open_transport: the next connection follows the close of the last. *)
LEMMA ConnectKeepsBlocks ==
  ASSUME TypeOK, Blocks, Connects
  PROVE  Blocks'
<1> DEFINE next == <<[kind |-> "connected", generation |-> accepted + 1],
                     [kind |-> "initialize", generation |-> accepted + 1,
                      id |-> client.next_id,
                      last_sequence |-> client.last_sequence]>>
<1>1. /\ input \in Seq(Items) /\ accepted \in Nat
      /\ client.next_id \in Nat /\ client.last_sequence \in Nat
  BY DEF TypeOK, BrokerTypeOK, ClientTypeOK
<1>2. /\ link = 0 /\ accepted' = accepted + 1 /\ link' = accepted + 1
      /\ input' = input \o next /\ broker' = broker
  BY DEF Connects, Opening, NextGeneration
<1>3. /\ next \in Seq(Items) /\ Len(next) = 2
      /\ next[1].kind = "connected" /\ next[1].generation = accepted + 1
      /\ next[2].kind = "initialize" /\ next[2].generation = accepted + 1
  <2>1. next[1] \in Items /\ next[2] \in Items
    BY <1>1 DEF Items
  <2> QED
    BY <2>1
<1> HIDE DEF next
<1>0. PICK n \in Nat : n = Len(input)
  BY <1>1, LenType
<1>4. /\ Len(input') = n + 2
      /\ \A i \in 1..n : input'[i] = input[i]
      /\ input'[n + 1] = next[1] /\ input'[n + 2] = next[2]
  <2>1. 1 \in 1..Len(next) /\ 2 \in 1..Len(next)
    BY <1>3
  <2>2. /\ Len(input \o next) = Len(input) + Len(next)
        /\ \A i \in 1..Len(input) : (input \o next)[i] = input[i]
        /\ \A i \in 1..Len(next) :
             (input \o next)[Len(input) + i] = next[i]
    <3>1. input \in Seq(Items) /\ next \in Seq(Items)
      BY <1>1, <1>3
    <3> QED
      BY <3>1, ConcatElements
  <2>3. /\ Len(input') = Len(input) + Len(next)
        /\ input'[Len(input) + 1] = next[1]
        /\ input'[Len(input) + 2] = next[2]
    BY <1>2, <2>1, <2>2
  <2> QED
    BY <1>0, <1>2, <1>3, <2>2, <2>3
<1>5. \A i \in 0..n : Gen(i)' = Gen(i) /\ (Shut(i)' <=> Shut(i))
  <2> TAKE i \in 0..n
  <2>1. i = 0 \/ i \in 1..n
    BY <1>0
  <2> QED
    BY <1>2, <1>4, <2>1 DEF Gen, Shut
<1>6. /\ Gen(n + 1)' = accepted + 1 /\ ~Shut(n + 1)'
      /\ Gen(n + 2)' = accepted + 1 /\ ~Shut(n + 2)'
  <2>1. n + 1 # 0 /\ n + 2 # 0
    BY <1>0
  <2> QED
    BY <1>3, <1>4, <2>1 DEF Gen, Shut
<1>7. Gen(n) = accepted /\ Shut(n)
  BY <1>0, <1>2 DEF Blocks
<1>8. ASSUME NEW i \in 0..n + 2, NEW j \in 0..n + 2, i < j,
             \A m \in i+1..j : input'[m].kind # "connected"
      PROVE  Gen(i)' = Gen(j)' /\ ~Shut(i)'
  <2>1. CASE j \in 0..n
    <3>1. \A m \in i+1..j : m \in 1..n
      BY <1>0, <2>1
    <3>2. i \in 0..n
      BY <1>0, <1>8, <2>1
    <3>3. Gen(i) = Gen(j) /\ ~Shut(i)
      BY <1>0, <1>4, <1>8, <2>1, <3>1, <3>2 DEF Blocks
    <3> QED
      BY <1>5, <2>1, <3>2, <3>3
  <2>2. CASE j \in {n + 1, n + 2}
    <3>1. ~(n + 1 \in i+1..j)
      BY <1>3, <1>4, <1>8
    <3>2. i = n + 1 /\ j = n + 2
      BY <1>0, <1>8, <2>2, <3>1
    <3> QED
      BY <1>6, <3>2
  <2> QED
    BY <1>0, <2>1, <2>2
<1>9. ASSUME NEW i \in 1..n + 2, input'[i].kind = "connected"
      PROVE  Shut(i - 1)' /\ Gen(i - 1)' < Gen(i)'
  <2>1. i # n + 2
    BY <1>3, <1>4, <1>9
  <2>2. CASE i = n + 1
    <3>1. i - 1 = n /\ n \in 0..n
      BY <1>0, <2>2
    <3> QED
      BY <1>1, <1>5, <1>6, <1>7, <2>2, <3>1
  <2>3. CASE i \in 1..n
    <3>1. i - 1 \in 0..n /\ i \in 0..n
      BY <1>0, <2>3
    <3> QED
      BY <1>0, <1>4, <1>5, <1>9, <2>3, <3>1 DEF Blocks
  <2> QED
    BY <1>0, <2>1, <2>2, <2>3
<1>10. /\ Gen(Len(input))' = accepted' /\ (Shut(Len(input))' <=> link' = 0)
  BY <1>1, <1>2, <1>4, <1>6
<1>11. ~broker'.output => broker'.phase = "AwaitInitialize"
  BY <1>2 DEF Blocks
<1> QED
  BY <1>4, <1>8, <1>9, <1>10, <1>11 DEF Blocks

(* A lost connection: what it loses are its own frames, and its close      *)
(* follows what is left of them.                                           *)
LEMMA CutKeepsBlocks ==
  ASSUME TypeOK, Blocks, NEW k \in 0..Len(input), CutTo(k), link # 0,
         link' = 0, UNCHANGED <<broker, accepted>>
  PROVE  Blocks'
<1>1. /\ Len(input') = k + 1 /\ Len(input) \in Nat /\ k \in Nat
      /\ \A i \in 1..k : input'[i] = input[i]
      /\ input'[k + 1] = [kind |-> "closed", generation |-> link]
  BY CutType
<1>2. link = accepted
  BY DEF TypeOK, ClientTypeOK
<1>3. \A m \in k+1..Len(input) : input[m].kind # "connected"
  BY DEF CutTo, Frames
<1>4. Gen(k) = accepted /\ ~Shut(k)
  <2>1. CASE k = Len(input)
    BY <2>1 DEF Blocks
  <2>2. CASE k < Len(input)
    BY <1>1, <1>3, <2>2 DEF Blocks
  <2> QED
    BY <1>1, <2>1, <2>2
<1>5. \A i \in 0..k : Gen(i)' = Gen(i) /\ (Shut(i)' <=> Shut(i))
  <2> TAKE i \in 0..k
  <2>1. i = 0 \/ i \in 1..k
    BY <1>1
  <2> QED
    BY <1>1, <2>1 DEF Gen, Shut
<1>6. Gen(k + 1)' = accepted /\ Shut(k + 1)'
  <2>1. k + 1 # 0
    BY <1>1
  <2> QED
    BY <1>1, <1>2, <2>1 DEF Gen, Shut
<1>7. ASSUME NEW i \in 0..k + 1, NEW j \in 0..k + 1, i < j,
             \A m \in i+1..j : input'[m].kind # "connected"
      PROVE  Gen(i)' = Gen(j)' /\ ~Shut(i)'
  <2>1. i \in 0..k
    BY <1>1, <1>7
  <2>2. CASE j \in 0..k
    <3>1. /\ \A m \in i+1..j : m \in 1..k
          /\ i \in 0..Len(input) /\ j \in 0..Len(input)
      BY <1>1, <2>1, <2>2
    <3>2. Gen(i) = Gen(j) /\ ~Shut(i)
      <4>1. \A m \in i+1..j : input[m].kind # "connected"
        BY <1>1, <1>7, <3>1
      <4> QED
        BY <1>7, <3>1, <4>1 DEF Blocks
    <3> QED
      BY <1>5, <2>1, <2>2, <3>2
  <2>3. CASE j = k + 1
    <3>1. CASE i = k
      BY <1>4, <1>5, <1>6, <2>1, <2>3, <3>1
    <3>2. CASE i < k
      <4>1. /\ \A m \in i+1..k : m \in i+1..j /\ m \in 1..k
            /\ i \in 0..Len(input)
        BY <1>1, <2>1, <2>3
      <4>2. \A m \in i+1..k : input[m].kind # "connected"
        BY <1>1, <1>7, <4>1
      <4>3. Gen(i) = Gen(k) /\ ~Shut(i)
        BY <3>2, <4>1, <4>2 DEF Blocks
      <4> QED
        BY <1>4, <1>5, <1>6, <2>1, <2>3, <4>3
    <3> QED
      BY <1>1, <2>1, <3>1, <3>2
  <2> QED
    BY <1>1, <2>2, <2>3
<1>8. ASSUME NEW i \in 1..k + 1, input'[i].kind = "connected"
      PROVE  Shut(i - 1)' /\ Gen(i - 1)' < Gen(i)'
  <2>1. i \in 1..k /\ i - 1 \in 0..k /\ i \in 0..k /\ i \in 1..Len(input)
    BY <1>1, <1>8
  <2> QED
    BY <1>1, <1>5, <1>8, <2>1 DEF Blocks
<1>9. /\ Gen(Len(input))' = accepted /\ Shut(Len(input))'
  BY <1>1, <1>6
<1>10. ~broker'.output => broker'.phase = "AwaitInitialize"
  BY DEF Blocks
<1> QED
  BY <1>1, <1>7, <1>8, <1>9, <1>10 DEF Blocks

(* What the head of the queue says of the broker. *)
LEMMA HeadBlock ==
  ASSUME TypeOK, Blocks, input # <<>>
  PROVE  /\ Head(input) = input[1]
         /\ Head(input).kind = "connected" =>
              /\ broker.generation < Head(input).generation
              /\ ~broker.output /\ broker.phase = "AwaitInitialize"
         /\ Head(input).kind # "connected" =>
              broker.output /\ broker.generation = Head(input).generation
<1>1. /\ Len(input) \in Nat \ {0} /\ Head(input) = input[1]
  BY TailElements DEF TypeOK, BrokerTypeOK
<1>2. CASE input[1].kind = "connected"
  <2>1. 1 \in 1..Len(input) /\ 1 - 1 = 0
    BY <1>1
  <2>2. Shut(0) /\ Gen(0) < Gen(1)
    BY <1>2, <2>1 DEF Blocks
  <2>3. 0 = 0 /\ 1 # 0
    OBVIOUS
  <2>4. ~broker.output /\ broker.generation < input[1].generation
    BY <2>2, <2>3 DEF Shut, Gen
  <2> QED
    BY <1>1, <1>2, <2>4 DEF Blocks
<1>3. CASE input[1].kind # "connected"
  <2>1. 0 \in 0..Len(input) /\ 1 \in 0..Len(input) /\ 0 + 1..1 = {1}
    BY <1>1
  <2>2. Gen(0) = Gen(1) /\ ~Shut(0)
    BY <1>3, <2>1 DEF Blocks
  <2>3. 0 = 0 /\ 1 # 0
    OBVIOUS
  <2>4. broker.output /\ broker.generation = input[1].generation
    BY <2>2, <2>3 DEF Shut, Gen
  <2> QED
    BY <1>1, <1>3, <2>4
<1> QED
  BY <1>2, <1>3

(* A step that leaves the queue alone. *)
LEMMA SameBlocks ==
  ASSUME Blocks, UNCHANGED <<input, accepted, link>>,
         broker'.generation = broker.generation,
         broker'.output = broker.output,
         broker'.phase = broker.phase
  PROVE  Blocks'
BY DEF Blocks, Gen, Shut

(* Every step keeps one connection's items together in the queue. *)
LEMMA BlocksStep ==
  ASSUME TypeOK, Blocks, [Next]_vars
  PROVE  Blocks'
<1>1. CASE \/ ProviderNote
           \/ \E a \in Approvals : ApprovalRequested(a) \/ ApprovalResolved(a)
           \/ ReceiveResponse \/ ReceiveEvent
           \/ UNCHANGED vars
  BY <1>1, SameBlocks DEF ProviderNote, ApprovalRequested, ApprovalResolved,
     ReceiveResponse, ReceiveEvent, vars
<1>2. CASE \E request \in owed : TaskAnswers(request)
  <2>1. PICK request \in owed : TaskAnswers(request)
    BY <1>2
  <2>2. /\ broker'.generation = broker.generation
        /\ broker'.phase = broker.phase
        /\ broker'.output = broker.output
    BY <2>1 DEF TaskAnswers, TypeOK, BrokerTypeOK
  <2> QED
    BY <2>1, <2>2, SameBlocks DEF TaskAnswers
<1>3. CASE BrokerReads
  <2>1. input # <<>> /\ input' = Tail(input) /\ UNCHANGED <<accepted, link>>
    BY <1>3 DEF BrokerReads, HandleConnected, HandleClosed, HandleInitialize,
       HandleInitialized, HandleRequest, Item
  <2>2. /\ Head(input) = input[1]
        /\ Head(input).kind = "connected" =>
             broker.generation < Head(input).generation
        /\ Head(input).kind # "connected" =>
             broker.output /\ broker.generation = Head(input).generation
    BY <2>1, HeadBlock
  <2>3. Head(input).generation \in Nat /\ broker.generation \in Nat
    BY <2>1, ItemType DEF TypeOK, BrokerTypeOK
  <2>4. CASE HandleConnected
    <3>1. /\ broker' = [broker EXCEPT !.generation = Head(input).generation,
                                      !.phase = "AwaitInitialize",
                                      !.cursor = 0, !.output = TRUE]
          /\ Head(input).kind = "connected"
      BY <2>2, <2>3, <2>4 DEF HandleConnected, Item
    <3>2. broker'.generation = Head(input).generation /\ broker'.output = TRUE
      BY <3>1 DEF TypeOK, BrokerTypeOK
    <3> QED
      BY <2>1, <2>2, <3>1, <3>2, ReadKeepsBlocks
  <2>5. CASE HandleClosed
    <3>1. Head(input).kind = "closed" /\ Head(input).generation = broker.generation
      BY <2>2, <2>5 DEF HandleClosed, Item
    <3>2. /\ broker'.generation = broker.generation
          /\ broker'.output = FALSE /\ broker'.phase = "AwaitInitialize"
      <4>1. broker' = [broker EXCEPT
                         !.output = FALSE, !.phase = "AwaitInitialize",
                         !.cursor = 0,
                         !.pending = {p \in @ :
                                        p.generation # broker.generation}]
        BY <2>5, <3>1 DEF HandleClosed
      <4> QED
        BY <4>1 DEF TypeOK, BrokerTypeOK
    <3> QED
      BY <2>1, <2>2, <3>1, <3>2, ReadKeepsBlocks
  <2>6. CASE HandleInitialize \/ HandleInitialized \/ HandleRequest
    <3>1. Head(input).kind # "connected" /\ Head(input).kind # "closed"
      BY <2>6 DEF HandleInitialize, HandleInitialized, HandleRequest, Item
    <3>2. broker'.generation = broker.generation /\ broker'.output = broker.output
      BY <2>6 DEF HandleInitialize, HandleInitialized, HandleRequest, TypeOK,
         BrokerTypeOK
    <3> QED
      BY <2>1, <2>2, <3>1, <3>2, ReadKeepsBlocks
  <2> QED
    BY <1>3, <2>4, <2>5, <2>6 DEF BrokerReads
<1>4. CASE Connects
  BY <1>4, ConnectKeepsBlocks
<1>5. CASE Call
  <2> DEFINE call == [kind |-> "request", generation |-> link,
                      id |-> client.next_id]
  <2>1. /\ input' = Append(input, call) /\ link # 0
        /\ UNCHANGED <<broker, accepted, link>>
    BY <1>5 DEF Call
  <2>2. call \in Items
    BY DEF Items, TypeOK, BrokerTypeOK, ClientTypeOK
  <2>3. call.kind \in Frames /\ call.generation = link
    BY DEF Frames
  <2> HIDE DEF call
  <2> QED
    BY <2>1, <2>2, <2>3, FrameKeepsBlocks
<1>6. CASE ReceiveInitialized
  <2> DEFINE frame == [kind |-> "initialized", generation |-> link]
  <2>1. /\ input' = Append(input, frame) /\ output # <<>>
        /\ UNCHANGED <<broker, accepted, link>>
    BY <1>6 DEF ReceiveInitialized, Message
  <2>2. frame \in Items /\ link # 0
    BY <2>1 DEF Items, TypeOK, BrokerTypeOK, ClientTypeOK
  <2>3. frame.kind \in Frames /\ frame.generation = link
    BY DEF Frames
  <2> HIDE DEF frame
  <2> QED
    BY <2>1, <2>2, <2>3, FrameKeepsBlocks
<1>9. CASE Start \/ TimerFires
  BY <1>9, WaitingSteps, SameBlocks
<1>7. CASE ConnectionLost \/ ConnectionRefused \/ NvimRestart
  <2>1. link' = 0 /\ UNCHANGED <<broker, accepted>>
    BY <1>7, LossForgets DEF ConnectionLost, ConnectionRefused, NvimRestart
  <2>2. CASE \E k \in 0..Len(input) : link # 0 /\ CutTo(k)
    BY <2>1, <2>2, CutKeepsBlocks
  <2>3. CASE link = 0 /\ input' = input
    BY <2>1, <2>3, SameBlocks
  <2> QED
    BY <1>7, <2>2, <2>3 DEF ConnectionLost, ConnectionRefused, Opening,
       NvimRestart
<1>8. CASE BrokerRestart
  <2>1. /\ input' = <<>> /\ accepted' = 0 /\ link' = 0
        /\ broker'.generation = 0 /\ broker'.output = FALSE
        /\ broker'.phase = "AwaitInitialize"
    BY <1>8, LossForgets DEF BrokerRestart, NewBroker
  <2>2. Len(input') = 0
    BY <2>1, EmptyType
  <2>3. 0..Len(input') = {0} /\ 1..Len(input') = {} /\ 0 = 0
    BY <2>2
  <2>4. Gen(Len(input))' = accepted' /\ Shut(Len(input))'
    BY <2>1, <2>2 DEF Gen, Shut
  <2> QED
    BY <2>1, <2>3, <2>4 DEF Blocks
<1> QED
  BY <1>1, <1>2, <1>3, <1>4, <1>5, <1>6, <1>7, <1>8, <1>9
     DEF Next, ClientReads

(* The events on their way to the client, and those the window holds. *)
UnderWay == {output[i].event : i \in OnTheWay}
Retained == {replay.events[i] : i \in 1..Len(replay.events)}

(* The events about an approval. *)
Asks(e, a) == e.type = "approval.requested" /\ e.approval = a
Settles(e, a) == e.type = "approval.resolved" /\ e.approval = a

(* Events tell of an approval what happened to it, the end of it last. *)
Told(events) ==
  \A e \in events, a \in Approvals :
    /\ Asks(e, a) => approval[a] # "new"
    /\ Settles(e, a) => approval[a] = "closed"
    /\ Asks(e, a) /\ approval[a] = "closed" =>
         \E f \in events : Settles(f, a) /\ f.sequence > e.sequence

(* The end of an approval the client shows is on its way.                  *)
WillHide(a) == \E f \in UnderWay : Settles(f, a)

(* It is shown, or what shows it is on its way. *)
WillShow(a) == a \in model.pending \/ \E e \in UnderWay : Asks(e, a)

(* What a client that missed nothing shows: nothing before the broker      *)
(* serves it, and then what is asked and not settled.                      *)
Tracked ==
  /\ Told(UnderWay)
  /\ ~Live => model.pending = {}
  /\ \A a \in model.pending :
       /\ approval[a] # "new"
       /\ approval[a] = "closed" => WillHide(a)
  /\ Live => \A a \in Approvals : approval[a] = "open" => WillShow(a)

(* The invariant of the approvals: one is open only while a client is      *)
(* ready, the window tells of each, and a client that missed nothing       *)
(* follows them.                                                           *)
Followed ==
  /\ \A a \in Approvals : approval[a] = "open" => broker.phase = "Ready"
  /\ Told(Retained)
  /\ whole => Tracked

(* What the invariants of the stream say of its events. *)
LEMMA StreamFacts ==
  ASSUME TypeOK, StreamInv
  PROVE  /\ UnderWay \subseteq Events /\ Retained \subseteq Events
         /\ Latest(replay) \in Nat /\ model.last_sequence \in Nat
         /\ \A e \in Retained : e.sequence =< Latest(replay)
         /\ \A e, f \in Retained : e.sequence = f.sequence => e = f
         /\ Latest(replay) > 0 => Retained # {}
         /\ ~Live => UnderWay = {}
         /\ whole => model.last_sequence =< Latest(replay)
         /\ whole /\ Live => \A e \in UnderWay :
              e.sequence > model.last_sequence /\ e.sequence =< Latest(replay)
<1>1. output \in Seq(Messages) /\ replay.events \in Seq(Events) /\ Window(replay)
  BY DEF TypeOK, ClientTypeOK, ReplayTypeOK
<1>2. Latest(replay) \in Nat /\ model.last_sequence \in Nat
  BY DEF TypeOK, ClientTypeOK, ReplayTypeOK, Latest
<1>3. UnderWay \subseteq Events
  <2>1. ASSUME NEW i \in OnTheWay PROVE output[i].event \in Events
    <3>1. i \in 1..Len(output) /\ output[i].kind = "event"
      BY DEF OnTheWay
    <3>2. output[i] \in Messages
      BY <1>1, <3>1
    <3> QED
      BY <3>1, <3>2 DEF Messages
  <2> QED
    BY <2>1 DEF UnderWay
<1>4. Retained \subseteq Events /\ Len(replay.events) \in Nat
  BY <1>1 DEF Retained
<1>5. \A i \in 1..Len(replay.events) :
        replay.events[i].sequence = Latest(replay) - Len(replay.events) + i
  BY <1>1 DEF Window
<1>6. \A e \in Retained : e.sequence =< Latest(replay)
  BY <1>2, <1>4, <1>5 DEF Retained
<1>7. \A e, f \in Retained : e.sequence = f.sequence => e = f
  <2> SUFFICES ASSUME NEW i \in 1..Len(replay.events),
                      NEW j \in 1..Len(replay.events),
                      replay.events[i].sequence = replay.events[j].sequence
               PROVE  i = j
    BY DEF Retained
  <2> QED
    BY <1>2, <1>4, <1>5
<1>8. Latest(replay) > 0 => Retained # {}
  <2> SUFFICES ASSUME Latest(replay) > 0 PROVE Retained # {}
    OBVIOUS
  <2>1. replay.events # <<>>
    BY <1>1 DEF Window
  <2>2. 1 \in 1..Len(replay.events)
    BY <1>1, <2>1
  <2> QED
    BY <2>2 DEF Retained
<1>9. ~Live => UnderWay = {}
  BY DEF StreamInv, Handshake, NothingEarly, UnderWay
<1>10. whole => model.last_sequence =< Latest(replay)
  BY DEF StreamInv, Behind
<1>11. whole /\ Live => \A e \in UnderWay :
         e.sequence > model.last_sequence /\ e.sequence =< Latest(replay)
  <2> SUFFICES ASSUME whole, Live, NEW i \in OnTheWay
               PROVE  /\ output[i].event.sequence > model.last_sequence
                      /\ output[i].event.sequence =< Latest(replay)
    BY DEF UnderWay
  <2>1. output[i].event.sequence \in model.last_sequence + 1..Latest(replay)
    BY DEF StreamInv, StreamContinues
  <2> QED
    BY <1>2, <2>1
<1> QED
  BY <1>2, <1>3, <1>4, <1>6, <1>7, <1>8, <1>9, <1>10, <1>11

(* Responses are not events. *)
LEMMA SameUnderWay ==
  ASSUME SameStream
  PROVE  UnderWay' = UnderWay
<1>1. PICK d \in {0, 1} :
        /\ \A i \in 1..Len(output') :
             output'[i].kind # "response" =>
               i + d \in 1..Len(output) /\ output'[i] = output[i + d]
        /\ \A i \in 1..Len(output) :
             output[i].kind # "response" =>
               i - d \in 1..Len(output') /\ output'[i - d] = output[i]
  BY DEF SameStream
<1>2. \A i \in OnTheWay' : i + d \in OnTheWay /\ output'[i] = output[i + d]
  BY <1>1 DEF OnTheWay
<1>3. \A i \in OnTheWay : i - d \in OnTheWay' /\ output'[i - d] = output[i]
  BY <1>1 DEF OnTheWay
<1>4. UnderWay' \subseteq UnderWay
  BY <1>2 DEF UnderWay
<1>5. UnderWay \subseteq UnderWay'
  BY <1>3 DEF UnderWay
<1> QED
  BY <1>4, <1>5

(* handle_provider_event: the newest event joins the window, where it may  *)
(* replace the oldest, and the stream of a client that is ready.           *)
LEMMA PublishedSets ==
  ASSUME TypeOK, StreamInv, NEW event \in Events, Publish(event),
         UNCHANGED <<broker, link>>
  PROVE  \E e \in Events :
           /\ e.sequence = Latest(replay) + 1
           /\ e.type = event.type /\ e.approval = event.approval
           /\ e \in Retained' /\ Retained' \subseteq Retained \cup {e}
           /\ \A f \in Retained \ Retained', g \in Retained' :
                f.sequence < g.sequence
           /\ UnderWay' = IF Live THEN UnderWay \cup {e} ELSE UnderWay
<1> DEFINE e == [event EXCEPT !.sequence = replay.next_sequence]
           s == replay.events
           t == replay'.events
<1>1. /\ s \in Seq(Events) /\ replay.next_sequence \in Nat \ {0}
      /\ Latest(replay) \in Nat /\ replay.next_sequence = Latest(replay) + 1
  BY DEF TypeOK, ReplayTypeOK, Latest
<1>2. /\ e \in Events /\ e.sequence = Latest(replay) + 1
      /\ e.type = event.type /\ e.approval = event.approval
  BY <1>1 DEF Events
<1>3. t = PushedEvents(replay, e)
  BY DEF Publish, Push
<1>4. PICK n \in Nat : n = Len(s)
  BY <1>1, LenType
<1>5. /\ Append(s, e) \in Seq(Events) /\ Len(Append(s, e)) = n + 1
      /\ Append(s, e)[n + 1] = e
      /\ \A i \in 1..n : Append(s, e)[i] = s[i]
  <2> HIDE DEF e, s
  <2> QED
    BY <1>1, <1>2, <1>4, AppendElements
<1>6. /\ e \in Retained' /\ Retained' \subseteq Retained \cup {e}
      /\ \A f \in Retained \ Retained', g \in Retained' :
           f.sequence < g.sequence
  <2>1. Retained = {s[i] : i \in 1..n} /\ Retained' = {t[i] : i \in 1..Len(t)}
    BY <1>4 DEF Retained
  <2>2. \A i \in 1..n : s[i].sequence = Latest(replay) - n + i
    BY <1>4 DEF TypeOK, ReplayTypeOK, Window
  <2>3. CASE ~(n + 1 > Capacity)
    <3>1. t = Append(s, e)
      BY <1>3, <1>5, <2>3 DEF PushedEvents
    <3> HIDE DEF s, t, e
    <3>2. \A i \in 1..n : s[i] \in Retained'
      BY <1>4, <1>5, <2>1, <3>1
    <3>3. \A i \in 1..n + 1 : i \in 1..n \/ i = n + 1
      BY <1>4
    <3>4. Retained \subseteq Retained' /\ e \in Retained'
      BY <1>4, <1>5, <2>1, <3>1, <3>2
    <3>5. Retained' \subseteq Retained \cup {e}
      BY <1>4, <1>5, <2>1, <3>1, <3>3
    <3> QED
      BY <3>4, <3>5
  <2>4. CASE n + 1 > Capacity
    <3>1. t = Tail(Append(s, e)) /\ n > 0
      BY <1>3, <1>4, <1>5, <2>4, CapacityAssumption DEF PushedEvents
    <3> HIDE DEF s, t, e
    <3>2. /\ Len(t) = n
          /\ \A i \in 1..n : t[i] = Append(s, e)[i + 1]
      <4>1. Append(s, e) \in Seq(Events) /\ Append(s, e) # <<>>
        BY <1>4, <1>5
      <4> QED
        BY <1>4, <1>5, <3>1, <4>1, TailElements
    <3>3. t[n] = e /\ n \in 1..n
      BY <1>4, <1>5, <3>1, <3>2
    <3>4. \A i \in 1..n - 1 : i \in 1..n /\ i + 1 \in 1..n /\ t[i] = s[i + 1]
      BY <1>4, <1>5, <3>2
    <3>5. \A i \in 1..n : i \in 1..n - 1 \/ i = n
      BY <1>4
    <3>6. e \in Retained' /\ Retained' \subseteq Retained \cup {e}
      BY <2>1, <3>2, <3>3, <3>4, <3>5
    <3>7. \A j \in 2..n : j - 1 \in 1..n - 1 /\ (j - 1) + 1 = j /\ j - 1 \in 1..n
      BY <1>4
    <3>8. \A j \in 2..n : s[j] \in Retained'
      BY <2>1, <3>2, <3>4, <3>7
    <3>9. ASSUME NEW f \in Retained \ Retained', NEW g \in Retained'
          PROVE  f.sequence < g.sequence
      <4>1. f = s[1] /\ 1 \in 1..n
        <5>1. \A j \in 1..n : j = 1 \/ j \in 2..n
          BY <1>4
        <5> QED
          BY <2>1, <3>1, <1>4, <3>8, <3>9, <5>1
      <4>2. f.sequence = Latest(replay) - n + 1
        BY <2>2, <4>1
      <4>3. CASE g = e
        BY <1>1, <1>2, <1>4, <3>1, <4>2, <4>3
      <4>4. CASE g # e
        <5>1. PICK i \in 1..n - 1 : g = s[i + 1] /\ i + 1 \in 1..n
          BY <2>1, <3>2, <3>3, <3>4, <3>5, <4>4
        <5>2. g.sequence = Latest(replay) - n + (i + 1)
          BY <2>2, <5>1
        <5> QED
          BY <1>1, <1>4, <4>2, <5>1, <5>2
      <4> QED
        BY <4>3, <4>4
    <3> QED
      BY <3>6, <3>9
  <2> QED
    BY <2>3, <2>4
<1>7. UnderWay' = IF Live THEN UnderWay \cup {e} ELSE UnderWay
  <2>1. Live <=> /\ broker.phase = "Ready" /\ broker.output
                 /\ broker.generation = link
    BY DEF Live, StreamInv, Numbered, Served, TypeOK, BrokerTypeOK
  <2>2. CASE ~Live
    <3>1. output' = output
      BY <2>1, <2>2, PublishType
    <3> QED
      BY <2>2, <3>1 DEF UnderWay, OnTheWay
  <2>3. CASE Live
    <3>1. PICK x \in Events : /\ x.sequence = Latest(replay) + 1
                              /\ x.type = event.type
                              /\ x.approval = event.approval
                              /\ output' = Append(output, EventMessage(x))
      BY <2>1, <2>3, PublishType
    <3>2. x = e
      BY <1>2, <3>1 DEF Events
    <3> DEFINE m == EventMessage(x)
    <3>3. m \in Messages /\ m.kind = "event" /\ m.event = x
      BY DEF EventMessage, Messages
    <3>4. output \in Seq(Messages) /\ output' = Append(output, m)
      BY <3>1 DEF TypeOK, ClientTypeOK
    <3> HIDE DEF m, e
    <3>5. PICK k \in Nat : k = Len(output)
      BY <3>4, LenType
    <3>6. /\ Len(output') = k + 1 /\ output'[k + 1] = m
          /\ \A i \in 1..k : output'[i] = output[i]
      BY <3>3, <3>4, <3>5, AppendElements
    <3>7. OnTheWay' = OnTheWay \cup {k + 1}
      <4>1. \A i \in 1..k + 1 : i \in 1..k \/ i = k + 1
        BY <3>5
      <4>2. \A i \in 1..k : i \in 1..k + 1
        BY <3>5
      <4>3. k + 1 \in 1..k + 1
        BY <3>5
      <4> QED
        BY <3>3, <3>5, <3>6, <4>1, <4>2, <4>3 DEF OnTheWay
    <3>8. \A i \in OnTheWay : output'[i] = output[i]
      BY <3>5, <3>6 DEF OnTheWay
    <3>9. UnderWay' = UnderWay \cup {x}
      BY <3>3, <3>6, <3>7, <3>8 DEF UnderWay
    <3> QED
      BY <2>3, <3>2, <3>9
  <2> QED
    BY <2>2, <2>3
<1> HIDE DEF e
<1> QED
  BY <1>2, <1>6, <1>7

(* replay_after: the replayed messages carry the retained events after the *)
(* cursor, all of them and no others; and it is refused when the oldest of *)
(* them is more than one after the cursor.                                 *)
LEMMA ReplayedSets ==
  ASSUME TypeOK, StreamInv, NEW cursor \in Nat, ~ResyncRequired(replay, cursor)
  PROVE  /\ \A i \in 1..Len(Replayed(cursor)) :
              Replayed(cursor)[i].kind = "event"
         /\ {Replayed(cursor)[i].event : i \in 1..Len(Replayed(cursor))}
              = {e \in Retained : e.sequence > cursor}
         /\ Retained # {} =>
              \E e \in Retained : e.sequence =< cursor + 1
<1> DEFINE s == replay.events
           events == EventsAfter(replay, cursor)
           last == Latest(replay)
<1>1. /\ replay \in Buffers /\ Window(replay) /\ s \in Seq(Events)
      /\ last \in Nat
  BY DEF TypeOK, ReplayTypeOK, Buffers, Latest
<1>2. /\ events \in Seq(Events)
      /\ Len(events) = IF cursor < last THEN last - cursor ELSE 0
      /\ \A i \in 1..Len(events) : events[i].sequence = cursor + i
  BY <1>1, EventsAfterContinue
<1>3. PICK n \in Nat : n = Len(events)
  BY <1>2, LenType
<1>4. Replayed(cursor) = [i \in 1..n |-> EventMessage(events[i])]
  BY <1>3 DEF Replayed
<1>5. /\ Len(Replayed(cursor)) = n
      /\ \A i \in 1..n : /\ Replayed(cursor)[i].kind = "event"
                         /\ Replayed(cursor)[i].event = events[i]
  <2> HIDE DEF events
  <2>1. DOMAIN Replayed(cursor) = 1..n
    BY <1>4
  <2>2. \A i \in 1..n : Replayed(cursor)[i] = EventMessage(events[i])
    BY <1>4
  <2>3. Len(Replayed(cursor)) = n
    <3>1. \A i \in 1..n : EventMessage(events[i]) \in Messages
      BY <1>2, <1>3 DEF EventMessage, Messages
    <3>2. Replayed(cursor) \in Seq(Messages)
      BY <1>3, <1>4, <3>1
    <3> QED
      BY <1>3, <1>4, <2>1, <3>2
  <2> QED
    BY <2>2, <2>3 DEF EventMessage
<1>6. \A i \in 1..n : events[i] \in Retained
  <2>1. CASE s = <<>>
    <3>1. events = <<>>
      BY <2>1 DEF EventsAfter
    <3>2. n = 0
      BY <1>3, <3>1
    <3> QED
      BY <3>2
  <2>2. CASE s # <<>>
    <3> DEFINE first == IF cursor < Oldest(replay) THEN 1
                        ELSE cursor - Oldest(replay) + 2
    <3>1. events = SubSeq(s, first, Len(s))
      BY <2>2 DEF EventsAfter
    <3>2. Oldest(replay) \in Nat
      <4>1. 1 \in 1..Len(s) /\ s[1] \in Events
        BY <1>1, <2>2
      <4> QED
        BY <4>1 DEF Oldest, Events
    <3>3. first \in Nat \ {0}
      BY <3>2
    <3> HIDE DEF first, events
    <3>4. Len(s) \in Nat
      BY <1>1, LenType
    <3>5. \A i \in 1..n : first + i - 1 \in 1..Len(s) /\ events[i] = s[first + i - 1]
      <4> HIDE DEF s
      <4>1. CASE first \in 1..Len(s)
        BY <1>1, <1>3, <3>1, <3>3, <3>4, <4>1, SuffixElements
      <4>2. CASE first > Len(s)
        BY <1>1, <1>3, <3>1, <3>3, <3>4, <4>2
      <4> QED
        BY <3>3, <3>4, <4>1, <4>2
    <3> QED
      BY <3>5 DEF Retained
  <2> QED
    BY <2>1, <2>2
<1>7. {events[i] : i \in 1..n} = {e \in Retained : e.sequence > cursor}
  <2>1. \A i \in 1..n : events[i].sequence > cursor
    BY <1>2, <1>3
  <2>2. ASSUME NEW e \in Retained, e.sequence > cursor
        PROVE  \E i \in 1..n : events[i] = e
    <3>1. e.sequence \in Nat /\ e.sequence =< last
      BY StreamFacts DEF Events
    <3>2. /\ e.sequence - cursor \in 1..n
          /\ cursor + (e.sequence - cursor) = e.sequence
      BY <1>1, <1>2, <1>3, <2>2, <3>1
    <3>3. events[e.sequence - cursor].sequence = e.sequence
      BY <1>2, <1>3, <3>2
    <3>4. events[e.sequence - cursor] = e
      BY <1>6, <3>2, <3>3, StreamFacts
    <3> QED
      BY <3>2, <3>4
  <2> HIDE DEF events
  <2> QED
    BY <1>6, <2>1, <2>2
<1>8. Retained # {} => \E e \in Retained : e.sequence =< cursor + 1
  <2> SUFFICES ASSUME Retained # {}
               PROVE  \E e \in Retained : e.sequence =< cursor + 1
    OBVIOUS
  <2>1. 1 \in 1..Len(s) /\ s # <<>> /\ s[1] \in Events
    BY <1>1 DEF Retained
  <2>2. s[1] \in Retained /\ s[1].sequence \in Nat
    BY <2>1 DEF Retained, Events
  <2>3. ~(cursor + 1 < s[1].sequence)
    BY <2>1 DEF ResyncRequired, Oldest
  <2> QED
    BY <2>2, <2>3
<1> HIDE DEF events
<1>9. {Replayed(cursor)[i].event : i \in 1..n} = {events[i] : i \in 1..n}
  BY <1>5
<1> QED
  BY <1>5, <1>7, <1>8, <1>9

(* What the client has read is no longer on its way. *)
LEMMA ReadSets ==
  ASSUME TypeOK, output # <<>>, output' = Tail(output)
  PROVE  /\ Head(output).kind = "event" =>
              UnderWay = {Head(output).event} \cup UnderWay'
         /\ Head(output).kind # "event" => UnderWay' = UnderWay
<1>1. output \in Seq(Messages)
  BY DEF TypeOK, ClientTypeOK
<1>2. /\ Len(output) \in Nat \ {0} /\ Len(output') = Len(output) - 1
      /\ Head(output) = output[1]
      /\ \A i \in 1..Len(output') : output'[i] = output[i + 1]
  BY <1>1, TailElements
<1>3. \A i \in OnTheWay' : i + 1 \in OnTheWay /\ output'[i] = output[i + 1]
  BY <1>2 DEF OnTheWay
<1>4. \A i \in OnTheWay \ {1} :
        i - 1 \in OnTheWay' /\ output'[i - 1] = output[i]
  <2> TAKE i \in OnTheWay \ {1}
  <2>1. i \in 1..Len(output) /\ output[i].kind = "event" /\ i # 1
    BY DEF OnTheWay
  <2>2. i - 1 \in 1..Len(output') /\ (i - 1) + 1 = i
    BY <1>2, <2>1
  <2>3. output'[i - 1] = output[i]
    BY <1>2, <2>2
  <2> QED
    BY <2>1, <2>2, <2>3 DEF OnTheWay
<1>5. UnderWay' \subseteq UnderWay
  BY <1>3 DEF UnderWay
<1>6. \A i \in OnTheWay \ {1} : output[i].event \in UnderWay'
  BY <1>4 DEF UnderWay
<1>7. 1 \in OnTheWay <=> Head(output).kind = "event"
  BY <1>2 DEF OnTheWay
<1>8. CASE Head(output).kind = "event"
  <2>1. Head(output).event \in UnderWay
    BY <1>2, <1>7, <1>8 DEF UnderWay
  <2>2. UnderWay \subseteq {Head(output).event} \cup UnderWay'
    BY <1>2, <1>6 DEF UnderWay
  <2> QED
    BY <1>5, <1>8, <2>1, <2>2
<1>9. CASE Head(output).kind # "event"
  <2>1. UnderWay \subseteq UnderWay'
    BY <1>6, <1>7, <1>9 DEF UnderWay
  <2> QED
    BY <1>5, <1>9, <2>1
<1> QED
  BY <1>8, <1>9

(* A step that changes neither the events nor what the client makes of     *)
(* them, and at most tells tasks to deny what is open.                     *)
LEMMA SameApprovals ==
  ASSUME TypeOK, StreamInv, Followed,
         UNCHANGED <<replay, model, whole>>,
         UnderWay' = UnderWay, Live' = Live,
         \A a \in Approvals :
           /\ approval'[a] = "new" <=> approval[a] = "new"
           /\ approval'[a] = "closed" <=> approval[a] = "closed"
           /\ approval'[a] = "open" => approval[a] = "open"
           /\ approval'[a] = "open" => broker'.phase = "Ready"
  PROVE  Followed'
<1>1. Retained' = Retained
  BY DEF Retained
<1>2. Told(Retained)'
  BY <1>1 DEF Followed, Told, Asks, Settles
<1>3. ASSUME whole PROVE Tracked'
  <2>1. Tracked
    BY <1>3 DEF Followed
  <2>2. Told(UnderWay)'
    BY <2>1 DEF Tracked, Told, Asks, Settles
  <2>4. model.pending \subseteq Approvals
    BY DEF TypeOK, ClientTypeOK
  <2>5. \A a \in Approvals : WillHide(a)' = WillHide(a)
    BY DEF WillHide, Settles
  <2>6. \A a \in Approvals : WillShow(a)' = WillShow(a)
    BY DEF WillShow, Asks
  <2> QED
    BY <2>1, <2>2, <2>4, <2>5, <2>6 DEF Tracked
<1> QED
  BY <1>2, <1>3 DEF Followed

(* An event that says what became of an approval, and when. *)
LEMMA PublishedFollows ==
  ASSUME TypeOK, StreamInv, Followed, NEW event \in Events, Publish(event),
         UNCHANGED <<broker, link, model, whole>>,
         \A a \in Approvals :
           /\ Asks(event, a) => approval[a] = "new"
           /\ approval'[a] # "new" <=> approval[a] # "new" \/ Asks(event, a)
           /\ approval'[a] = "closed" <=>
                approval[a] = "closed" \/ Settles(event, a)
           /\ approval'[a] = "open" =>
                /\ approval[a] = "open" \/ Asks(event, a)
                /\ broker.phase = "Ready"
  PROVE  Followed'
<1>1. PICK e \in Events :
        /\ e.sequence = Latest(replay) + 1
        /\ e.type = event.type /\ e.approval = event.approval
        /\ e \in Retained' /\ Retained' \subseteq Retained \cup {e}
        /\ \A f \in Retained \ Retained', g \in Retained' :
             f.sequence < g.sequence
        /\ UnderWay' = IF Live THEN UnderWay \cup {e} ELSE UnderWay
  BY PublishedSets
<1>2. /\ UnderWay \subseteq Events /\ Retained \subseteq Events
      /\ Latest(replay) \in Nat /\ model.last_sequence \in Nat
      /\ \A f \in Retained : f.sequence =< Latest(replay)
      /\ ~Live => UnderWay = {}
      /\ whole => model.last_sequence =< Latest(replay)
      /\ whole /\ Live => \A f \in UnderWay :
           f.sequence > model.last_sequence /\ f.sequence =< Latest(replay)
  BY StreamFacts
<1>3. \A f \in Events : f.sequence \in Int
  BY DEF Events
<1>4. Live' = Live
  BY DEF Live
<1>5. \A a \in Approvals : /\ Asks(event, a) <=> Asks(e, a)
                           /\ Settles(event, a) <=> Settles(e, a)
                           /\ ~(Asks(e, a) /\ Settles(e, a))
  BY <1>1 DEF Asks, Settles
<1>6. \A f \in Retained : f.sequence < e.sequence
  BY <1>1, <1>2, <1>3
<1>7. \A a \in Approvals :
        /\ Asks(e, a) => approval'[a] # "new" /\ approval'[a] # "closed"
        /\ Settles(e, a) => approval'[a] = "closed"
        /\ approval[a] # "new" => approval'[a] # "new"
        /\ approval[a] = "closed" => approval'[a] = "closed"
        /\ approval'[a] = "closed" => approval[a] = "closed" \/ Settles(e, a)
  BY <1>5
<1>8. Told(Retained)'
  <2>1. SUFFICES ASSUME NEW f \in Retained', NEW a \in Approvals
                 PROVE  /\ Asks(f, a) => approval'[a] # "new"
                        /\ Settles(f, a) => approval'[a] = "closed"
                        /\ Asks(f, a) /\ approval'[a] = "closed" =>
                             \E g \in Retained' :
                               Settles(g, a) /\ g.sequence > f.sequence
    BY DEF Told, Asks, Settles
  <2>2. CASE f = e
    BY <1>7, <2>2
  <2>3. CASE f # e
    <3>1. f \in Retained /\ f \in Events
      BY <1>1, <1>2, <2>3
    <3>2. /\ Asks(f, a) => approval[a] # "new"
          /\ Settles(f, a) => approval[a] = "closed"
          /\ Asks(f, a) /\ approval[a] = "closed" =>
               \E g \in Retained :
                 Settles(g, a) /\ g.sequence > f.sequence
      BY <3>1 DEF Followed, Told
    <3>3. CASE Asks(f, a) /\ approval[a] = "closed"
      <4>1. PICK g \in Retained : Settles(g, a) /\ g.sequence > f.sequence
        BY <3>2, <3>3
      <4>2. f.sequence \in Int /\ g.sequence \in Int
        BY <1>2, <1>3, <3>1
      <4>3. g \in Retained'
        BY <1>1, <4>1, <4>2
      <4> QED
        BY <1>7, <3>2, <3>3, <4>1, <4>3
    <3>4. CASE Asks(f, a) /\ Settles(e, a)
      BY <1>1, <1>6, <1>7, <1>3, <3>1, <3>2, <3>4
    <3> QED
      BY <1>7, <3>2, <3>3, <3>4
  <2> QED
    BY <2>2, <2>3
<1>9. ASSUME whole
       PROVE  Tracked'
  <2>1. Tracked
    BY <1>9 DEF Followed
  <2>2. \A f \in UnderWay : f \in Events /\ f.sequence < e.sequence
    BY <1>1, <1>2, <1>3, <1>9
  <2>3. /\ UnderWay \subseteq UnderWay'
        /\ UnderWay' \subseteq UnderWay \cup {e}
        /\ Live => e \in UnderWay'
    BY <1>1
  <2>4. Told(UnderWay)'
    <3>1. SUFFICES ASSUME NEW f \in UnderWay', NEW a \in Approvals
                   PROVE  /\ Asks(f, a) => approval'[a] # "new"
                          /\ Settles(f, a) => approval'[a] = "closed"
                          /\ Asks(f, a) /\ approval'[a] = "closed" =>
                               \E g \in UnderWay' :
                                 Settles(g, a) /\ g.sequence > f.sequence
      BY DEF Told, Asks, Settles
    <3>2. CASE f = e
      BY <1>7, <3>2
    <3>3. CASE f # e
      <4>1. f \in UnderWay /\ Live
        BY <1>1, <1>2, <2>3, <3>3
      <4>2. /\ Asks(f, a) => approval[a] # "new"
            /\ Settles(f, a) => approval[a] = "closed"
            /\ Asks(f, a) /\ approval[a] = "closed" =>
                 \E g \in UnderWay :
                   Settles(g, a) /\ g.sequence > f.sequence
        BY <2>1, <4>1 DEF Tracked, Told
      <4>3. e \in UnderWay' /\ e.sequence > f.sequence
        BY <1>3, <2>2, <2>3, <4>1
      <4> QED
        BY <1>7, <2>3, <4>2, <4>3
    <3> QED
      BY <3>2, <3>3
  <2>6. ASSUME NEW a \in model.pending, approval'[a] = "closed"
        PROVE  WillHide(a)'
    <3>1. a \in Approvals /\ Live
      BY <2>1 DEF Tracked, TypeOK, ClientTypeOK
    <3>2. approval[a] = "closed" => WillHide(a)
      BY <2>1 DEF Tracked
    <3>3. \E f \in UnderWay' : Settles(f, a)
      BY <1>7, <2>3, <2>6, <3>1, <3>2 DEF WillHide
    <3> QED
      BY <3>3 DEF WillHide, Settles
  <2>7. ASSUME Live, NEW a \in Approvals, approval'[a] = "open"
        PROVE  WillShow(a)'
    <3>1. a \in model.pending \/ \E f \in UnderWay' : Asks(f, a)
      <4>1. CASE approval[a] = "open"
        BY <2>1, <2>3, <2>7, <4>1 DEF Tracked, WillShow
      <4>2. CASE Asks(e, a)
        BY <2>3, <2>7, <4>2
      <4> QED
        BY <1>5, <2>7, <4>1, <4>2
    <3> QED
      BY <3>1 DEF WillShow, Asks
  <2>8. \A a \in model.pending : approval'[a] # "new"
    <3>1. model.pending \subseteq Approvals
      BY DEF TypeOK, ClientTypeOK
    <3> QED
      BY <1>7, <2>1, <3>1 DEF Tracked
  <2> QED
    BY <1>4, <2>1, <2>4, <2>6, <2>7, <2>8 DEF Tracked
<1> QED
  BY <1>8, <1>9 DEF Followed

(* initialized: what is replayed tells the client, which shows nothing yet, *)
(* the end of what it asks for; nothing is open before the broker is ready. *)
LEMMA InitializedFollows ==
  ASSUME TypeOK, StreamInv, Followed, HandleInitialized
  PROVE  Followed'
<1>1. /\ input # <<>> /\ input' = Tail(input)
      /\ Head(input).kind = "initialized"
      /\ UNCHANGED <<replay, approval, link, client, model>>
  BY DEF HandleInitialized, Item
<1>2. CASE UNCHANGED <<broker, output, whole>>
  <2>1. UnderWay' = UnderWay /\ Live' = Live
    BY <1>1, <1>2, SameStreamWhenUnchanged, SameUnderWay DEF Live
  <2> QED
    BY <1>1, <1>2, <2>1, SameApprovals DEF Followed
<1>3. CASE Current /\ broker.phase = "AwaitInitialized"
  <2>1. /\ broker' = [broker EXCEPT !.phase = "Ready"]
        /\ output' = Sent(Replayed(broker.cursor))
        /\ whole' = (whole /\ ~( /\ broker.generation = link
                                 /\ ResyncRequired(replay, broker.cursor)))
    BY <1>3 DEF HandleInitialized
  <2>2. /\ broker'.phase = "Ready"
        /\ broker'.generation = broker.generation
        /\ broker.cursor \in Nat
    BY <2>1 DEF TypeOK, BrokerTypeOK
  <2>3. /\ ~Live /\ UnderWay = {} /\ OnTheWay = {}
        /\ \A a \in Approvals : approval[a] # "open"
    BY <1>3 DEF Live, StreamInv, Handshake, NothingEarly, UnderWay, Followed
  <2>4. Retained' = Retained /\ Told(Retained)'
    <3>1. Retained' = Retained
      BY <1>1 DEF Retained
    <3> QED
      BY <1>1, <3>1 DEF Followed, Told, Asks, Settles
  <2>5. CASE ~whole'
    BY <1>1, <2>2, <2>4, <2>5 DEF Followed
  <2>6. CASE whole' /\ ~Served
    <3>1. whole /\ Tracked
      BY <2>1, <2>6 DEF Followed
    <3>2. whole' = whole /\ output' = output /\ ~Live'
      <4>1. ~(broker.output /\ broker.generation = link)
        BY <2>6, SilentWithoutLink DEF Served
      <4>2. Replayed(broker.cursor) \in Seq(Messages)
        BY <2>2, ReplayedType
      <4> QED
        BY <1>1, <2>1, <2>2, <2>6, <4>1, <4>2, SentType DEF Served, Live
    <3>3. UnderWay' = UnderWay
      BY <3>2, SameStreamWhenUnchanged, SameUnderWay
    <3> QED
      <4>1. Live' = Live
        BY <2>3, <3>2 DEF Live
      <4> QED
        BY <1>1, <2>3, <3>2, <3>3, <4>1, SameApprovals
  <2>7. CASE whole' /\ Served
    <3>1. whole /\ Tracked /\ ~ResyncRequired(replay, broker.cursor)
      BY <2>1, <2>7 DEF Followed, Served
    <3>2. Live'
      BY <1>1, <2>2, <2>7 DEF Live, Served
    <3>3. broker.cursor = model.last_sequence
      <4>1. Head(input).generation = link /\ link # 0
        BY <1>3, <2>7 DEF Current, Served
      <4>2. client.conn.state = "connected"
        BY <1>1, <4>1, HeadItem
      <4> QED
        BY <1>3, <2>7, <4>2 DEF StreamInv, Handshake, CursorInv
    <3>4. UnderWay' = {e \in Retained : e.sequence > model.last_sequence}
      <4> DEFINE replayed == Replayed(broker.cursor)
      <4>1. /\ \A i \in 1..Len(replayed) : replayed[i].kind = "event"
            /\ {replayed[i].event : i \in 1..Len(replayed)}
                 = {e \in Retained : e.sequence > model.last_sequence}
        BY <2>2, <3>1, <3>3, ReplayedSets
      <4>2. replayed \in Seq(Messages) /\ output \in Seq(Messages)
        BY <2>2, ReplayedType DEF TypeOK, ClientTypeOK
      <4>3. output' = output \o replayed
        BY <2>1, <2>7, <4>2, SentType DEF Served, StreamInv, Numbered
      <4> HIDE DEF replayed
      <4>4. PICK n \in Nat : n = Len(output)
        BY <4>2, LenType
      <4>5. PICK m \in Nat : m = Len(replayed)
        BY <4>2, LenType
      <4>6. /\ Len(output') = n + m
            /\ \A i \in 1..n : output'[i] = output[i]
            /\ \A i \in 1..m : output'[n + i] = replayed[i]
        BY <4>2, <4>3, <4>4, <4>5, ConcatElements
      <4>7. \A i \in 1..n : output'[i].kind # "event"
        BY <2>3, <4>4, <4>6 DEF OnTheWay
      <4>8. \A i \in 1..m : n + i \in OnTheWay' /\ output'[n + i] = replayed[i]
        <5> TAKE i \in 1..m
        <5>1. n + i \in 1..n + m
          BY <4>4, <4>5
        <5> QED
          BY <4>1, <4>5, <4>6, <5>1 DEF OnTheWay
      <4>9. \A i \in OnTheWay' : i - n \in 1..m /\ output'[i] = replayed[i - n]
        <5> TAKE i \in OnTheWay'
        <5>1. i \in 1..n + m /\ output'[i].kind = "event"
          BY <4>6 DEF OnTheWay
        <5>2. i - n \in 1..m /\ n + (i - n) = i
          BY <4>4, <4>5, <4>7, <5>1
        <5> QED
          BY <4>6, <5>2
      <4>10. UnderWay' = {replayed[i].event : i \in 1..m}
        BY <4>8, <4>9 DEF UnderWay
      <4> QED
        BY <4>1, <4>5, <4>10
    <3>5. Told(UnderWay)'
      <4>1. SUFFICES ASSUME NEW f \in UnderWay', NEW a \in Approvals
                     PROVE  /\ Asks(f, a) => approval[a] # "new"
                            /\ Settles(f, a) => approval[a] = "closed"
                            /\ Asks(f, a) /\ approval[a] = "closed" =>
                                 \E g \in UnderWay' :
                                   Settles(g, a) /\ g.sequence > f.sequence
        BY <1>1 DEF Told, Asks, Settles
      <4>2. /\ f \in Retained /\ f.sequence > model.last_sequence
            /\ model.last_sequence \in Nat
            /\ \A g \in Retained : g.sequence \in Nat
        BY <3>4, StreamFacts DEF Events
      <4>3. /\ Asks(f, a) => approval[a] # "new"
            /\ Settles(f, a) => approval[a] = "closed"
            /\ Asks(f, a) /\ approval[a] = "closed" =>
                 \E g \in Retained : Settles(g, a) /\ g.sequence > f.sequence
        BY <4>2 DEF Followed, Told
      <4>4. \A g \in Retained : g.sequence > f.sequence => g \in UnderWay'
        BY <3>4, <4>2
      <4> QED
        BY <4>3, <4>4
    <3>6. model'.pending = {}
      BY <1>1, <2>3, <3>1 DEF Tracked
    <3>10. Tracked'
      BY <1>1, <2>3, <3>5, <3>6 DEF Tracked
    <3> QED
      BY <1>1, <2>2, <2>4, <3>10 DEF Followed
  <2> QED
    BY <2>5, <2>6, <2>7
<1> QED
  BY <1>2, <1>3 DEF HandleInitialized

(* apply_event: the first event on its way is the next one, so it takes    *)
(* nothing from the client that it will not be told, and nothing is told   *)
(* that was settled before.                                                *)
LEMMA EventFollows ==
  ASSUME TypeOK, StreamInv, Followed, ReceiveEvent, StreamInv'
  PROVE  Followed'
<1> DEFINE e == Head(output).event
<1>1. /\ output # <<>> /\ Head(output).kind = "event" /\ output' = Tail(output)
      /\ model' = Applied(e)
      /\ UNCHANGED <<replay, broker, approval, link, whole>>
  BY DEF ReceiveEvent, Message
<1>2. UnderWay = {e} \cup UnderWay' /\ e \in Events
  BY <1>1, ReadSets, MessageType
<1> HIDE DEF e
<1>3. Live /\ Live' = Live
  BY <1>1, <1>2, StreamFacts DEF Live
<1>4. Retained' = Retained /\ Told(Retained)'
  <2>1. Retained' = Retained
    BY <1>1 DEF Retained
  <2> QED
    BY <1>1, <2>1 DEF Followed, Told, Asks, Settles
<1>5. \A a \in Approvals : approval'[a] = "open" => broker'.phase = "Ready"
  BY <1>1 DEF Followed
<1>6. ASSUME whole
      PROVE  Tracked'
  <2>1. Tracked
    BY <1>6 DEF Followed
  <2>2. /\ UnderWay \subseteq Events
        /\ Latest(replay) \in Nat /\ model.last_sequence \in Nat
        /\ \A f \in UnderWay : f.sequence > model.last_sequence
    BY <1>3, <1>6, StreamFacts
  <2>3. /\ model'.last_sequence = e.sequence
        /\ model'.pending = Projected(model.pending, e)
        /\ e.sequence \in Nat /\ e.sequence > model.last_sequence
    <3>1. e.sequence \in Nat /\ e.sequence > model.last_sequence
      BY <1>2, <2>2 DEF Events
    <3> QED
      BY <1>1, <2>2, <3>1 DEF Applied
  <2>4. \A f \in UnderWay' : f.sequence > e.sequence
    <3>1. Live' /\ whole'
      BY <1>1, <1>3, <1>6
    <3>2. {output'[i].event.sequence : i \in OnTheWay'}
            = model'.last_sequence + 1..Latest(replay)
      BY <1>1, <3>1 DEF StreamInv, StreamContinues, Latest
    <3>3. \A i \in OnTheWay' :
            output'[i].event.sequence \in model'.last_sequence + 1..Latest(replay)
      BY <3>2
    <3>4. \A f \in UnderWay' :
            f.sequence \in model'.last_sequence + 1..Latest(replay)
      BY <3>3 DEF UnderWay
    <3> QED
      BY <2>2, <2>3, <3>4
  <2>5. /\ \A f \in UnderWay : f = e \/ f \in UnderWay'
        /\ \A f \in UnderWay' : f \in UnderWay
        /\ \A f \in UnderWay : f.sequence \in Nat
        /\ e \in UnderWay
    BY <1>2, <2>2 DEF Events
  <2>6. \A f \in UnderWay, a \in Approvals :
          /\ Asks(f, a) => approval[a] # "new"
          /\ Settles(f, a) => approval[a] = "closed"
          /\ Asks(f, a) /\ approval[a] = "closed" =>
               \E g \in UnderWay' :
                 Settles(g, a) /\ g.sequence > f.sequence
    <3> SUFFICES ASSUME NEW f \in UnderWay, NEW a \in Approvals
                 PROVE  /\ Asks(f, a) => approval[a] # "new"
                        /\ Settles(f, a) => approval[a] = "closed"
                        /\ Asks(f, a) /\ approval[a] = "closed" =>
                             \E g \in UnderWay' :
                               Settles(g, a) /\ g.sequence > f.sequence
      OBVIOUS
    <3>1. /\ Asks(f, a) => approval[a] # "new"
          /\ Settles(f, a) => approval[a] = "closed"
          /\ Asks(f, a) /\ approval[a] = "closed" =>
               \E g \in UnderWay : Settles(g, a) /\ g.sequence > f.sequence
      BY <2>1 DEF Tracked, Told
    <3>2. \A g \in UnderWay : g.sequence > f.sequence => g \in UnderWay'
      <4> TAKE g \in UnderWay
      <4>1. CASE f = e
        BY <2>3, <2>5, <4>1
      <4>2. CASE f # e
        BY <2>3, <2>4, <2>5, <4>2
      <4> QED
        BY <4>1, <4>2
    <3> QED
      BY <3>1, <3>2
  <2>7. Told(UnderWay)'
    BY <1>1, <2>5, <2>6 DEF Told, Asks, Settles
  <2>9. /\ model.pending \subseteq Approvals /\ model'.pending \subseteq Approvals
        /\ \A a \in Approvals :
             /\ a \in model'.pending => a \in model.pending \/ Asks(e, a)
             /\ a \in model'.pending => ~Settles(e, a)
             /\ a \in model.pending /\ ~Settles(e, a) => a \in model'.pending
             /\ Asks(e, a) => a \in model'.pending
    <3>1. model.pending \subseteq Approvals
      BY DEF TypeOK, ClientTypeOK
    <3>2. CASE e.type = "approval.requested"
      BY <1>2, <2>3, <3>1, <3>2 DEF Projected, Asks, Settles, Events
    <3>3. CASE e.type = "approval.resolved"
      BY <1>2, <2>3, <3>1, <3>3 DEF Projected, Asks, Settles, Events
    <3>4. CASE e.type # "approval.requested" /\ e.type # "approval.resolved"
      BY <2>3, <3>1, <3>4 DEF Projected, Asks, Settles
    <3> QED
      BY <3>2, <3>3, <3>4
  <2>10. ASSUME NEW a \in model'.pending
         PROVE  /\ approval[a] # "new"
                /\ approval[a] = "closed" =>
                     \E f \in UnderWay' : Settles(f, a)
    <3>1. a \in Approvals
      BY <2>9
    <3>2. CASE Asks(e, a)
      BY <2>5, <2>6, <3>1, <3>2
    <3>3. CASE a \in model.pending
      <4>1. /\ approval[a] # "new"
            /\ approval[a] = "closed" => \E f \in UnderWay : Settles(f, a)
        BY <1>3, <2>1, <3>3 DEF Tracked, WillHide
      <4> QED
        BY <2>5, <2>9, <3>1, <4>1
    <3> QED
      BY <2>9, <3>1, <3>2, <3>3
  <2>11. ASSUME NEW a \in Approvals, approval[a] = "open"
         PROVE  a \in model'.pending \/ \E f \in UnderWay' : Asks(f, a)
    <3>1. a \in model.pending \/ \E f \in UnderWay : Asks(f, a)
      BY <1>3, <2>1, <2>11 DEF Tracked, WillShow
    <3>2. ~Settles(e, a)
      BY <2>5, <2>6, <2>11
    <3> QED
      BY <2>5, <2>9, <3>1, <3>2
  <2>12. /\ \A a \in model'.pending :
              approval'[a] # "new" /\ (approval'[a] = "closed" => WillHide(a)')
         /\ \A a \in Approvals : approval'[a] = "open" => WillShow(a)'
    BY <1>1, <1>3, <2>10, <2>11 DEF WillHide, WillShow, Asks, Settles
  <2> QED
    BY <1>3, <2>7, <2>12 DEF Tracked
<1> QED
  BY <1>1, <1>4, <1>5, <1>6 DEF Followed

(* Calls, their answers and the messages that carry them. *)
LEMMA CallsFollow ==
  ASSUME TypeOK, StreamInv, Followed,
         \/ \E request \in owed : TaskAnswers(request)
         \/ HandleRequest \/ Call \/ ReceiveResponse \/ UNCHANGED vars
  PROVE  Followed'
<1>1. /\ UNCHANGED <<replay, approval, link, model, whole>>
      /\ broker'.generation = broker.generation
      /\ broker'.phase = broker.phase
  BY DEF TaskAnswers, HandleRequest, Call, ReceiveResponse, vars, TypeOK,
     BrokerTypeOK
<1>2. SameStream
  <2>1. CASE output' = output
    BY <2>1, SameStreamWhenUnchanged
  <2>2. CASE \E p \in broker.pending : Send(Response(p.public_id, p.origin))
    <3>1. PICK p \in broker.pending : Send(Response(p.public_id, p.origin))
      BY <2>2
    <3>2. p.public_id \in Nat /\ p.origin \in Nat
      BY DEF TypeOK, BrokerTypeOK, Registered
    <3> QED
      BY <3>1, <3>2, SameStreamWhenAnswered
  <2>3. CASE /\ Item("request")
             /\ Send(Response(Head(input).id, Head(input).generation))
    <3>1. Head(input).id \in Nat /\ Head(input).generation \in Nat
      BY <2>3, ItemType DEF Item
    <3> QED
      BY <2>3, <3>1, SameStreamWhenAnswered
  <2>4. CASE Message("response") /\ output' = Tail(output)
    BY <2>4, SameStreamWhenRead
  <2> QED
    BY <2>1, <2>2, <2>3, <2>4
       DEF TaskAnswers, HandleRequest, Call, ReceiveResponse, vars
<1>3. UnderWay' = UnderWay /\ Live' = Live
  BY <1>1, <1>2, SameUnderWay DEF Live
<1> QED
  BY <1>1, <1>3, SameApprovals DEF Followed

(* start and the reconnect timer. *)
LEMMA WaitingFollows ==
  ASSUME TypeOK, StreamInv, Followed, Start \/ TimerFires
  PROVE  Followed'
<1>1. UNCHANGED <<replay, broker, approval, link, output, model, whole>>
  BY WaitingSteps
<1>2. UnderWay' = UnderWay /\ Live' = Live
  BY <1>1, SameStreamWhenUnchanged, SameUnderWay DEF Live
<1> QED
  BY <1>1, <1>2, SameApprovals DEF Followed

(* connect, disconnect and initialize, and the client that opens the next  *)
(* connection: nothing is open that the broker is not ready for, because a *)
(* connection begins only after the close of the one before is read.       *)
LEMMA ConnectionFollows ==
  ASSUME TypeOK, StreamInv, Blocks, Followed,
         HandleConnected \/ HandleClosed \/ HandleInitialize \/ Connects
  PROVE  Followed'
<1>1. UNCHANGED <<replay, model, whole>>
  BY DEF HandleConnected, HandleClosed, HandleInitialize, Connects
<1>2. CASE HandleConnected
  <2>1. /\ input # <<>> /\ Head(input).kind = "connected"
        /\ UNCHANGED <<output, link, approval>>
    BY <1>2 DEF HandleConnected, Item
  <2>2. broker.phase = "AwaitInitialize"
    BY <2>1, HeadBlock
  <2>3. broker'.phase = "AwaitInitialize"
    BY <1>2, <2>2 DEF HandleConnected, TypeOK, BrokerTypeOK
  <2>4. UnderWay' = UnderWay /\ Live' = Live
    BY <2>1, <2>2, <2>3, SameStreamWhenUnchanged, SameUnderWay DEF Live
  <2> QED
    BY <1>1, <2>1, <2>2, <2>4, SameApprovals DEF Followed
<1>3. CASE HandleClosed
  <2>1. /\ input # <<>> /\ Head(input).kind = "closed"
        /\ UNCHANGED <<output, link>>
    BY <1>3 DEF HandleClosed, Item
  <2>2. Head(input).generation = broker.generation /\ ~Served
    BY <2>1, HeadBlock, HeadItem DEF Served
  <2>3. /\ broker' = [broker EXCEPT
                        !.output = FALSE, !.phase = "AwaitInitialize",
                        !.cursor = 0,
                        !.pending = {p \in @ :
                                       p.generation # broker.generation}]
        /\ approval' = [a \in Approvals |-> ClientGone(approval[a])]
    BY <1>3, <2>2 DEF HandleClosed
  <2>4. broker'.phase = "AwaitInitialize"
    BY <2>3 DEF TypeOK, BrokerTypeOK
  <2>5. UnderWay' = UnderWay /\ Live' = Live
    BY <2>1, <2>2, <2>4, SameStreamWhenUnchanged, SameUnderWay
       DEF Live, Served
  <2>6. \A a \in Approvals :
          approval'[a] = IF approval[a] = "open" THEN "denying"
                                                 ELSE approval[a]
    BY <2>3 DEF ClientGone
  <2> QED
    BY <1>1, <2>5, <2>6, SameApprovals
<1>4. CASE HandleInitialize
  <2>1. UNCHANGED <<link, approval>> /\ input # <<>>
    BY <1>4 DEF HandleInitialize, Item
  <2>2. CASE UNCHANGED <<broker, output>>
    <3>1. UnderWay' = UnderWay /\ Live' = Live
      BY <2>1, <2>2, SameStreamWhenUnchanged, SameUnderWay DEF Live
    <3> QED
      BY <1>1, <2>1, <2>2, <3>1, SameApprovals DEF Followed
  <2>3. CASE Current /\ broker.phase = "AwaitInitialize"
    <3>1. broker'.phase = "AwaitInitialized"
      BY <1>4, <2>3 DEF HandleInitialize, TypeOK, BrokerTypeOK
    <3>2. \A a \in Approvals : approval[a] # "open"
      BY <2>3 DEF Followed
    <3>3. ~Live /\ ~Live' /\ OnTheWay = {}
      BY <2>3, <3>1 DEF Live, StreamInv, Handshake, NothingEarly
    <3>4. OnTheWay' = {}
      BY <3>3, <1>4, InitializeKeepsTheStream
         DEF StreamInv, Handshake, NothingEarly
    <3>5. UnderWay' = UnderWay
      BY <3>3, <3>4 DEF UnderWay
    <3>6. Live' = Live
      BY <3>3 DEF Live
    <3> QED
      BY <1>1, <2>1, <3>2, <3>5, <3>6, SameApprovals
  <2> QED
    BY <1>4, <2>2, <2>3 DEF HandleInitialize
<1>5. CASE Connects
  <2>1. /\ link = 0 /\ link' = accepted + 1
        /\ UNCHANGED <<broker, output, approval>>
    BY <1>5 DEF Connects, Opening, NextGeneration
  <2>2. broker.generation # accepted + 1
    BY DEF StreamInv, Numbered, TypeOK, BrokerTypeOK
  <2>3. UnderWay' = UnderWay /\ Live' = Live
    BY <2>1, <2>2, SameStreamWhenUnchanged, SameUnderWay DEF Live
  <2> QED
    BY <1>1, <2>1, <2>3, SameApprovals DEF Followed
<1> QED
  BY <1>2, <1>3, <1>4, <1>5

(* begin_resync: the client starts over with nothing shown. *)
LEMMA AcknowledgedFollows ==
  ASSUME TypeOK, StreamInv, Followed, ReceiveInitialized
  PROVE  Followed'
<1>1. /\ output # <<>> /\ Head(output).kind = "initialized_result"
      /\ output' = Tail(output)
      /\ UNCHANGED <<replay, broker, approval, link>>
  BY DEF ReceiveInitialized, Message
<1>2. UnderWay' = UnderWay /\ Live' = Live
  BY <1>1, ReadSets DEF Live
<1>3. ~Live
  <2>1. 1 \in Results
    BY <1>1, TailElements DEF Results, TypeOK, ClientTypeOK
  <2> QED
    BY <2>1 DEF StreamInv, Handshake, ResultsInv, Live
<1>4. CASE ~Head(output).resync
  <2>1. model' = model /\ whole' = whole
    <3>1. Head(output).resync \in BOOLEAN /\ whole \in BOOLEAN
      BY <1>1, MessageType DEF TypeOK, ClientTypeOK
    <3>2. whole' = (whole \/ Head(output).resync)
      BY DEF ReceiveInitialized
    <3>3. model' = model
      BY <1>4 DEF ReceiveInitialized
    <3> QED
      BY <1>4, <3>1, <3>2, <3>3
  <2> QED
    BY <1>1, <1>2, <2>1, SameApprovals DEF Followed
<1>5. CASE Head(output).resync
  <2>1. model'.pending = {}
    BY <1>5 DEF ReceiveInitialized, BeginResync
  <2>2. UnderWay' = {} /\ ~Live' /\ Retained' = Retained
    BY <1>1, <1>2, <1>3, StreamFacts DEF Retained
  <2>3. Tracked'
    BY <2>1, <2>2 DEF Tracked, Told
  <2> QED
    BY <1>1, <2>2, <2>3 DEF Followed, Told, Asks, Settles
<1> QED
  BY <1>4, <1>5

(* A connection that is lost or refused, with Neovim or with the broker:   *)
(* nothing is on its way to a client that shows nothing.                   *)
LEMMA FailuresFollow ==
  ASSUME TypeOK, StreamInv, Followed,
         ConnectionLost \/ ConnectionRefused \/ NvimRestart \/ BrokerRestart
  PROVE  Followed'
<1>1. /\ link' = 0 /\ output' = <<>>
      /\ model'.pending \subseteq model.pending
      /\ link # 0 => model'.pending = {}
  BY LossForgets
<1>2. ~Live' /\ UnderWay' = {}
  <2>1. Len(output') = 0
    BY <1>1, EmptyType
  <2> QED
    BY <1>1, <2>1 DEF Live, UnderWay, OnTheWay
<1>3. Told(UnderWay)'
  BY <1>2 DEF Told
<1>6. ASSUME model'.pending = {}
      PROVE  Tracked'
  BY <1>2, <1>3, <1>6 DEF Tracked
<1>4. CASE ConnectionLost \/ ConnectionRefused \/ NvimRestart
  <2>1. UNCHANGED <<replay, broker, approval>>
    BY <1>4 DEF ConnectionLost, ConnectionRefused, NvimRestart
  <2>2. Retained' = Retained /\ Told(Retained)'
    <3>1. Retained' = Retained
      BY <2>1 DEF Retained
    <3> QED
      BY <2>1, <3>1 DEF Followed, Told, Asks, Settles
  <2>3. model'.pending = {}
    BY <1>4 DEF ConnectionLost, ConnectionRefused, LoseConnection,
       NvimRestart, NewModel, TypeOK, ClientTypeOK
  <2> QED
    BY <1>6, <2>1, <2>2, <2>3 DEF Followed
<1>5. CASE BrokerRestart
  <2>1. /\ replay' = EmptyBuffer
        /\ approval' = [a \in Approvals |->
                          IF approval[a] = "new" THEN "new" ELSE "closed"]
        /\ whole' = (whole /\ client.last_sequence = 0)
    BY <1>5 DEF BrokerRestart
  <2>2. Retained' = {}
    <3>1. Len(replay'.events) = 0
      BY <2>1, EmptyType DEF EmptyBuffer
    <3> QED
      BY <3>1 DEF Retained
  <2>3. ASSUME whole'
        PROVE  Tracked'
    <3>1. link = 0 => model.pending = {}
      BY <2>1, <2>3 DEF Followed, Tracked, Live
    <3> QED
      BY <1>1, <1>6, <3>1
  <2>4. \A a \in Approvals : approval'[a] # "open"
    BY <2>1
  <2> QED
    BY <2>2, <2>3, <2>4 DEF Followed, Told
<1> QED
  BY <1>4, <1>5

(* Every step of the broker, the client and the connection. *)
LEMMA ApprovalStep ==
  ASSUME TypeOK, StreamInv, Blocks, Followed, [Next]_vars
  PROVE  Followed'
<1> USE DEF Asks, Settles
<1>1. CASE ProviderNote
  <2>1. Event("note", None) \in Events
    BY DEF Event, Events
  <2>2. Event("note", None).type = "note"
    BY DEF Event
  <2>3. /\ Publish(Event("note", None))
        /\ UNCHANGED <<broker, approval, link, model, whole>>
    BY <1>1 DEF ProviderNote
  <2> QED
    BY <2>1, <2>2, <2>3, PublishedFollows DEF Followed
<1>2. CASE \E a \in Approvals : ApprovalRequested(a) \/ ApprovalResolved(a)
  <2>1. PICK a \in Approvals : ApprovalRequested(a) \/ ApprovalResolved(a)
    BY <1>2
  <2>2. approval \in [Approvals -> {"new", "open", "denying", "closed"}]
    BY DEF TypeOK, BrokerTypeOK
  <2>3. CASE ApprovalRequested(a)
    <3>1. PICK event \in Events : event = Event("approval.requested", a)
      BY DEF Event, Events
    <3>2. event.type = "approval.requested" /\ event.approval = a
      BY <3>1 DEF Event
    <3>3. /\ Publish(event) /\ approval[a] = "new"
          /\ approval' = [approval EXCEPT ![a] = AskedStatus]
          /\ UNCHANGED <<broker, link, model, whole>>
      BY <2>3, <3>1 DEF ApprovalRequested
    <3>4. /\ AskedStatus \in {"open", "denying"}
          /\ AskedStatus = "open" => broker.phase = "Ready"
      BY DEF AskedStatus
    <3>5. \A b \in Approvals :
            approval'[b] = IF b = a THEN AskedStatus ELSE approval[b]
      BY <2>2, <3>3
    <3> QED
      BY <3>2, <3>3, <3>4, <3>5, PublishedFollows DEF Followed
  <2>4. CASE ApprovalResolved(a)
    <3>1. PICK event \in Events : event = Event("approval.resolved", a)
      BY DEF Event, Events
    <3>2. event.type = "approval.resolved" /\ event.approval = a
      BY <3>1 DEF Event
    <3>3. /\ Publish(event) /\ approval[a] \in {"open", "denying"}
          /\ approval' = [approval EXCEPT ![a] = "closed"]
          /\ UNCHANGED <<broker, link, model, whole>>
      BY <2>4, <3>1 DEF ApprovalResolved
    <3>4. \A b \in Approvals :
            approval'[b] = IF b = a THEN "closed" ELSE approval[b]
      BY <2>2, <3>3
    <3> QED
      BY <3>2, <3>3, <3>4, PublishedFollows DEF Followed
  <2> QED
    BY <2>1, <2>3, <2>4
<1>3. CASE \/ \E request \in owed : TaskAnswers(request)
           \/ HandleRequest \/ Call \/ ReceiveResponse \/ UNCHANGED vars
  BY <1>3, CallsFollow
<1>4. CASE HandleConnected \/ HandleClosed \/ HandleInitialize \/ Connects
  BY <1>4, ConnectionFollows
<1>5. CASE HandleInitialized
  BY <1>5, InitializedFollows
<1>6. CASE ReceiveInitialized
  BY <1>6, AcknowledgedFollows
<1>7. CASE ReceiveEvent
  BY <1>7, EventFollows, StreamStep
<1>8. CASE \/ ConnectionLost \/ ConnectionRefused
           \/ NvimRestart \/ BrokerRestart
  BY <1>8, FailuresFollow
<1>9. CASE Start \/ TimerFires
  BY <1>9, WaitingFollows
<1> QED
  BY <1>1, <1>2, <1>3, <1>4, <1>5, <1>6, <1>7, <1>8, <1>9
     DEF Next, BrokerReads, ClientReads

(* The client shows an approval exactly as long as it waits for the user:  *)
(* a client that missed nothing, holds the connection the broker serves    *)
(* and has read what is on its way, shows what is open and nothing that is *)
(* closed, for every capacity of the window and any number of approvals,   *)
(* lost connections and restarts of either side.                           *)
THEOREM ApprovalsFollow ==
  Spec => []ApprovalsShown
<1>1. Init => Blocks /\ Followed
  <2> SUFFICES ASSUME Init
               PROVE  Blocks /\ Followed
    OBVIOUS
  <2>1. /\ link = 0 /\ output = <<>> /\ input = <<>> /\ accepted = 0
        /\ replay.events = <<>> /\ model.pending = {} /\ model.last_sequence = 0
        /\ broker.generation = 0 /\ broker.output = FALSE
        /\ broker.phase = "AwaitInitialize"
        /\ \A a \in Approvals : approval[a] = "new"
    BY DEF Init, NewBroker, NewModel, EmptyBuffer
  <2>2. Len(input) = 0 /\ Len(output) = 0 /\ Len(replay.events) = 0
    BY <2>1, EmptyType
  <2>3. Blocks
    <3>1. 0..Len(input) = {0} /\ 1..Len(input) = {} /\ 0 = 0
      BY <2>2
    <3>2. Gen(Len(input)) = accepted /\ Shut(Len(input))
      BY <2>1, <2>2 DEF Gen, Shut
    <3> QED
      BY <2>1, <3>1, <3>2 DEF Blocks
  <2>4. UnderWay = {} /\ Retained = {} /\ ~Live
    BY <2>1, <2>2 DEF UnderWay, OnTheWay, Retained, Live
  <2> QED
    BY <2>1, <2>3, <2>4 DEF Followed, Tracked, Told
<1>2. TypeOK /\ StreamInv /\ Blocks /\ Followed /\ [Next]_vars
        => Blocks' /\ Followed'
  BY BlocksStep, ApprovalStep
<1>3. TypeOK /\ Followed => ApprovalsShown
  <2> SUFFICES ASSUME TypeOK, Followed, Live, whole, OnTheWay = {}
               PROVE  /\ \A a \in model.pending :
                           approval[a] \in {"open", "denying"}
                      /\ \A a \in Approvals :
                           approval[a] = "open" => a \in model.pending
    BY DEF ApprovalsShown
  <2>1. Tracked /\ UnderWay = {}
    BY DEF Followed, UnderWay
  <2>2. \A a \in model.pending :
          /\ a \in Approvals
          /\ approval[a] \in {"new", "open", "denying", "closed"}
    BY DEF TypeOK, BrokerTypeOK, ClientTypeOK
  <2> QED
    BY <2>1, <2>2 DEF Tracked, WillHide, WillShow
<1> QED
  BY <1>1, <1>2, <1>3, StreamInvariant, ReconnectTypeCorrect, PTL DEF Spec

=============================================================================
