------------------------- MODULE TranscriptCacheProofs -------------------------
(***************************************************************************)
(* For any agents, any number of changes, lost connections and broker      *)
(* processes: the editor's copies have no silent gap, one request per      *)
(* agent is in flight, and what is painted is the copy.  One request at a  *)
(* time is what keeps a late snapshot from replacing a newer copy.         *)
(***************************************************************************)
EXTENDS TranscriptCache, SequenceFacts

(* Patches and Leads of a stream q, whose broker is at revision s.         *)
PatchesIn(q, a) == {i \in DOMAIN q : q[i].kind = "patch" /\ q[i].agent = a}

LeadsIn(q, e, s, a, k, r) ==
  /\ r <= s
  /\ \A i \in PatchesIn(q, a) : k < i =>
       q[i].version[1] = e /\ q[i].version[2] \in r + 1 .. s
  /\ \A n \in r + 1 .. s : \E i \in PatchesIn(q, a) : k < i /\ q[i].version[2] = n
  /\ \A i, j \in PatchesIn(q, a) : k < i /\ i < j =>
       q[i].version[2] < q[j].version[2]

(* A client with more attempts behind it than it may make has given up.    *)
GaveUp ==
  client.attempt > MaxAttempts => client.state = "failed" /\ ~client.pipe

NothingReceived == messages = <<>> /\ \A a \in Agents : cache[a].status = "none"

(* Nothing is sent, streamed or kept but on a connection, and initialized  *)
(* comes first there.                                                      *)
LinkInv ==
  /\ client.state # "connected" => ~ready /\ requests = <<>> /\ NothingReceived
  /\ client.state = "connected" /\ ~ready =>
       requests # <<>> /\ requests[1].kind = "initialized" /\ NothingReceived
  /\ \A i \in DOMAIN requests : requests[i].kind = "initialized" => i = 1 /\ ~ready

(* The places of an agent's request.                                       *)
Waits(a)    == {i \in DOMAIN waiting : waiting[i] = a}
Sent(a)     == {i \in DOMAIN requests : requests[i] = Ask(a)}
Answered(a) == {i \in DOMAIN messages :
                  messages[i].kind = "snapshot" /\ messages[i].agent = a}

(* At most one of three sets has a member, and it has no second.           *)
OneAmong(w, s, m) ==
  /\ \A i, j \in w : i = j
  /\ \A i, j \in s : i = j
  /\ \A i, j \in m : i = j
  /\ w = {} \/ s = {}
  /\ w = {} \/ m = {}
  /\ s = {} \/ m = {}

OneInv ==
  \A a \in Agents :
    /\ OneAmong(Waits(a), Sent(a), Answered(a))
    /\ Waits(a) # {} \/ Sent(a) # {} \/ Answered(a) # {} =>
         a \in asked /\ cache[a].status # "cached"

(* What follows a copy, or a snapshot on its way, leads to the present.    *)
CopyLeads ==
  \A a \in Agents : cache[a].status = "cached" =>
    /\ cache[a].content = <<epoch, cache[a].revision>>
    /\ LeadsIn(messages, epoch, source[a], a, 0, cache[a].revision)

SnapshotLeads ==
  \A k \in DOMAIN messages : messages[k].kind = "snapshot" =>
    /\ messages[k].version[1] = epoch
    /\ LeadsIn(messages, epoch, source[messages[k].agent], messages[k].agent, k,
               messages[k].version[2])

GapInv == CopyLeads /\ SnapshotLeads

(* The patches queued for the view end at the copy's revision.             *)
PatchesFollow ==
  \A a \in Agents : cache[a].status = "cached" =>
    \A i \in DOMAIN cache[a].patches :
      cache[a].patches[i] =
        <<epoch, cache[a].revision - Len(cache[a].patches) + i>>

Linked == client.state \in {"negotiating", "connected"}

(* What is painted is a version, of this broker process while there is a   *)
(* connection; without one it is about to be painted over.                 *)
PaintInv ==
  /\ view.painted.body => \E e \in 1 .. MaxEpochs : view.shown = <<e, view.painted.revision>>
  /\ Linked /\ view.painted.body => view.shown = <<epoch, view.painted.revision>>
  /\ Linked \/ view.dirty \/ ~view.painted.body

IInv ==
  /\ TypeOK
  /\ GaveUp
  /\ LinkInv
  /\ OneInv
  /\ GapInv
  /\ PatchesFollow
  /\ PaintInv
  /\ ShownIsTheCopy

(***************************************************************************)
(* Streams                                                                 *)
(***************************************************************************)

(* The messages of a stream with one more, and with one less.              *)
LEMMA MoreMessages ==
  ASSUME NEW S, NEW q \in Seq(S), NEW m \in S
  PROVE  /\ Len(q) \in Nat /\ Append(q, m) \in Seq(S)
         /\ Len(q) + 1 \in DOMAIN Append(q, m) /\ Append(q, m)[Len(q) + 1] = m
         /\ \A i \in DOMAIN q : /\ i \in 1 .. Len(q) /\ i \in DOMAIN Append(q, m)
                                /\ Append(q, m)[i] = q[i] /\ q[i] \in S
         /\ \A i \in DOMAIN Append(q, m) : i \in DOMAIN q \/ i = Len(q) + 1
OBVIOUS

(* A connection whose first message is taken. *)
LEMMA FewerMessages ==
  ASSUME NEW S, NEW q \in Seq(S), q # <<>>
  PROVE  /\ Len(q) \in Nat /\ Tail(q) \in Seq(S) /\ Head(q) = q[1] /\ q[1] \in S
         /\ 1 \in DOMAIN q
         /\ \A i \in DOMAIN Tail(q) :
              i \in Nat \ {0} /\ i + 1 \in DOMAIN q /\ Tail(q)[i] = q[i + 1]
         /\ \A i \in DOMAIN q :
              /\ i \in Nat \ {0} /\ q[i] \in S
              /\ i = 1 \/ (i - 1 \in DOMAIN Tail(q) /\ Tail(q)[i - 1] = q[i])
OBVIOUS

(* A change is streamed behind the changes before it.                      *)
LEMMA LeadsToTheChange ==
  ASSUME NEW q \in Seq(Messages), NEW e, NEW s \in Nat, NEW a \in Agents,
         NEW k \in Nat, k <= Len(q), NEW r \in Nat,
         NEW m \in Messages, m.kind = "patch", m.agent = a, m.version = <<e, s + 1>>,
         LeadsIn(q, e, s, a, k, r)
  PROVE  LeadsIn(Append(q, m), e, s + 1, a, k, r)
<1> DEFINE t == Append(q, m)
<1>1. /\ Len(q) \in Nat /\ Len(q) + 1 \in DOMAIN t /\ t[Len(q) + 1] = m
      /\ \A i \in DOMAIN q : i \in 1 .. Len(q) /\ i \in DOMAIN t /\ t[i] = q[i]
      /\ \A i \in DOMAIN t : i \in DOMAIN q \/ i = Len(q) + 1
  BY MoreMessages
<1>2. /\ \A i \in PatchesIn(t, a) : i \in PatchesIn(q, a) \/ i = Len(q) + 1
      /\ \A i \in PatchesIn(q, a) : i \in PatchesIn(t, a) /\ t[i] = q[i] /\ i <= Len(q)
      /\ \A i \in PatchesIn(q, a) : i \in Nat
      /\ Len(q) + 1 \in PatchesIn(t, a)
  BY <1>1 DEF PatchesIn
<1>3. t[Len(q) + 1].version = <<e, s + 1>>
  BY <1>1
<1> HIDE DEF t
<1>4. \A i \in PatchesIn(q, a) : k < i =>
        t[i].version[1] = e /\ t[i].version[2] \in r + 1 .. s
  BY <1>2 DEF LeadsIn
<1>5. \A i \in PatchesIn(t, a) : k < i =>
        t[i].version[1] = e /\ t[i].version[2] \in r + 1 .. s + 1
  <2> SUFFICES ASSUME NEW i \in PatchesIn(t, a), k < i
               PROVE  t[i].version[1] = e /\ t[i].version[2] \in r + 1 .. s + 1
    OBVIOUS
  <2>1. CASE i = Len(q) + 1
    BY <1>3, <2>1 DEF LeadsIn
  <2>2. CASE i \in PatchesIn(q, a)
    BY <1>4, <2>2
  <2> QED
    BY <1>2, <2>1, <2>2
<1>6. \A n \in r + 1 .. s + 1 : \E i \in PatchesIn(t, a) : k < i /\ t[i].version[2] = n
  <2> SUFFICES ASSUME NEW n \in r + 1 .. s + 1
               PROVE  \E i \in PatchesIn(t, a) : k < i /\ t[i].version[2] = n
    OBVIOUS
  <2>1. CASE n = s + 1
    BY <1>1, <1>2, <1>3, <2>1
  <2>2. CASE n \in r + 1 .. s
    BY <1>2, <2>2 DEF LeadsIn
  <2> QED
    BY <2>1, <2>2
<1>7. \A i, j \in PatchesIn(t, a) : k < i /\ i < j => t[i].version[2] < t[j].version[2]
  <2> SUFFICES ASSUME NEW i \in PatchesIn(t, a), NEW j \in PatchesIn(t, a), k < i, i < j
               PROVE  t[i].version[2] < t[j].version[2]
    OBVIOUS
  <2>1. i \in PatchesIn(q, a)
    BY <1>1, <1>2
  <2>2. CASE j = Len(q) + 1
    BY <1>3, <1>4, <2>1, <2>2
  <2>3. CASE j \in PatchesIn(q, a)
    BY <1>2, <2>1, <2>3 DEF LeadsIn
  <2> QED
    BY <1>2, <2>2, <2>3
<1>8. r <= s + 1
  BY DEF LeadsIn
<1> QED
  BY <1>5, <1>6, <1>7, <1>8 DEF LeadsIn, t

(* Any other message leaves an agent's patches as they were.               *)
LEMMA LeadsOn ==
  ASSUME NEW q \in Seq(Messages), NEW e, NEW s, NEW a, NEW k, NEW r,
         NEW m \in Messages, m.kind # "patch" \/ m.agent # a,
         LeadsIn(q, e, s, a, k, r)
  PROVE  LeadsIn(Append(q, m), e, s, a, k, r)
<1>1. /\ Append(q, m)[Len(q) + 1] = m
      /\ \A i \in DOMAIN q : i \in DOMAIN Append(q, m) /\ Append(q, m)[i] = q[i]
      /\ \A i \in DOMAIN Append(q, m) : i \in DOMAIN q \/ i = Len(q) + 1
  BY MoreMessages
<1>2. /\ PatchesIn(Append(q, m), a) = PatchesIn(q, a)
      /\ \A i \in PatchesIn(q, a) : Append(q, m)[i] = q[i]
  BY <1>1 DEF PatchesIn
<1> QED
  BY <1>2 DEF LeadsIn

(* Nothing needs to follow what is current.                                *)
LEMMA LeadsNowhere ==
  ASSUME NEW q \in Seq(Messages), NEW e, NEW s \in Nat, NEW a, NEW k \in Nat, Len(q) <= k
  PROVE  LeadsIn(q, e, s, a, k, s)
<1>1. \A i \in PatchesIn(q, a) : ~(k < i)
  BY DEF PatchesIn
<1> QED
  BY <1>1 DEF LeadsIn

(* The first message is read.                                              *)
LEMMA LeadsFromTail ==
  ASSUME NEW q \in Seq(Messages), q # <<>>, NEW e, NEW s \in Nat, NEW a,
         NEW k \in Nat, k >= 1, NEW r \in Nat, LeadsIn(q, e, s, a, k, r)
  PROVE  LeadsIn(Tail(q), e, s, a, k - 1, r)
<1> DEFINE t == Tail(q)
<1>1. /\ \A i \in DOMAIN t : i \in Nat \ {0} /\ i + 1 \in DOMAIN q /\ t[i] = q[i + 1]
      /\ \A i \in DOMAIN q :
           i \in Nat \ {0} /\ (i = 1 \/ (i - 1 \in DOMAIN t /\ t[i - 1] = q[i]))
  BY FewerMessages
<1>2. \A i \in PatchesIn(t, a) :
        i \in Nat \ {0} /\ i + 1 \in PatchesIn(q, a) /\ t[i] = q[i + 1]
  BY <1>1 DEF PatchesIn
<1>3. \A i \in PatchesIn(q, a) : k < i =>
        i \in Nat \ {0, 1} /\ i - 1 \in PatchesIn(t, a) /\ t[i - 1] = q[i]
  BY <1>1 DEF PatchesIn
<1> HIDE DEF t
<1>4. \A i \in PatchesIn(t, a) : k - 1 < i =>
        t[i].version[1] = e /\ t[i].version[2] \in r + 1 .. s
  BY <1>2 DEF LeadsIn
<1>5. \A n \in r + 1 .. s : \E i \in PatchesIn(t, a) : k - 1 < i /\ t[i].version[2] = n
  <2> SUFFICES ASSUME NEW n \in r + 1 .. s
               PROVE  \E i \in PatchesIn(t, a) : k - 1 < i /\ t[i].version[2] = n
    OBVIOUS
  <2>1. PICK i \in PatchesIn(q, a) : k < i /\ q[i].version[2] = n
    BY DEF LeadsIn
  <2>2. i \in Nat /\ i - 1 \in PatchesIn(t, a) /\ t[i - 1].version[2] = n
    BY <1>3, <2>1
  <2> QED
    BY <2>1, <2>2
<1>6. \A i, j \in PatchesIn(t, a) : k - 1 < i /\ i < j => t[i].version[2] < t[j].version[2]
  BY <1>2 DEF LeadsIn
<1> QED
  BY <1>4, <1>5, <1>6 DEF LeadsIn, t

(* The first message was none of the patches.                              *)
LEMMA LeadsPast ==
  ASSUME NEW q \in Seq(Messages), q # <<>>, NEW e, NEW s \in Nat, NEW a, NEW r \in Nat,
         q[1].kind # "patch" \/ q[1].agent # a, LeadsIn(q, e, s, a, 0, r)
  PROVE  LeadsIn(q, e, s, a, 1, r)
<1>1. \A i \in PatchesIn(q, a) : i \in Nat /\ (0 < i => 1 < i) /\ (1 < i => 0 < i)
  BY DEF PatchesIn
<1> QED
  BY <1>1 DEF LeadsIn

(* The first message is the patch that comes next.                         *)
LEMMA LeadsByThePatch ==
  ASSUME NEW q \in Seq(Messages), q # <<>>, NEW e, NEW s \in Nat, NEW a, NEW r \in Nat,
         q[1].kind = "patch", q[1].agent = a, LeadsIn(q, e, s, a, 0, r)
  PROVE  /\ q[1].version = <<e, r + 1>>
         /\ LeadsIn(q, e, s, a, 1, r + 1)
<1>1. /\ 1 \in PatchesIn(q, a)
      /\ \A i \in PatchesIn(q, a) : i \in Nat /\ 0 < i /\ (i = 1 \/ 1 < i)
  BY FewerMessages DEF PatchesIn
<1>2. q[1].version[1] = e /\ q[1].version[2] \in r + 1 .. s
  BY <1>1 DEF LeadsIn
<1>3. PICK i \in PatchesIn(q, a) : q[i].version[2] = r + 1
  <2>1. r + 1 \in r + 1 .. s
    BY <1>2
  <2> QED
    BY <2>1 DEF LeadsIn
<1>4. q[1].version[2] = r + 1
  <2>1. CASE i = 1
    BY <1>3, <2>1
  <2>2. CASE 1 < i
    <3>1. q[1].version[2] < r + 1
      BY <1>1, <1>3, <2>2 DEF LeadsIn
    <3> QED
      BY <1>2, <3>1
  <2> QED
    BY <1>1, <2>1, <2>2
<1>5. q[1].version = <<e, r + 1>>
  <2>1. q[1].version \in Versions
    <3>1. q[1] \in Messages
      BY FewerMessages
    <3> QED
      BY <3>1 DEF Messages
  <2>2. PICK x \in 1 .. MaxEpochs, y \in Nat : q[1].version = <<x, y>>
    BY <2>1 DEF Versions
  <2>3. x = e /\ y = r + 1
    BY <1>2, <1>4, <2>2
  <2> QED
    BY <2>2, <2>3
<1>6. \A j \in PatchesIn(q, a) : 1 < j =>
        q[j].version[1] = e /\ q[j].version[2] \in r + 2 .. s
  <2> SUFFICES ASSUME NEW j \in PatchesIn(q, a), 1 < j
               PROVE  q[j].version[1] = e /\ q[j].version[2] \in r + 2 .. s
    OBVIOUS
  <2>1. q[j].version[1] = e /\ q[j].version[2] \in r + 1 .. s
    BY <1>1 DEF LeadsIn
  <2>2. r + 1 < q[j].version[2]
    BY <1>1, <1>4 DEF LeadsIn
  <2> QED
    BY <2>1, <2>2
<1>7. \A n \in r + 2 .. s : \E j \in PatchesIn(q, a) : 1 < j /\ q[j].version[2] = n
  <2> SUFFICES ASSUME NEW n \in r + 2 .. s
               PROVE  \E j \in PatchesIn(q, a) : 1 < j /\ q[j].version[2] = n
    OBVIOUS
  <2>1. n \in r + 1 .. s
    OBVIOUS
  <2>2. PICK j \in PatchesIn(q, a) : q[j].version[2] = n
    BY <2>1 DEF LeadsIn
  <2> QED
    BY <1>1, <1>4, <2>2
<1>8. \A i1, j \in PatchesIn(q, a) : 1 < i1 /\ i1 < j => q[i1].version[2] < q[j].version[2]
  BY <1>1 DEF LeadsIn
<1>9. r + 1 <= s /\ r + 1 + 1 = r + 2
  BY <1>2
<1> QED
  BY <1>5, <1>6, <1>7, <1>8, <1>9 DEF LeadsIn

(***************************************************************************)
(* The connection                                                          *)
(***************************************************************************)

(* A connection that is lost leaves no pipe and an attempt counted.        *)
LEMMA LostType ==
  ASSUME NEW c \in Clients, c.attempt <= MaxAttempts
  PROVE  /\ Lost(c) \in Clients /\ ~Lost(c).pipe
         /\ Lost(c).attempt > MaxAttempts => Lost(c).state = "failed"
         /\ Lost(c).state \in {"disconnected", "reconnecting", "failed"}
<1>1. MaxAttempts \in Nat
  BY ConnectionAssumption
<1>2. ASSUME NEW d \in Clients, d.attempt <= MaxAttempts + 1
      PROVE  /\ LostOnce(d) \in Clients /\ ~LostOnce(d).pipe
             /\ LostOnce(d).attempt \in {d.attempt, d.attempt + 1}
             /\ LostOnce(d).attempt > MaxAttempts /\ ~d.timer => LostOnce(d).state = "failed"
             /\ LostOnce(d).timer <=> d.timer \/ d.attempt < MaxAttempts
             /\ LostOnce(d).state \in {"disconnected", "reconnecting", "failed"}
             /\ LostOnce(d).attempt > d.attempt => ~d.timer
  <2> DEFINE e == [d EXCEPT !.pipe = FALSE, !.state = "disconnected"]
  <2>1. /\ e \in Clients /\ ~e.pipe /\ e.state = "disconnected"
        /\ e.timer = d.timer /\ e.attempt = d.attempt
    BY <1>2 DEF Clients, ClientStates
  <2>2. LostOnce(d) = Scheduled(e)
    BY DEF LostOnce
  <2> HIDE DEF e
  <2>3. CASE d.timer
    <3>1. Scheduled(e) = e
      BY <2>1, <2>3 DEF Scheduled
    <3>2. e.timer /\ e.attempt \in Nat
      BY <1>1, <2>1, <2>3 DEF Clients
    <3> QED
      BY <2>1, <2>2, <2>3, <3>1, <3>2
  <2>4. CASE ~d.timer
    <3>1. Scheduled(e) = [e EXCEPT !.attempt = e.attempt + 1,
                                   !.timer = e.attempt < MaxAttempts,
                                   !.state = IF e.attempt < MaxAttempts THEN "reconnecting" ELSE "failed"]
      BY <2>1, <2>4 DEF Scheduled
    <3>2. e.attempt + 1 \in 0 .. MaxAttempts + 2
      BY <1>1, <1>2, <2>1 DEF Clients
    <3> DEFINE left == e.attempt < MaxAttempts
               state == IF left THEN "reconnecting" ELSE "failed"
    <3>3. left \in BOOLEAN /\ state \in ClientStates
      BY DEF ClientStates
    <3>4. /\ Scheduled(e) \in Clients /\ ~Scheduled(e).pipe
          /\ Scheduled(e).attempt = e.attempt + 1
          /\ Scheduled(e).timer = left /\ Scheduled(e).state = state
      <4> HIDE DEF left, state
      <4>1. Scheduled(e) = [e EXCEPT !.attempt = e.attempt + 1, !.timer = left, !.state = state]
        BY <3>1 DEF left, state
      <4> QED
        BY <2>1, <3>2, <3>3, <4>1 DEF Clients
    <3>5. e.attempt \in Nat /\ d.timer = FALSE
      BY <1>1, <2>1, <2>4 DEF Clients
    <3>6. CASE left
      <4>1. Scheduled(e).timer = TRUE /\ Scheduled(e).state = "reconnecting"
        BY <3>4, <3>6
      <4>2. e.attempt + 1 <= MaxAttempts
        BY <1>1, <3>5, <3>6
      <4> QED
        BY <1>1, <2>1, <2>2, <3>4, <3>5, <3>6, <4>1, <4>2
    <3>7. CASE ~left
      <4>1. ~Scheduled(e).timer /\ Scheduled(e).state = "failed"
        BY <3>4, <3>7
      <4> QED
        BY <1>1, <2>1, <2>2, <3>4, <3>5, <3>7, <4>1
    <3> QED
      BY <3>6, <3>7
  <2> QED
    BY <2>3, <2>4
<1>3. CASE c.state # "negotiating"
  <2>1. Lost(c) = LostOnce(c)
    BY <1>3 DEF Lost
  <2>2. c.attempt <= MaxAttempts + 1 /\ c.attempt \in Nat
    BY <1>1 DEF Clients
  <2>3. Lost(c).attempt \in {c.attempt, c.attempt + 1} /\ (Lost(c).attempt > c.attempt => ~c.timer)
    BY <1>2, <2>1, <2>2
  <2>4. Lost(c).attempt > MaxAttempts => ~c.timer
    BY <1>1, <2>2, <2>3
  <2> QED
    BY <1>2, <2>1, <2>2, <2>4
<1>4. CASE c.state = "negotiating"
  <2> DEFINE d == LostOnce(c)
  <2>1. Lost(c) = LostOnce(d)
    BY <1>4 DEF Lost
  <2>2. c.attempt <= MaxAttempts + 1 /\ c.attempt \in Nat
    BY <1>1 DEF Clients
  <2>3. /\ d \in Clients /\ d.attempt \in {c.attempt, c.attempt + 1}
        /\ d.timer <=> c.timer \/ c.attempt < MaxAttempts
        /\ d.attempt > c.attempt => ~c.timer
    BY <1>2, <2>2
  <2> HIDE DEF d
  <2>4. d.attempt <= MaxAttempts + 1 /\ d.attempt \in Nat
    BY <1>1, <2>2, <2>3
  <2>5. d.timer => d.attempt <= MaxAttempts
    BY <1>1, <2>2, <2>3
  <2>6. LostOnce(d).attempt \in {d.attempt, d.attempt + 1}
        /\ (LostOnce(d).attempt > d.attempt => ~d.timer)
    BY <1>2, <2>3, <2>4
  <2>7. LostOnce(d).attempt > MaxAttempts => ~d.timer
    BY <1>1, <2>4, <2>5, <2>6
  <2> QED
    BY <1>2, <2>1, <2>3, <2>4, <2>7
<1> QED
  BY <1>3, <1>4

(* Only a start, a timer and a pipe that connects move a connection on.    *)
LEMMA MovesOn ==
  ASSUME NEW c \in Clients, c.attempt > MaxAttempts => c.state = "failed" /\ ~c.pipe
  PROVE  /\ Started(c) \in Clients /\ TimerFired(c) \in Clients
         /\ c.pipe => Negotiating(c) \in Clients /\ Negotiating(c).attempt <= MaxAttempts
         /\ Ready(c) \in Clients /\ Ready(c).attempt = 0 /\ Ready(c).state = "connected"
         /\ Negotiating(c).state = "negotiating"
         /\ \A d \in {Started(c), TimerFired(c)} :
              /\ d.attempt > MaxAttempts => d.state = "failed" /\ ~d.pipe
              /\ d = c \/ d.state = c.state
                   \/ (d.state \in {"connecting", "reconnecting"}
                         /\ c.state \notin {"connected", "negotiating"})
<1>1. MaxAttempts \in Nat /\ c.attempt \in Nat
  BY ConnectionAssumption DEF Clients
<1>2. Ready(c) \in Clients /\ Ready(c).attempt = 0 /\ Ready(c).state = "connected"
  <2>1. 0 \in 0 .. MaxAttempts + 2
    BY <1>1
  <2> QED
    BY <2>1 DEF Ready, Clients, ClientStates
<1>3. /\ Negotiating(c) \in Clients /\ Negotiating(c).attempt = c.attempt
      /\ Negotiating(c).state = "negotiating"
  BY DEF Negotiating, Clients, ClientStates
<1>4. /\ Started(c) \in Clients
      /\ Started(c) = c
           \/ (Started(c).state = "connecting" /\ Started(c).attempt = 0
                 /\ c.state \notin {"connected", "negotiating"})
  <2>1. CASE UnderWay(c) \/ c.state = "connected"
    BY <2>1 DEF Started
  <2>2. CASE ~(UnderWay(c) \/ c.state = "connected")
    <3>1. Started(c) = [[c EXCEPT !.attempt = 0] EXCEPT !.pipe = TRUE, !.state = "connecting"]
      BY <2>2 DEF Started, Opening
    <3>2. 0 \in 0 .. MaxAttempts + 2
      BY <1>1
    <3>3. /\ Started(c) \in Clients
          /\ Started(c).state = "connecting" /\ Started(c).attempt = 0
      BY <3>1, <3>2 DEF Clients, ClientStates
    <3> QED
      BY <2>2, <3>3 DEF UnderWay
  <2> QED
    BY <2>1, <2>2
<1>5. /\ TimerFired(c) \in Clients /\ TimerFired(c).attempt = c.attempt
      /\ TimerFired(c).state = c.state
      /\ c.state # "reconnecting" => TimerFired(c).pipe = c.pipe
  <2>1. CASE c.state = "reconnecting"
    <3>1. TimerFired(c) = [[c EXCEPT !.timer = FALSE] EXCEPT !.pipe = TRUE, !.state = "reconnecting"]
      BY <2>1 DEF TimerFired, Opening
    <3> QED
      BY <2>1, <3>1 DEF Clients, ClientStates
  <2>2. CASE c.state # "reconnecting"
    BY <2>2 DEF TimerFired, Clients
  <2> QED
    BY <2>1, <2>2
<1> QED
  BY <1>1, <1>2, <1>3, <1>4, <1>5

(***************************************************************************)
(* Types                                                                   *)
(***************************************************************************)

(* The copies begin, and begin again, with nothing.                        *)
LEMMA NoCopiesType ==
  /\ NoCopies \in [Agents -> Copies] /\ StaleCopy \in Copies
  /\ StaleCopy.status = "stale" /\ Len(StaleCopy.patches) <= MaxPatches
  /\ \A a \in Agents : NoCopies[a].status = "none" /\ Len(NoCopies[a].patches) <= MaxPatches
<1>1. <<>> \in Seq(Versions) /\ Len(<<>>) = 0 /\ 0 <= MaxPatches
  BY EmptyType, CacheAssumption
<1>2. NoCopy \in Copies /\ NoCopy.status = "none" /\ NoCopy.patches = <<>>
  BY <1>1 DEF NoCopy, Copies
<1>3. StaleCopy \in Copies /\ StaleCopy.status = "stale" /\ StaleCopy.patches = <<>>
  BY <1>2 DEF StaleCopy, Copies
<1> QED
  BY <1>1, <1>2, <1>3 DEF NoCopies

(* A lost connection takes everything with it that was on the way.         *)
LEMMA LossEffect ==
  ASSUME TypeOK, GaveUp, ConnectionLost \/ (BrokerRestarts /\ Linked)
  PROVE  /\ client.attempt <= MaxAttempts
         /\ client' = Lost(client) /\ client' \in Clients /\ ~client'.pipe
         /\ client'.attempt > MaxAttempts => client'.state = "failed"
         /\ client'.state \in {"disconnected", "reconnecting", "failed"}
         /\ FailRequests
         /\ ready' = FALSE /\ requests' = <<>> /\ messages' = <<>> /\ cache' = NoCopies
         /\ view' = [view EXCEPT !.dirty = TRUE]
<1>1. LoseConnection
  BY DEF ConnectionLost, BrokerRestarts, Linked
<1>2. client \in Clients /\ MaxAttempts \in Nat
  BY ConnectionAssumption DEF TypeOK
<1>3. client.attempt <= MaxAttempts
  <2>1. client.attempt \in Nat
    BY <1>2 DEF Clients
  <2>2. client.pipe \/ client.state # "failed"
    BY DEF ConnectionLost, Linked
  <2> QED
    BY <1>2, <2>1, <2>2 DEF GaveUp
<1> QED
  BY <1>1, <1>2, <1>3, LostType DEF LoseConnection, Scheduling

(* What the view keeps when it is only told to paint again.                *)
LEMMA ScheduledView ==
  ASSUME view \in Views, NEW d \in BOOLEAN
  PROVE  /\ [view EXCEPT !.dirty = d] \in Views
         /\ [view EXCEPT !.dirty = d].dirty = d
         /\ [view EXCEPT !.dirty = d].selected = view.selected
         /\ [view EXCEPT !.dirty = d].painted = view.painted
         /\ [view EXCEPT !.dirty = d].shown = view.shown
BY DEF Views

(* The broker's messages are of this process.                              *)
LEMMA BrokerType ==
  ASSUME TypeOK, (\E a \in Agents : Change(a)) \/ Answer
  PROVE  TypeOK'
<1> USE DEF TypeOK
<1>1. ASSUME NEW a \in Agents, Change(a)
      PROVE  TypeOK'
  <2>1. <<epoch, source[a] + 1>> \in Versions
    BY DEF Versions
  <2>2. Message("patch", a, <<epoch, source[a] + 1>>) \in Messages
    BY <2>1 DEF Message, Messages
  <2>3. Append(messages, Message("patch", a, <<epoch, source[a] + 1>>)) \in Seq(Messages)
    BY <2>2, AppendType
  <2>4. source' \in [Agents -> Nat] /\ messages' \in Seq(Messages)
    <3>1. /\ source' = [source EXCEPT ![a] = @ + 1]
          /\ messages' = IF ready
               THEN Append(messages, Message("patch", a, <<epoch, source[a] + 1>>))
               ELSE messages
      BY <1>1 DEF Change
    <3>2. source' \in [Agents -> Nat]
      BY <3>1
    <3>3. messages' \in Seq(Messages)
      BY <2>3, <3>1
    <3> QED
      BY <3>2, <3>3
  <2> QED
    BY <1>1, <2>4 DEF Change, editorVars
<1>2. CASE Answer
  <2>1. requests # <<>> /\ requests' = Tail(requests) /\ UNCHANGED <<epoch, source, editorVars, drops>>
    BY <1>2 DEF Answer
  <2>2. requests' \in Seq(Frames) /\ Head(requests) \in Frames
    BY <2>1, TailType
  <2>3. CASE Head(requests).kind = "initialized"
    BY <1>2, <2>1, <2>2, <2>3 DEF Answer, editorVars
  <2>4. CASE Head(requests).kind # "initialized"
    <3>1. PICK a \in Agents : Head(requests) = Ask(a)
      BY <2>2, <2>4 DEF Frames, Initialized
    <3>2. Head(requests).agent = a
      BY <3>1 DEF Ask
    <3>3. <<epoch, source[a]>> \in Versions
      BY DEF Versions
    <3>4. Message("snapshot", a, <<epoch, source[a]>>) \in Messages
      BY <3>3 DEF Message, Messages
    <3>5. /\ messages' = Append(messages, Message("snapshot", a, <<epoch, source[a]>>))
          /\ ready' = ready
      BY <1>2, <2>4, <3>2 DEF Answer
    <3>6. messages' \in Seq(Messages)
      BY <3>4, <3>5, AppendType
    <3> QED
      BY <2>1, <2>2, <3>5, <3>6 DEF editorVars
  <2> QED
    BY <2>3, <2>4
<1> QED
  BY <1>1, <1>2

(* What the client reads makes a copy.                                     *)
LEMMA ReceiveType ==
  ASSUME TypeOK, Receive
  PROVE  /\ TypeOK' /\ messages # <<>> /\ messages' = Tail(messages)
         /\ view'.dirty /\ view'.painted = view.painted /\ view'.shown = view.shown
         /\ view'.selected = view.selected
         /\ messages[1] \in Messages
         /\ messages[1].kind = "patch" => ApplyPatch(messages[1].agent, messages[1].version)
         /\ messages[1].kind = "snapshot" => SetTranscript(messages[1].agent, messages[1].version)
         /\ UNCHANGED <<epoch, source, ready, requests, client, waiting>>
<1> USE DEF TypeOK
<1> DEFINE m == messages[1]
<1>1. /\ messages # <<>> /\ messages' = Tail(messages)
      /\ view' = [view EXCEPT !.dirty = TRUE]
      /\ UNCHANGED <<epoch, source, ready, requests, client, waiting, drops>>
  BY DEF Receive, brokerVars
<1>2. /\ m \in Messages /\ messages' \in Seq(Messages) /\ Head(messages) = m
  BY <1>1, FewerMessages
<1>3. m.kind \in {"patch", "snapshot"} /\ m.agent \in Agents /\ m.version \in Versions
  BY <1>2 DEF Messages
<1>4. /\ m.kind = "patch" => ApplyPatch(m.agent, m.version)
      /\ m.kind = "snapshot" => SetTranscript(m.agent, m.version)
  BY <1>2 DEF Receive
<1>5. view' \in Views /\ view'.dirty /\ view'.painted = view.painted
      /\ view'.shown = view.shown /\ view'.selected = view.selected
  BY <1>1, ScheduledView
<1>6. m.version[2] \in Nat
  BY <1>3 DEF Versions
<1> HIDE DEF m
<1>7. CASE m.kind = "patch"
  <2> DEFINE old == cache[m.agent]
             new == [status |-> "cached", content |-> Applied(old.content, m.version),
                     revision |-> m.version[2], patches |-> Kept(old.patches, m.version)]
             copy == IF Continues(old, m.version) THEN new ELSE StaleCopy
  <2>1. cache' = [cache EXCEPT ![m.agent] = copy] /\ asked' = asked
    BY <1>4, <1>7 DEF ApplyPatch
  <2>2. old \in Copies
    BY <1>3
  <2>3. Applied(old.content, m.version) \in Versions \cup {Torn}
    BY <1>3 DEF Applied
  <2>4. Kept(old.patches, m.version) \in Seq(Versions)
        /\ Len(Kept(old.patches, m.version)) <= MaxPatches
    <3>1. old.patches \in Seq(Versions) /\ MaxPatches \in Nat /\ Len(old.patches) \in Nat
      BY <2>2, CacheAssumption DEF Copies
    <3>2. /\ Append(old.patches, m.version) \in Seq(Versions)
          /\ Len(Append(old.patches, m.version)) = Len(old.patches) + 1
          /\ <<>> \in Seq(Versions) /\ Len(<<>>) = 0
      BY <1>3, <3>1, AppendType, EmptyType
    <3>3. CASE Len(old.patches) < MaxPatches
      BY <3>1, <3>2, <3>3 DEF Kept
    <3>4. CASE ~(Len(old.patches) < MaxPatches)
      BY <3>1, <3>2, <3>4 DEF Kept
    <3> QED
      BY <3>3, <3>4
  <2>5. new \in Copies /\ Len(new.patches) <= MaxPatches
    BY <1>6, <2>3, <2>4 DEF Copies
  <2> HIDE DEF old, new
  <2>6. copy \in Copies /\ Len(copy.patches) <= MaxPatches
    BY <2>5, NoCopiesType
  <2> HIDE DEF copy
  <2>7. cache' \in [Agents -> Copies] /\ \A a \in Agents : Len(cache'[a].patches) <= MaxPatches
    BY <1>3, <2>1, <2>6
  <2>8. TypeOK'
    BY <1>1, <1>2, <1>5, <2>1, <2>7
  <2> QED
    BY <1>1, <1>2, <1>4, <1>5, <2>8 DEF m
<1>8. CASE m.kind = "snapshot"
  <2> DEFINE copy == [status |-> "cached", content |-> m.version, revision |-> m.version[2],
                      patches |-> <<>>]
  <2>1. cache' = [cache EXCEPT ![m.agent] = copy] /\ asked' = asked \ {m.agent}
    BY <1>4, <1>8 DEF SetTranscript
  <2>2. <<>> \in Seq(Versions) /\ Len(<<>>) = 0 /\ 0 <= MaxPatches
    BY EmptyType, CacheAssumption
  <2>3. copy \in Copies /\ Len(copy.patches) <= MaxPatches
    BY <1>3, <1>6, <2>2 DEF Copies
  <2> HIDE DEF copy
  <2>4. cache' \in [Agents -> Copies] /\ \A a \in Agents : Len(cache'[a].patches) <= MaxPatches
    BY <1>3, <2>1, <2>3
  <2>5. TypeOK'
    BY <1>1, <1>2, <1>5, <2>1, <2>4
  <2> QED
    BY <1>1, <1>2, <1>4, <1>5, <2>5 DEF m
<1> QED
  BY <1>3, <1>7, <1>8

(* The requests that go out with initialized.                              *)
LEMMA WaitingSent ==
  ASSUME NEW w \in Seq(Agents),
         NEW q, q = <<Initialized>> \o [i \in DOMAIN w |-> Ask(w[i])]
  PROVE  /\ q \in Seq(Frames) /\ q # <<>> /\ q[1] = Initialized
         /\ \A i \in DOMAIN w : i + 1 \in DOMAIN q /\ q[i + 1] = Ask(w[i])
         /\ \A i \in DOMAIN q : i = 1 \/ (i - 1 \in DOMAIN w /\ q[i] = Ask(w[i - 1]))
<1> DEFINE asks == [i \in DOMAIN w |-> Ask(w[i])]
<1>1. Len(w) \in Nat /\ DOMAIN w = 1 .. Len(w) /\ \A i \in DOMAIN w : w[i] \in Agents
  OBVIOUS
<1>2. asks = [i \in 1 .. Len(w) |-> Ask(w[i])]
  BY <1>1
<1>3. \A i \in 1 .. Len(w) : Ask(w[i]) \in Frames
  BY <1>1 DEF Frames
<1>4. asks \in Seq(Frames) /\ Len(asks) = Len(w)
  BY <1>1, <1>2, <1>3
<1>5. <<Initialized>> \in Seq(Frames) /\ Len(<<Initialized>>) = 1 /\ <<Initialized>>[1] = Initialized
  <2>1. Initialized \in Frames
    BY DEF Frames
  <2> QED
    BY <2>1
<1>6. \A i \in 1 .. Len(w) : asks[i] = Ask(w[i])
  BY <1>2
<1> HIDE DEF asks
<1>7. q = <<Initialized>> \o asks
  BY DEF asks
<1>8. /\ q \in Seq(Frames) /\ Len(q) = 1 + Len(w)
      /\ q[1] = Initialized
      /\ \A i \in 1 .. Len(w) : q[1 + i] = asks[i]
  BY <1>4, <1>5, <1>7, ConcatElements
<1>9. DOMAIN q = 1 .. 1 + Len(w) /\ q # <<>>
  BY <1>1, <1>8
<1> QED
  BY <1>1, <1>6, <1>8, <1>9

(* A lost connection keeps the types.                                      *)
LEMMA LossType ==
  ASSUME TypeOK, GaveUp, ConnectionLost \/ BrokerRestarts
  PROVE  TypeOK' /\ GaveUp'
<1> USE DEF TypeOK
<1>1. /\ epoch' \in 1 .. MaxEpochs /\ source' \in [Agents -> Nat] /\ drops' \in 0 .. MaxDrops
  BY CacheAssumption DEF ConnectionLost, BrokerRestarts
<1>2. CASE ConnectionLost \/ (BrokerRestarts /\ Linked)
  <2>1. /\ client' \in Clients /\ ~client'.pipe
        /\ client'.attempt > MaxAttempts => client'.state = "failed"
        /\ FailRequests
        /\ ready' = FALSE /\ requests' = <<>> /\ messages' = <<>> /\ cache' = NoCopies
        /\ view' = [view EXCEPT !.dirty = TRUE]
    BY <1>2, LossEffect
  <2>2. requests' \in Seq(Frames) /\ messages' \in Seq(Messages)
    BY <2>1, EmptyType
  <2>3. cache' \in [Agents -> Copies] /\ \A a \in Agents : Len(cache'[a].patches) <= MaxPatches
    BY <2>1, NoCopiesType
  <2>4. asked' \subseteq Agents /\ waiting' \in Seq(Agents)
    <3>1. <<>> \in Seq(Agents)
      BY EmptyType
    <3> QED
      BY <2>1, <3>1 DEF FailRequests
  <2>5. view' \in Views
    BY <2>1, ScheduledView
  <2> QED
    BY <1>1, <2>1, <2>2, <2>3, <2>4, <2>5 DEF GaveUp
<1>3. CASE BrokerRestarts /\ ~Linked
  <2>1. UNCHANGED <<ready, requests, messages, client, waiting, asked, cache, view>>
    BY <1>3 DEF BrokerRestarts, Linked, editorVars
  <2> QED
    BY <1>1, <2>1 DEF GaveUp
<1> QED
  BY <1>2, <1>3

(* What the steps of a connection do to it and to the view.                *)
LEMMA LinkEffect ==
  ASSUME TypeOK, GaveUp, Connects \/ Negotiated \/ TimerFires \/ Start
  PROVE  /\ UNCHANGED <<epoch, source, ready, messages, asked, cache, drops>>
         /\ client' \in Clients /\ GaveUp'
         /\ view' \in Views /\ view'.painted = view.painted /\ view'.shown = view.shown
         /\ view'.selected = view.selected
         /\ view.dirty \/ Connects \/ Negotiated => view'.dirty
         /\ Connects => /\ ~view.dirty /\ client'.state = "negotiating"
                        /\ client.state \notin {"connected", "negotiating"}
         /\ Negotiated => client.state = "negotiating" /\ client'.state = "connected"
         /\ ~Negotiated => UNCHANGED <<requests, waiting>>
         /\ TimerFires \/ Start =>
              \/ client'.state = client.state
              \/ /\ client'.state \in {"connecting", "reconnecting"}
                 /\ client.state \notin {"connected", "negotiating"}
<1> USE DEF TypeOK
<1>1. MaxAttempts \in Nat /\ client.attempt \in Nat
  BY ConnectionAssumption DEF Clients
<1>2. CASE Connects
  <2>1. /\ UNCHANGED <<epoch, source, ready, messages, asked, cache, drops, requests, waiting>>
        /\ client' = Negotiating(client) /\ client.pipe /\ ~view.dirty
        /\ client.state \in {"connecting", "reconnecting"}
        /\ view' = [view EXCEPT !.dirty = TRUE]
    BY <1>2 DEF Connects, Scheduling, brokerVars
  <2>2. /\ client' \in Clients /\ client'.attempt <= MaxAttempts
        /\ client'.state = "negotiating"
    BY <2>1, MovesOn DEF GaveUp
  <2>3. client'.attempt \in Nat
    BY <2>2 DEF Clients
  <2>4. GaveUp'
    BY <1>1, <2>2, <2>3 DEF GaveUp
  <2>5. ~Negotiated /\ ~TimerFires /\ ~Start
    <3>1. ~Negotiated
      BY <2>1 DEF Negotiated
    <3>2. ~Start
      BY <2>1, <2>2 DEF Start, Started, UnderWay
    <3>3. ~TimerFires
      BY <2>1, <2>2 DEF TimerFires, TimerFired, Opening, Clients
    <3> QED
      BY <3>1, <3>2, <3>3
  <2> QED
    BY <2>1, <2>2, <2>4, <2>5, ScheduledView
<1>3. CASE Negotiated
  <2>1. /\ UNCHANGED <<epoch, source, ready, messages, asked, cache, drops>>
        /\ client' = Ready(client) /\ client.state = "negotiating"
        /\ view' = [view EXCEPT !.dirty = TRUE]
    BY <1>3 DEF Negotiated, Scheduling, brokerVars
  <2>2. client' \in Clients /\ client'.attempt = 0 /\ client'.state = "connected"
    BY <2>1, MovesOn DEF GaveUp
  <2>3. GaveUp'
    BY <1>1, <2>2 DEF GaveUp
  <2>4. ~Connects /\ ~TimerFires /\ ~Start
    <3>1. ~Connects
      BY <2>1 DEF Connects
    <3>2. ~Start
      BY <2>1, <2>2 DEF Start, Started, UnderWay
    <3>3. ~TimerFires
      BY <2>1, <2>2 DEF TimerFires, TimerFired, Opening, Clients
    <3> QED
      BY <3>1, <3>2, <3>3
  <2> QED
    BY <1>3, <2>1, <2>2, <2>3, <2>4, ScheduledView
<1>4. CASE (TimerFires \/ Start) /\ ~Connects /\ ~Negotiated
  <2>1. /\ UNCHANGED <<epoch, source, ready, messages, asked, cache, drops, requests, waiting>>
        /\ client' \in {Started(client), TimerFired(client)}
    BY <1>4 DEF TimerFires, Start, brokerVars
  <2>2. PICK d \in BOOLEAN : view' = [view EXCEPT !.dirty = d] /\ (view.dirty => d)
    <3>1. CASE Start
      BY <3>1 DEF Start, Scheduling
    <3>2. CASE TimerFires
      <4>1. view' = [view EXCEPT !.dirty = view.dirty \/ client'.pipe]
        BY <3>2 DEF TimerFires
      <4>2. (view.dirty \/ client'.pipe) \in BOOLEAN
        OBVIOUS
      <4> QED
        BY <4>1, <4>2
    <3> QED
      BY <1>4, <3>1, <3>2
  <2>3. /\ client' \in Clients
        /\ client'.attempt > MaxAttempts => client'.state = "failed" /\ ~client'.pipe
        /\ \/ client'.state = client.state
           \/ /\ client'.state \in {"connecting", "reconnecting"}
              /\ client.state \notin {"connected", "negotiating"}
    BY <2>1, MovesOn DEF GaveUp
  <2>4. GaveUp'
    BY <2>3 DEF GaveUp
  <2> QED
    BY <1>4, <2>1, <2>2, <2>3, <2>4, ScheduledView
<1> QED
  BY <1>2, <1>3, <1>4

(* So the types are kept.                                                  *)
LEMMA LinkType ==
  ASSUME TypeOK, GaveUp, Connects \/ Negotiated \/ TimerFires \/ Start
  PROVE  TypeOK'
<1>1. CASE Negotiated
  <2>1. /\ requests' = <<Initialized>> \o [i \in DOMAIN waiting |-> Ask(waiting[i])]
        /\ waiting' = <<>>
    BY <1>1 DEF Negotiated
  <2>2. requests' \in Seq(Frames) /\ waiting' \in Seq(Agents)
    BY <2>1, WaitingSent, EmptyType DEF TypeOK
  <2> QED
    BY <2>2, LinkEffect DEF TypeOK
<1>2. CASE ~Negotiated
  BY <1>2, LinkEffect DEF TypeOK
<1> QED
  BY <1>1, <1>2

(***************************************************************************)
(* The view                                                                *)
(***************************************************************************)

(* What a render asks for.                                                 *)
LEMMA RenderRequests ==
  ASSUME TypeOK, GaveUp, Render
  PROVE  /\ client' \in Clients /\ GaveUp' /\ asked' \subseteq Agents
         /\ requests' \in Seq(Frames) /\ waiting' \in Seq(Agents)
         /\ cache[view.selected].status # "cached" => view.selected \in asked'
         /\ client' = client
              \/ (client'.state \in {"connecting", "reconnecting"}
                    /\ client.state \notin {"connected", "negotiating"})
         /\ \/ UNCHANGED <<asked, requests, client, waiting>>
            \/ /\ view.selected \notin asked /\ cache[view.selected].status # "cached"
               /\ asked' = asked \cup {view.selected}
               /\ \/ /\ client.state = "connected"
                     /\ requests' = Append(requests, Ask(view.selected))
                     /\ UNCHANGED <<client, waiting>>
                  \/ /\ client.state # "connected"
                     /\ waiting' = Append(waiting, view.selected)
                     /\ UNCHANGED requests
<1> USE DEF TypeOK
<1> DEFINE a == view.selected
<1>1. a \in Agents
  BY DEF Views
<1>2. /\ cache[a].status = "cached" => UNCHANGED <<asked, requests, client, waiting>>
      /\ cache[a].status # "cached" => RequestTranscript(a)
  BY DEF Render
<1> HIDE DEF a
<1>3. CASE UNCHANGED <<asked, requests, client, waiting>> /\ (cache[a].status = "cached" \/ a \in asked)
  BY <1>3 DEF GaveUp, a
<1>4. CASE cache[a].status # "cached" /\ a \notin asked
  <2>1. /\ asked' = asked \cup {a}
        /\ client.state = "connected" =>
             requests' = Append(requests, Ask(a)) /\ UNCHANGED <<client, waiting>>
        /\ client.state # "connected" =>
             waiting' = Append(waiting, a) /\ client' = Started(client) /\ UNCHANGED requests
    BY <1>2, <1>4 DEF RequestTranscript
  <2>2. Append(requests, Ask(a)) \in Seq(Frames) /\ Append(waiting, a) \in Seq(Agents)
    BY <1>1, AppendType DEF Frames
  <2>3. CASE client.state = "connected"
    BY <1>1, <1>4, <2>1, <2>2, <2>3 DEF GaveUp, a
  <2>4. CASE client.state # "connected"
    <3>1. /\ client' \in Clients
          /\ client'.attempt > MaxAttempts => client'.state = "failed" /\ ~client'.pipe
      BY <2>1, <2>4, MovesOn DEF GaveUp
    <3>2. client' = client
            \/ (client'.state \in {"connecting", "reconnecting"}
                  /\ client.state \notin {"connected", "negotiating"})
      <4>1. CASE UnderWay(client)
        BY <2>1, <2>4, <4>1 DEF Started
      <4>2. CASE ~UnderWay(client)
        <5>1. client' = [[client EXCEPT !.attempt = 0] EXCEPT !.pipe = TRUE, !.state = "connecting"]
          BY <2>1, <2>4, <4>2 DEF Started, Opening
        <5>2. client'.state = "connecting"
          BY <5>1 DEF Clients
        <5> QED
          BY <2>4, <4>2, <5>2 DEF UnderWay
      <4> QED
        BY <4>1, <4>2
    <3>3. GaveUp'
      BY <3>1 DEF GaveUp
    <3> QED
      BY <1>1, <1>4, <2>1, <2>2, <2>4, <3>1, <3>2, <3>3 DEF a
  <2> QED
    BY <2>3, <2>4
<1> QED
  <2>1. CASE cache[a].status # "cached" /\ a \in asked
    <3>1. UNCHANGED <<asked, requests, client, waiting>>
      BY <1>2, <2>1 DEF RequestTranscript
    <3> QED
      BY <1>3, <2>1, <3>1
  <2>2. CASE cache[a].status = "cached"
    BY <1>2, <1>3, <2>2
  <2> QED
    BY <1>4, <2>1, <2>2

(* A render takes the patches and leaves the copies.                       *)
LEMMA RenderCopies ==
  ASSUME TypeOK, Render
  PROVE  /\ UNCHANGED <<epoch, source, ready, messages, drops>>
         /\ cache' \in [Agents -> Copies]
         /\ \A b \in Agents :
              /\ cache'[b].status = cache[b].status
              /\ cache'[b].content = cache[b].content
              /\ cache'[b].revision = cache[b].revision
              /\ Len(cache'[b].patches) <= MaxPatches
              /\ cache'[b].patches = IF b = view.selected THEN <<>> ELSE cache[b].patches
<1> USE DEF TypeOK
<1> DEFINE a == view.selected
<1>1. a \in Agents /\ cache' = [cache EXCEPT ![a] = [cache[a] EXCEPT !.patches = <<>>]]
      /\ UNCHANGED <<epoch, source, ready, messages, drops>>
  BY DEF Render, brokerVars, Views
<1> HIDE DEF a
<1> DEFINE emptied == [cache[a] EXCEPT !.patches = <<>>]
<1>2. <<>> \in Seq(Versions) /\ Len(<<>>) = 0 /\ 0 <= MaxPatches
  BY EmptyType, CacheAssumption
<1>3. /\ emptied \in Copies /\ emptied.status = cache[a].status
      /\ emptied.content = cache[a].content /\ emptied.revision = cache[a].revision
      /\ emptied.patches = <<>>
  <2>1. cache[a] \in Copies
    BY <1>1
  <2> QED
    BY <1>2, <2>1 DEF Copies
<1> HIDE DEF emptied
<1>4. cache' = [cache EXCEPT ![a] = emptied]
  BY <1>1 DEF emptied
<1>5. \A b \in Agents : cache'[b] = IF b = a THEN emptied ELSE cache[b]
  BY <1>4
<1>6. cache' \in [Agents -> Copies]
  BY <1>1, <1>3, <1>4
<1>7. ASSUME NEW b \in Agents
      PROVE  /\ cache'[b].status = cache[b].status
             /\ cache'[b].content = cache[b].content
             /\ cache'[b].revision = cache[b].revision
             /\ Len(cache'[b].patches) <= MaxPatches
             /\ cache'[b].patches = IF b = a THEN <<>> ELSE cache[b].patches
  <2>1. CASE b = a
    BY <1>2, <1>3, <1>5, <2>1
  <2>2. CASE b # a
    BY <1>5, <2>2
  <2> QED
    BY <2>1, <2>2
<1> QED
  BY <1>1, <1>6, <1>7 DEF a

(* Patches that follow what is shown, painted over it.                     *)
LEMMA PaintedByPatches ==
  ASSUME NEW p \in Seq(Versions), p # <<>>, NEW e, NEW r \in Nat,
         \A i \in DOMAIN p : p[i] = <<e, r - Len(p) + i>>,
         NEW shown, shown = <<e, Head(p)[2] - 1>>
  PROVE  PaintedOver(shown, p) = <<e, r>>
<1> DEFINE before(i) == IF i = 1 THEN shown ELSE p[i - 1]
<1>1. Len(p) \in Nat \ {0} /\ DOMAIN p = 1 .. Len(p) /\ Head(p) = p[1] /\ Last(p) = p[Len(p)]
  BY DEF Last
<1>2. ASSUME NEW i \in DOMAIN p
      PROVE  Applied(before(i), p[i]) = p[i]
  <2>1. before(i) = <<e, r - Len(p) + i - 1>>
    <3>1. CASE i = 1
      BY <1>1, <3>1
    <3>2. CASE i # 1
      <4>1. i - 1 \in DOMAIN p /\ r - Len(p) + (i - 1) = r - Len(p) + i - 1
        BY <1>1, <3>2
      <4> QED
        BY <3>2, <4>1
    <3> QED
      BY <3>1, <3>2
  <2>2. p[i][1] = e /\ p[i][2] - 1 = r - Len(p) + i - 1
    BY <1>1
  <2> QED
    BY <2>1, <2>2 DEF Applied
<1>3. Last(p) = <<e, r>>
  <2>1. Len(p) \in DOMAIN p /\ r - Len(p) + Len(p) = r
    BY <1>1
  <2> QED
    BY <1>1, <2>1
<1> QED
  BY <1>2, <1>3 DEF PaintedOver

(* The three ways a render ends.                                           *)
LEMMA RenderView ==
  ASSUME TypeOK, GaveUp, Render, NEW copy, copy = cache[view.selected]
  PROVE  /\ view' \in Views /\ view'.selected = view.selected
         /\ \/ /\ copy.status = "stale" /\ view'.painted = view.painted
               /\ view'.shown = view.shown /\ view'.dirty = (client' # client)
            \/ /\ view.painted.body /\ Usable(copy) /\ Continuous(view.painted, copy)
               /\ view'.painted.body /\ view'.painted.revision = copy.revision
               /\ view'.shown = PaintedOver(view.shown, copy.patches)
               /\ ~view'.dirty
            \/ /\ view'.painted.body = Usable(copy)
               /\ view'.painted.revision = copy.revision
               /\ view'.shown = IF Usable(copy) THEN copy.content ELSE Placeholder
               /\ view'.dirty = (client' # client)
<1> USE DEF TypeOK
<1> DEFINE a == view.selected
           moved == client' # client
<1>1. a \in Agents /\ view \in Views /\ copy \in Copies /\ moved \in BOOLEAN
  BY DEF Views
<1>2. Paint(a, copy)
  BY DEF Render
<1>3. Usable(copy) \in BOOLEAN /\ copy.revision \in Nat /\ copy.patches \in Seq(Versions)
      /\ copy.content \in Versions \cup {Torn}
  BY <1>1 DEF Usable, Copies
<1>4. PaintedOver(view.shown, copy.patches) \in Versions \cup {Torn, Placeholder}
  <2>1. CASE copy.patches = <<>>
    BY <1>1, <2>1 DEF PaintedOver, Views
  <2>2. CASE copy.patches # <<>>
    <3>1. Last(copy.patches) \in Versions
      BY <1>3, <2>2 DEF Last
    <3> QED
      BY <2>2, <3>1 DEF PaintedOver
  <2> QED
    BY <2>1, <2>2
<1> HIDE DEF a, moved
<1>5. CASE copy.status = "stale" /\ view.painted.agent = a
  <2>1. view' = [view EXCEPT !.dirty = moved]
    BY <1>2, <1>5 DEF Paint, moved
  <2> QED
    BY <1>1, <1>5, <2>1, ScheduledView DEF moved
<1>6. CASE /\ ~(copy.status = "stale" /\ view.painted.agent = a)
           /\ view.painted.agent = a /\ view.painted.body /\ Usable(copy)
           /\ Continuous(view.painted, copy)
  <2> DEFINE over == PaintedOver(view.shown, copy.patches)
  <2>1. view' = [view EXCEPT !.painted.revision = copy.revision, !.shown = over, !.dirty = FALSE]
    BY <1>2, <1>6 DEF Paint
  <2> HIDE DEF over
  <2>2. over \in Versions \cup {Torn, Placeholder}
    BY <1>4 DEF over
  <2>3. /\ view' \in Views /\ view'.selected = view.selected
        /\ view'.painted.body = view.painted.body
        /\ view'.painted.revision = copy.revision
        /\ view'.shown = over /\ ~view'.dirty
    BY <1>1, <1>3, <2>1, <2>2 DEF Views
  <2> QED
    BY <1>6, <2>3 DEF over
<1>7. CASE /\ ~(copy.status = "stale" /\ view.painted.agent = a)
           /\ ~(/\ view.painted.agent = a /\ view.painted.body /\ Usable(copy)
                /\ Continuous(view.painted, copy))
  <2> DEFINE lines == IF Usable(copy) THEN copy.content ELSE Placeholder
             painted == [agent |-> a, revision |-> copy.revision, body |-> Usable(copy)]
  <2>1. view' = [view EXCEPT !.painted = painted, !.shown = lines, !.dirty = moved]
    BY <1>2, <1>7 DEF Paint, moved
  <2>2. lines \in Versions \cup {Torn, Placeholder}
    BY <1>3
  <2>3. /\ painted \in [agent : Agents \cup {"none"}, revision : Nat, body : BOOLEAN]
        /\ painted.revision = copy.revision /\ painted.body = Usable(copy)
    BY <1>1, <1>3
  <2> HIDE DEF lines, painted
  <2>4. /\ view' \in Views /\ view'.selected = view.selected
        /\ view'.painted = painted /\ view'.shown = lines /\ view'.dirty = moved
    BY <1>1, <2>1, <2>2, <2>3 DEF Views
  <2> QED
    BY <2>3, <2>4 DEF lines, moved
<1> QED
  BY <1>5, <1>6, <1>7

(* So the types are kept, also when another agent is selected.             *)
LEMMA ViewType ==
  ASSUME TypeOK, GaveUp, Render \/ (\E a \in Agents : Select(a))
  PROVE  TypeOK' /\ GaveUp'
<1>1. CASE Render
  <2>1. view' \in Views
    BY <1>1, RenderView
  <2> QED
    BY <1>1, <2>1, RenderRequests, RenderCopies DEF TypeOK
<1>2. ASSUME NEW a \in Agents, Select(a)
      PROVE  TypeOK' /\ GaveUp'
  <2>1. /\ UNCHANGED <<epoch, source, ready, requests, messages, client, waiting, asked, cache, drops>>
        /\ view' = [view EXCEPT !.selected = a, !.dirty = TRUE]
    BY <1>2 DEF Select, brokerVars
  <2>2. view' \in Views
    BY <2>1 DEF TypeOK, Views
  <2> QED
    BY <2>1, <2>2 DEF TypeOK, GaveUp
<1> QED
  BY <1>1, <1>2

(* Every step keeps the types.                                             *)
LEMMA TypeStep ==
  ASSUME TypeOK, GaveUp, [Next]_vars
  PROVE  TypeOK' /\ GaveUp'
<1>1. CASE Receive
  BY <1>1, ReceiveType DEF GaveUp
<1>2. CASE (\E a \in Agents : Change(a)) \/ Answer
  <2>1. client' = client
    BY <1>2 DEF Change, Answer, editorVars
  <2> QED
    BY <1>2, <2>1, BrokerType DEF GaveUp
<1>3. CASE Connects \/ Negotiated \/ TimerFires \/ Start
  BY <1>3, LinkEffect, LinkType
<1>4. CASE UNCHANGED vars
  BY <1>4 DEF vars, TypeOK, GaveUp
<1> QED
  BY <1>1, <1>2, <1>3, <1>4, LossType, ViewType DEF Next

(***************************************************************************)
(* The connection comes first                                              *)
(***************************************************************************)

(* Initialized is the first frame of a connection, and what goes on one    *)
(* goes with it.                                                           *)
LEMMA LinkStep ==
  ASSUME TypeOK, GaveUp, LinkInv, Next
  PROVE  LinkInv'
<1> USE DEF TypeOK
<1>1. ASSUME NEW a \in Agents, Change(a)
      PROVE  LinkInv'
  <2>1. UNCHANGED <<ready, requests, client, cache>> /\ (~ready => messages' = messages)
    BY <1>1 DEF Change, editorVars
  <2> QED
    BY <2>1 DEF LinkInv, NothingReceived
<1>2. CASE Answer
  <2>1. /\ requests # <<>> /\ requests' = Tail(requests) /\ Head(requests) = requests[1]
        /\ UNCHANGED <<client, cache>>
        /\ \A i \in DOMAIN requests' :
             i \in Nat \ {0} /\ i + 1 \in DOMAIN requests /\ requests'[i] = requests[i + 1]
        /\ 1 \in DOMAIN requests
    BY <1>2, FewerMessages DEF Answer, editorVars
  <2>2. client.state = "connected"
    BY <2>1 DEF LinkInv
  <2>3. \A i \in DOMAIN requests' : requests'[i].kind # "initialized"
    BY <2>1 DEF LinkInv
  <2>4. ready'
    <3>1. CASE requests[1].kind = "initialized"
      BY <1>2, <2>1, <3>1 DEF Answer
    <3>2. CASE requests[1].kind # "initialized"
      BY <1>2, <2>1, <2>2, <3>2 DEF Answer, LinkInv
    <3> QED
      BY <3>1, <3>2
  <2> QED
    BY <2>1, <2>2, <2>3, <2>4 DEF LinkInv
<1>3. CASE Receive
  <2>1. messages # <<>> /\ UNCHANGED <<ready, requests, client>>
    BY <1>3, ReceiveType
  <2>2. client.state = "connected" /\ ready
    BY <2>1 DEF LinkInv, NothingReceived
  <2> QED
    BY <2>1, <2>2 DEF LinkInv
<1>4. CASE ConnectionLost \/ (BrokerRestarts /\ Linked)
  <2>1. /\ client'.state # "connected"
        /\ ready' = FALSE /\ requests' = <<>> /\ messages' = <<>> /\ cache' = NoCopies
    BY <1>4, LossEffect
  <2> QED
    BY <2>1, NoCopiesType DEF LinkInv, NothingReceived
<1>5. CASE BrokerRestarts /\ ~Linked
  BY <1>5 DEF BrokerRestarts, Linked, editorVars, LinkInv, NothingReceived
<1>6. CASE Negotiated
  <2>1. /\ client.state = "negotiating" /\ client'.state = "connected"
        /\ UNCHANGED <<ready, messages, cache>>
    BY <1>6, LinkEffect
  <2>2. /\ requests' # <<>> /\ requests'[1] = Initialized
        /\ \A i \in DOMAIN requests' :
             i = 1 \/ (i - 1 \in DOMAIN waiting /\ requests'[i] = Ask(waiting[i - 1]))
    BY <1>6, WaitingSent DEF Negotiated
  <2>3. ~ready /\ NothingReceived
    BY <2>1 DEF LinkInv
  <2>4. \A i \in DOMAIN requests' : requests'[i].kind = "initialized" => i = 1
    BY <2>2 DEF Ask
  <2> QED
    BY <2>1, <2>2, <2>3, <2>4 DEF LinkInv, NothingReceived, Initialized
<1>7. CASE (Connects \/ TimerFires \/ Start) /\ ~Negotiated
  <2>1. /\ UNCHANGED <<ready, messages, cache, requests>>
        /\ client'.state # client.state =>
             client'.state # "connected" /\ client.state # "connected"
    BY <1>7, LinkEffect
  <2> QED
    BY <2>1 DEF LinkInv, NothingReceived
<1>8. CASE Render
  <2>1. /\ UNCHANGED <<ready, messages>>
        /\ \A b \in Agents : cache'[b].status = cache[b].status
    BY <1>8, RenderCopies
  <2>2. /\ client' = client \/ (client'.state # "connected" /\ client.state # "connected")
        /\ requests' = requests
             \/ (client.state = "connected" /\ client' = client
                   /\ requests' = Append(requests, Ask(view.selected)))
    BY <1>8, RenderRequests
  <2>3. CASE requests' = requests
    BY <2>1, <2>2, <2>3 DEF LinkInv, NothingReceived
  <2>4. CASE client.state = "connected" /\ client' = client
               /\ requests' = Append(requests, Ask(view.selected))
    <3>1. Ask(view.selected) \in Frames
      BY DEF Frames, Views
    <3>2. /\ \A i \in DOMAIN requests : i \in 1 .. Len(requests) /\ requests'[i] = requests[i]
          /\ \A i \in DOMAIN requests' :
               i \in DOMAIN requests \/ requests'[i] = Ask(view.selected)
          /\ requests # <<>> => requests' # <<>> /\ requests'[1] = requests[1]
      BY <2>4, <3>1, MoreMessages
    <3>3. Ask(view.selected).kind # "initialized"
      BY DEF Ask
    <3>4. \A i \in DOMAIN requests' : requests'[i].kind = "initialized" => i = 1 /\ ~ready
      BY <3>2, <3>3 DEF LinkInv
    <3> QED
      BY <2>1, <2>4, <3>2, <3>4 DEF LinkInv, NothingReceived
  <2> QED
    BY <2>2, <2>3, <2>4
<1>9. ASSUME NEW a \in Agents, Select(a)
      PROVE  LinkInv'
  BY <1>9 DEF Select, brokerVars, LinkInv, NothingReceived
<1> QED
  BY <1>1, <1>2, <1>3, <1>4, <1>5, <1>6, <1>7, <1>8, <1>9 DEF Next

(***************************************************************************)
(* One request                                                             *)
(***************************************************************************)

(* An answer takes a request's place; what is behind it moves up.          *)
LEMMA OneAnswer ==
  ASSUME TypeOK, LinkInv, OneInv, Answer
  PROVE  OneInv'
<1> USE DEF TypeOK
<1>1. /\ requests # <<>> /\ requests' = Tail(requests) /\ Head(requests) = requests[1]
      /\ UNCHANGED <<waiting, asked, cache>> /\ Head(requests) \in Frames
      /\ 1 \in DOMAIN requests
      /\ \A i \in DOMAIN requests' :
           i \in Nat \ {0} /\ i + 1 \in DOMAIN requests /\ requests'[i] = requests[i + 1]
  BY FewerMessages DEF Answer, editorVars
<1>2. ASSUME NEW a \in Agents
      PROVE  /\ Waits(a)' = Waits(a) /\ (Sent(a)' # {} => Sent(a) # {})
             /\ \A i, j \in Sent(a)' : i = j
  <2>1. \A i \in Sent(a)' : i \in Nat \ {0} /\ i + 1 \in Sent(a)
    BY <1>1 DEF Sent
  <2>2. \A i, j \in Sent(a) : i = j
    BY DEF OneInv, OneAmong
  <2> QED
    BY <1>1, <2>1, <2>2 DEF Waits
<1>3. CASE Head(requests).kind = "initialized"
  <2>1. messages' = messages
    BY <1>3 DEF Answer
  <2>2. ASSUME NEW a \in Agents
        PROVE  /\ OneAmong(Waits(a)', Sent(a)', Answered(a)')
               /\ Waits(a)' # {} \/ Sent(a)' # {} \/ Answered(a)' # {} =>
                    a \in asked' /\ cache'[a].status # "cached"
    <3>1. Waits(a)' = Waits(a) /\ Answered(a)' = Answered(a)
      BY <1>2, <2>1 DEF Answered
    <3>2. /\ OneAmong(Waits(a), Sent(a), Answered(a))
          /\ Waits(a) # {} \/ Sent(a) # {} \/ Answered(a) # {} =>
               a \in asked /\ cache[a].status # "cached"
      BY DEF OneInv
    <3>3. OneAmong(Waits(a)', Sent(a)', Answered(a)')
      <4>1. /\ \A i, j \in Waits(a) : i = j
            /\ \A i, j \in Answered(a) : i = j
        BY <3>2 DEF OneAmong
      <4> QED
        BY <1>2, <3>1, <3>2, <4>1 DEF OneAmong
    <3> QED
      BY <1>1, <1>2, <3>1, <3>2, <3>3
  <2> QED
    BY <2>2 DEF OneInv
<1>4. CASE Head(requests).kind # "initialized"
  <2>1. PICK b \in Agents : Head(requests) = Ask(b)
    BY <1>1, <1>4 DEF Frames, Initialized
  <2> DEFINE m == Message("snapshot", b, <<epoch, source[b]>>)
  <2>2. m \in Messages /\ m.kind = "snapshot" /\ m.agent = b
    BY DEF Message, Messages, Versions
  <2>3. messages' = Append(messages, m)
    <3>1. Head(requests).agent = b
      BY <2>1 DEF Ask
    <3> QED
      BY <1>4, <3>1 DEF Answer
  <2> HIDE DEF m
  <2>4. /\ \A i \in DOMAIN messages : i \in DOMAIN messages' /\ messages'[i] = messages[i]
        /\ \A i \in DOMAIN messages' : i \in DOMAIN messages \/ i = Len(messages) + 1
        /\ Len(messages) + 1 \in DOMAIN messages' /\ messages'[Len(messages) + 1] = m
    BY <2>2, <2>3, MoreMessages
  <2>5. 1 \in Sent(b)
    BY <1>1, <2>1 DEF Sent
  <2>6. ASSUME NEW a \in Agents
        PROVE  /\ a # b => Answered(a)' = Answered(a)
               /\ a = b => Answered(a)' = {Len(messages) + 1} /\ Sent(a)' = {} /\ Waits(a) = {}
                             /\ a \in asked /\ cache[a].status # "cached"
    <3>1. CASE a # b
      BY <2>2, <2>4, <3>1 DEF Answered
    <3>2. CASE a = b
      <4>1. Answered(a) = {} /\ Waits(a) = {} /\ a \in asked /\ cache[a].status # "cached"
            /\ \A i, j \in Sent(a) : i = j
        BY <2>5, <3>2 DEF OneInv, OneAmong
      <4>2. \A i \in Sent(a)' : i \in Nat \ {0} /\ i + 1 \in Sent(a)
        BY <1>1 DEF Sent
      <4>3. Sent(a)' = {}
        <5>1. \A i \in Sent(a)' : i + 1 = 1
          BY <2>5, <3>2, <4>1, <4>2
        <5> QED
          BY <4>2, <5>1
      <4>4. Answered(a)' = {Len(messages) + 1}
        BY <2>2, <2>4, <3>2, <4>1 DEF Answered
      <4> QED
        BY <3>2, <4>1, <4>3, <4>4
    <3> QED
      BY <3>1, <3>2
  <2>7. ASSUME NEW a \in Agents
        PROVE  /\ OneAmong(Waits(a)', Sent(a)', Answered(a)')
               /\ Waits(a)' # {} \/ Sent(a)' # {} \/ Answered(a)' # {} =>
                    a \in asked' /\ cache'[a].status # "cached"
    <3>1. CASE a = b
      <4>1. Waits(a)' = {} /\ Sent(a)' = {} /\ Answered(a)' = {Len(messages) + 1}
        BY <1>2, <2>6, <3>1
      <4>2. OneAmong({}, {}, {Len(messages) + 1})
        BY DEF OneAmong
      <4> QED
        BY <1>1, <2>6, <3>1, <4>1, <4>2
    <3>2. CASE a # b
      <4>1. Waits(a)' = Waits(a) /\ Answered(a)' = Answered(a)
        BY <1>2, <2>6, <3>2
      <4>2. /\ OneAmong(Waits(a), Sent(a), Answered(a))
            /\ Waits(a) # {} \/ Sent(a) # {} \/ Answered(a) # {} =>
                 a \in asked /\ cache[a].status # "cached"
        BY DEF OneInv
      <4>3. /\ \A i, j \in Waits(a) : i = j
            /\ \A i, j \in Answered(a) : i = j
        BY <4>2 DEF OneAmong
      <4>4. OneAmong(Waits(a)', Sent(a)', Answered(a)')
        BY <1>2, <4>1, <4>2, <4>3 DEF OneAmong
      <4> QED
        BY <1>1, <1>2, <4>1, <4>2, <4>4
    <3> QED
      BY <3>1, <3>2
  <2> QED
    BY <2>7 DEF OneInv
<1> QED
  BY <1>3, <1>4

(* A snapshot that is read leaves nothing under way for its agent.         *)
LEMMA OneReceive ==
  ASSUME TypeOK, OneInv, Receive
  PROVE  OneInv'
<1> USE DEF TypeOK
<1> DEFINE m == messages[1]
<1>1. /\ messages # <<>> /\ messages' = Tail(messages) /\ 1 \in DOMAIN messages
      /\ UNCHANGED <<waiting, requests>> /\ m \in Messages
      /\ m.kind = "patch" => ApplyPatch(m.agent, m.version)
      /\ m.kind = "snapshot" => SetTranscript(m.agent, m.version)
      /\ \A i \in DOMAIN messages' :
           i \in Nat \ {0} /\ i + 1 \in DOMAIN messages /\ messages'[i] = messages[i + 1]
  BY ReceiveType, FewerMessages
<1>2. ASSUME NEW a \in Agents
      PROVE  /\ Waits(a)' = Waits(a) /\ Sent(a)' = Sent(a)
             /\ \A i \in Answered(a)' : i \in Nat \ {0} /\ i + 1 \in Answered(a)
  BY <1>1 DEF Waits, Sent, Answered
<1>3. ASSUME NEW a \in Agents
      PROVE  /\ \A i, j \in Answered(a)' : i = j
             /\ Answered(a)' # {} => Answered(a) # {}
             /\ m.kind = "snapshot" /\ m.agent = a =>
                  Answered(a)' = {} /\ Waits(a) = {} /\ Sent(a) = {}
  <2>1. \A i, j \in Answered(a) : i = j
    BY DEF OneInv, OneAmong
  <2>2. CASE m.kind = "snapshot" /\ m.agent = a
    <3>1. 1 \in Answered(a)
      BY <1>1, <2>2 DEF Answered
    <3>2. \A i \in Answered(a)' : i + 1 = 1
      BY <1>2, <2>1, <3>1
    <3>3. Answered(a)' = {}
      BY <1>2, <3>2
    <3> QED
      BY <3>1, <3>3 DEF OneInv, OneAmong
  <2>3. CASE ~(m.kind = "snapshot" /\ m.agent = a)
    BY <1>2, <2>1, <2>3
  <2> QED
    BY <2>2, <2>3
<1>4. m.agent \in Agents /\ m.kind \in {"patch", "snapshot"}
  BY <1>1 DEF Messages
<1> HIDE DEF m
<1>5. ASSUME NEW a \in Agents, a \in asked, cache[a].status # "cached",
             ~(m.kind = "snapshot" /\ m.agent = a)
      PROVE  a \in asked' /\ cache'[a].status # "cached"
  <2>1. CASE m.kind = "patch"
    <3>1. asked' = asked /\ (m.agent # a => cache'[a] = cache[a])
          /\ (m.agent = a => cache'[a] = StaleCopy)
      BY <1>1, <1>4, <1>5, <2>1 DEF ApplyPatch, Continues
    <3> QED
      BY <1>5, <3>1, NoCopiesType
  <2>2. CASE m.kind = "snapshot"
    BY <1>1, <1>4, <1>5, <2>2 DEF SetTranscript
  <2> QED
    BY <1>4, <2>1, <2>2
<1>6. ASSUME NEW a \in Agents
      PROVE  /\ OneAmong(Waits(a)', Sent(a)', Answered(a)')
             /\ Waits(a)' # {} \/ Sent(a)' # {} \/ Answered(a)' # {} =>
                  a \in asked' /\ cache'[a].status # "cached"
  <2>1. Waits(a)' = Waits(a) /\ Sent(a)' = Sent(a)
    BY <1>2
  <2>2. /\ OneAmong(Waits(a), Sent(a), Answered(a))
        /\ Waits(a) # {} \/ Sent(a) # {} \/ Answered(a) # {} =>
             a \in asked /\ cache[a].status # "cached"
    BY DEF OneInv
  <2>3. OneAmong(Waits(a)', Sent(a)', Answered(a)')
    <3>1. /\ \A i, j \in Waits(a) : i = j
          /\ \A i, j \in Sent(a) : i = j
      BY <2>2 DEF OneAmong
    <3> QED
      BY <1>3, <2>1, <2>2, <3>1 DEF OneAmong
  <2>4. CASE m.kind = "snapshot" /\ m.agent = a
    BY <1>3, <2>1, <2>3, <2>4
  <2>5. CASE ~(m.kind = "snapshot" /\ m.agent = a)
    BY <1>3, <1>5, <2>1, <2>2, <2>3, <2>5
  <2> QED
    BY <2>4, <2>5
<1> QED
  BY <1>6 DEF OneInv

(* Initialized takes what waited with it.                                  *)
LEMMA OneNegotiated ==
  ASSUME TypeOK, GaveUp, LinkInv, OneInv, Negotiated
  PROVE  OneInv'
<1>1. /\ requests = <<>> /\ messages = <<>> /\ UNCHANGED <<messages, asked, cache>>
      /\ waiting' = <<>>
      /\ \A i \in DOMAIN requests' :
           i = 1 \/ (i - 1 \in DOMAIN waiting /\ requests'[i] = Ask(waiting[i - 1]))
      /\ requests'[1] = Initialized /\ requests' \in Seq(Frames)
  <2>1. client.state = "negotiating" /\ UNCHANGED <<messages, asked, cache>>
    BY LinkEffect
  <2>2. /\ requests' = <<Initialized>> \o [i \in DOMAIN waiting |-> Ask(waiting[i])]
        /\ waiting' = <<>>
    BY DEF Negotiated
  <2>3. /\ requests' \in Seq(Frames) /\ requests'[1] = Initialized
        /\ \A i \in DOMAIN requests' :
             i = 1 \/ (i - 1 \in DOMAIN waiting /\ requests'[i] = Ask(waiting[i - 1]))
    <3>1. waiting \in Seq(Agents)
      BY DEF TypeOK
    <3> QED
      BY <2>2, <3>1, WaitingSent
  <2>4. requests = <<>> /\ messages = <<>>
    BY <2>1 DEF LinkInv, NothingReceived
  <2> QED
    BY <2>1, <2>2, <2>3, <2>4
<1>2. ASSUME NEW a \in Agents
      PROVE  /\ Waits(a)' = {} /\ Answered(a)' = {}
             /\ \A i \in Sent(a)' : i \in Nat \ {0, 1} /\ i - 1 \in Waits(a)
  <2>1. Waits(a)' = {}
    BY <1>1 DEF Waits
  <2>2. Answered(a)' = {}
    BY <1>1 DEF Answered
  <2>3. ASSUME NEW i \in Sent(a)'
        PROVE  i \in Nat \ {0, 1} /\ i - 1 \in Waits(a)
    <3>1. i \in DOMAIN requests' /\ requests'[i] = Ask(a) /\ i \in Nat \ {0}
      BY <1>1, <2>3 DEF Sent
    <3>2. i # 1
      BY <1>1, <3>1 DEF Ask, Initialized
    <3>3. i - 1 \in DOMAIN waiting /\ Ask(a) = Ask(waiting[i - 1])
      BY <1>1, <3>1, <3>2
    <3>4. a = waiting[i - 1]
      BY <3>3 DEF Ask
    <3> QED
      BY <3>1, <3>2, <3>3, <3>4 DEF Waits
  <2> QED
    BY <2>1, <2>2, <2>3
<1>3. ASSUME NEW a \in Agents
      PROVE  /\ OneAmong(Waits(a)', Sent(a)', Answered(a)')
             /\ Waits(a)' # {} \/ Sent(a)' # {} \/ Answered(a)' # {} =>
                  a \in asked' /\ cache'[a].status # "cached"
  <2>1. \A i, j \in Waits(a) : i = j
    BY DEF OneInv, OneAmong
  <2>2. \A i, j \in Sent(a)' : i = j
    <3>1. \A i, j \in Sent(a)' : i - 1 = j - 1
      BY <1>2, <2>1
    <3> QED
      BY <1>2, <3>1
  <2>3. OneAmong(Waits(a)', Sent(a)', Answered(a)')
    BY <1>2, <2>2 DEF OneAmong
  <2>4. Sent(a)' # {} => Waits(a) # {}
    BY <1>2
  <2>5. Waits(a) # {} => a \in asked /\ cache[a].status # "cached"
    BY DEF OneInv
  <2> QED
    BY <1>1, <1>2, <2>3, <2>4, <2>5
<1> QED
  BY <1>3 DEF OneInv

(* A render asks only for what is not asked for.                           *)
LEMMA OneRender ==
  ASSUME TypeOK, GaveUp, OneInv, Render
  PROVE  OneInv'
<1> DEFINE b == view.selected
<1>1. /\ messages' = messages /\ b \in Agents
      /\ \A a \in Agents : cache'[a].status = cache[a].status
  BY RenderCopies DEF TypeOK, Views
<1>2. \/ UNCHANGED <<asked, requests, waiting>>
      \/ /\ b \notin asked /\ cache[b].status # "cached" /\ asked' = asked \cup {b}
         /\ \/ requests' = Append(requests, Ask(b)) /\ waiting' = waiting
            \/ waiting' = Append(waiting, b) /\ requests' = requests
  BY RenderRequests
<1> HIDE DEF b
<1>3. CASE UNCHANGED <<asked, requests, waiting>>
  BY <1>1, <1>3 DEF OneInv, Waits, Sent, Answered
<1>4. CASE /\ b \notin asked /\ cache[b].status # "cached" /\ asked' = asked \cup {b}
           /\ \/ requests' = Append(requests, Ask(b)) /\ waiting' = waiting
              \/ waiting' = Append(waiting, b) /\ requests' = requests
  <2>1. Waits(b) = {} /\ Sent(b) = {} /\ Answered(b) = {}
    BY <1>1, <1>4 DEF OneInv
  <2>2. \A a \in Agents : Answered(a)' = Answered(a)
    BY <1>1 DEF Answered
  <2>3. ASSUME NEW a \in Agents
        PROVE  /\ OneAmong(Waits(a)', Sent(a)', Answered(a)')
               /\ Waits(a)' # {} \/ Sent(a)' # {} \/ Answered(a)' # {} =>
                    a \in asked' /\ cache'[a].status # "cached"
    <3>1. /\ OneAmong(Waits(a), Sent(a), Answered(a))
          /\ Waits(a) # {} \/ Sent(a) # {} \/ Answered(a) # {} =>
               a \in asked /\ cache[a].status # "cached"
      BY DEF OneInv
    <3>2. CASE requests' = Append(requests, Ask(b)) /\ waiting' = waiting
      <4>1. Ask(b) \in Frames /\ requests \in Seq(Frames)
        BY <1>1 DEF Frames, TypeOK
      <4>2. /\ \A i \in DOMAIN requests : i \in DOMAIN requests' /\ requests'[i] = requests[i]
            /\ \A i \in DOMAIN requests' : i \in DOMAIN requests \/ i = Len(requests) + 1
            /\ requests'[Len(requests) + 1] = Ask(b)
        BY <3>2, <4>1, MoreMessages
      <4>3. Waits(a)' = Waits(a)
        BY <3>2 DEF Waits
      <4>4. CASE a = b
        <5>1. \A i \in Sent(a)' : i = Len(requests) + 1
          BY <2>1, <4>2, <4>4 DEF Sent
        <5>2. Waits(a)' = {} /\ Answered(a)' = {}
          BY <2>1, <2>2, <4>3, <4>4
        <5>3. OneAmong(Waits(a)', Sent(a)', Answered(a)')
          BY <5>1, <5>2 DEF OneAmong
        <5> QED
          BY <1>1, <1>4, <4>4, <5>3
      <4>5. CASE a # b
        <5>1. Ask(a) # Ask(b)
          BY <4>5 DEF Ask
        <5>2. Sent(a)' = Sent(a)
          BY <4>2, <5>1 DEF Sent
        <5> QED
          BY <1>1, <1>4, <2>2, <3>1, <4>3, <5>2
      <4> QED
        BY <4>4, <4>5
    <3>3. CASE waiting' = Append(waiting, b) /\ requests' = requests
      <4>1. b \in Agents /\ waiting \in Seq(Agents)
        BY <1>1 DEF TypeOK
      <4>2. /\ \A i \in DOMAIN waiting : i \in DOMAIN waiting' /\ waiting'[i] = waiting[i]
            /\ \A i \in DOMAIN waiting' : i \in DOMAIN waiting \/ i = Len(waiting) + 1
            /\ waiting'[Len(waiting) + 1] = b
        BY <3>3, <4>1, MoreMessages
      <4>3. Sent(a)' = Sent(a)
        BY <3>3 DEF Sent
      <4>4. CASE a = b
        <5>1. \A i \in Waits(a)' : i = Len(waiting) + 1
          BY <2>1, <4>2, <4>4 DEF Waits
        <5>2. Sent(a)' = {} /\ Answered(a)' = {}
          BY <2>1, <2>2, <4>3, <4>4
        <5>3. OneAmong(Waits(a)', Sent(a)', Answered(a)')
          BY <5>1, <5>2 DEF OneAmong
        <5> QED
          BY <1>1, <1>4, <4>4, <5>3
      <4>5. CASE a # b
        <5>1. Waits(a)' = Waits(a)
          BY <4>2, <4>5 DEF Waits
        <5> QED
          BY <1>1, <1>4, <2>2, <3>1, <4>3, <5>1
      <4> QED
        BY <4>4, <4>5
    <3> QED
      BY <1>4, <3>2, <3>3
  <2> QED
    BY <2>3 DEF OneInv
<1> QED
  BY <1>2, <1>3, <1>4

(* One request per agent, across lost connections.                         *)
LEMMA OneStep ==
  ASSUME TypeOK, GaveUp, LinkInv, OneInv, Next
  PROVE  OneInv'
<1>1. ASSUME NEW b \in Agents, Change(b)
      PROVE  OneInv'
  <2>1. UNCHANGED <<requests, waiting, asked, cache>>
    BY <1>1 DEF Change, editorVars
  <2>2. \A a \in Agents : Answered(a)' = Answered(a)
    <3> DEFINE m == Message("patch", b, <<epoch, source[b] + 1>>)
    <3>1. m \in Messages /\ m.kind = "patch"
      BY DEF TypeOK, Message, Messages, Versions
    <3> HIDE DEF m
    <3>2. CASE messages' = messages
      BY <3>2 DEF Answered
    <3>3. CASE messages' = Append(messages, m)
      <4>1. /\ \A i \in DOMAIN messages : i \in DOMAIN messages' /\ messages'[i] = messages[i]
            /\ \A i \in DOMAIN messages' : i \in DOMAIN messages \/ i = Len(messages) + 1
            /\ messages'[Len(messages) + 1] = m
        BY <3>1, <3>3, MoreMessages DEF TypeOK
      <4> QED
        BY <3>1, <4>1 DEF Answered
    <3>4. messages' = messages \/ messages' = Append(messages, m)
      BY <1>1 DEF Change, m
    <3> QED
      BY <3>2, <3>3, <3>4
  <2> QED
    BY <2>1, <2>2 DEF OneInv, Waits, Sent
<1>2. CASE ConnectionLost \/ (BrokerRestarts /\ Linked)
  <2>1. FailRequests /\ requests' = <<>> /\ messages' = <<>> /\ cache' = NoCopies
    BY <1>2, LossEffect
  <2>2. asked' = asked \cap Range(waiting) /\ waiting' \in {waiting, <<>>}
    BY <2>1 DEF FailRequests
  <2>3. ASSUME NEW a \in Agents
        PROVE  /\ OneAmong(Waits(a)', Sent(a)', Answered(a)')
               /\ Waits(a)' # {} \/ Sent(a)' # {} \/ Answered(a)' # {} =>
                    a \in asked' /\ cache'[a].status # "cached"
    <3>1. Sent(a)' = {} /\ Answered(a)' = {}
      BY <2>1 DEF Sent, Answered
    <3>2. Waits(a)' = Waits(a) \/ Waits(a)' = {}
      BY <2>2 DEF Waits
    <3>3. \A i, j \in Waits(a) : i = j
      BY DEF OneInv, OneAmong
    <3>4. OneAmong(Waits(a)', Sent(a)', Answered(a)')
      BY <3>1, <3>2, <3>3 DEF OneAmong
    <3>5. Waits(a) # {} => a \in asked /\ a \in Range(waiting)
      BY DEF OneInv, Waits, Range
    <3>6. cache'[a].status # "cached"
      BY <2>1, NoCopiesType
    <3> QED
      BY <2>2, <3>1, <3>2, <3>4, <3>5, <3>6
  <2> QED
    BY <2>3 DEF OneInv
<1>3. CASE BrokerRestarts /\ ~Linked
  BY <1>3 DEF BrokerRestarts, Linked, editorVars, OneInv, Waits, Sent, Answered
<1>4. CASE (Connects \/ TimerFires \/ Start) /\ ~Negotiated
  <2>1. UNCHANGED <<messages, asked, cache, requests, waiting>>
    BY <1>4, LinkEffect
  <2> QED
    BY <2>1 DEF OneInv, Waits, Sent, Answered
<1>5. ASSUME NEW a \in Agents, Select(a)
      PROVE  OneInv'
  BY <1>5 DEF Select, OneInv, Waits, Sent, Answered
<1> QED
  BY <1>1, <1>2, <1>3, <1>4, <1>5, OneAnswer, OneReceive, OneNegotiated, OneRender DEF Next

(***************************************************************************)
(* No silent gap                                                           *)
(***************************************************************************)

(* A change is streamed to a client that has been initialized; any other   *)
(* has no copy and no snapshot on its way.                                 *)
LEMMA GapChange ==
  ASSUME TypeOK, LinkInv, GapInv, NEW b \in Agents, Change(b)
  PROVE  GapInv'
<1>1. /\ UNCHANGED <<epoch, ready, cache>> /\ source' = [source EXCEPT ![b] = @ + 1]
      /\ source \in [Agents -> Nat] /\ messages \in Seq(Messages) /\ epoch \in 1 .. MaxEpochs
      /\ cache \in [Agents -> Copies]
  BY DEF Change, editorVars, TypeOK
<1>2. CASE ~ready
  <2>1. messages' = messages /\ NothingReceived
    BY <1>2 DEF Change, LinkInv
  <2> QED
    BY <1>1, <2>1 DEF GapInv, CopyLeads, SnapshotLeads, NothingReceived
<1>3. CASE ready
  <2> DEFINE m == Message("patch", b, <<epoch, source[b] + 1>>)
  <2>1. /\ m \in Messages /\ m.kind = "patch" /\ m.agent = b
        /\ m.version = <<epoch, source[b] + 1>>
    BY <1>1 DEF Message, Messages, Versions
  <2>2. messages' = Append(messages, m)
    BY <1>3 DEF Change
  <2> HIDE DEF m
  <2>3. ASSUME NEW a \in Agents, NEW k \in Nat, k <= Len(messages), NEW r \in Nat,
               LeadsIn(messages, epoch, source[a], a, k, r)
        PROVE  LeadsIn(messages', epoch', source'[a], a, k, r)
    <3>1. CASE a = b
      <4>1. source'[a] = source[b] + 1 /\ source[b] \in Nat
        BY <1>1, <3>1
      <4>2. LeadsIn(Append(messages, m), epoch, source[b] + 1, a, k, r)
        BY <1>1, <2>1, <2>3, <3>1, <4>1, LeadsToTheChange
      <4> QED
        BY <1>1, <2>2, <4>1, <4>2
    <3>2. CASE a # b
      <4>1. source'[a] = source[a]
        BY <1>1, <3>2
      <4>2. LeadsIn(Append(messages, m), epoch, source[a], a, k, r)
        BY <1>1, <2>1, <2>3, <3>2, LeadsOn
      <4> QED
        BY <1>1, <2>2, <4>1, <4>2
    <3> QED
      BY <3>1, <3>2
  <2>4. CopyLeads'
    <3>1. ASSUME NEW a \in Agents, cache'[a].status = "cached"
          PROVE  /\ cache'[a].content = <<epoch', cache'[a].revision>>
                 /\ LeadsIn(messages', epoch', source'[a], a, 0, cache'[a].revision)
      <4>1. /\ cache[a].content = <<epoch, cache[a].revision>>
            /\ LeadsIn(messages, epoch, source[a], a, 0, cache[a].revision)
        BY <1>1, <3>1 DEF GapInv, CopyLeads
      <4>2. cache[a].revision \in Nat /\ 0 <= Len(messages)
        BY <1>1, LenType DEF Copies
      <4> QED
        BY <1>1, <2>3, <4>1, <4>2
    <3> QED
      BY <3>1 DEF CopyLeads
  <2>5. SnapshotLeads'
    <3>1. ASSUME NEW k \in DOMAIN messages', messages'[k].kind = "snapshot"
          PROVE  /\ messages'[k].version[1] = epoch'
                 /\ LeadsIn(messages', epoch', source'[messages'[k].agent],
                            messages'[k].agent, k, messages'[k].version[2])
      <4>1. k \in DOMAIN messages /\ messages'[k] = messages[k]
        BY <1>1, <2>1, <2>2, <3>1, MoreMessages
      <4>2. k \in Nat /\ k <= Len(messages) /\ messages[k] \in Messages
        BY <1>1, <4>1, MoreMessages, LenType
      <4>3. messages[k].agent \in Agents /\ messages[k].version[2] \in Nat
        BY <4>2 DEF Messages, Versions
      <4>4. /\ messages[k].version[1] = epoch
            /\ LeadsIn(messages, epoch, source[messages[k].agent], messages[k].agent, k,
                       messages[k].version[2])
        BY <3>1, <4>1 DEF GapInv, SnapshotLeads
      <4> QED
        BY <1>1, <2>3, <4>1, <4>2, <4>3, <4>4
    <3> QED
      BY <3>1 DEF SnapshotLeads
  <2> QED
    BY <2>4, <2>5 DEF GapInv
<1> QED
  BY <1>2, <1>3

(* A snapshot is what the broker has when it is sent.                      *)
LEMMA GapAnswer ==
  ASSUME TypeOK, GapInv, Answer
  PROVE  GapInv'
<1>1. /\ UNCHANGED <<epoch, source, cache>> /\ Head(requests) \in Frames
      /\ source \in [Agents -> Nat] /\ messages \in Seq(Messages) /\ epoch \in 1 .. MaxEpochs
  BY TailType DEF Answer, editorVars, TypeOK
<1>2. CASE Head(requests).kind = "initialized"
  <2>1. messages' = messages
    BY <1>2 DEF Answer
  <2> QED
    BY <1>1, <2>1 DEF GapInv, CopyLeads, SnapshotLeads
<1>3. CASE Head(requests).kind # "initialized"
  <2>1. PICK b \in Agents : Head(requests) = Ask(b)
    BY <1>1, <1>3 DEF Frames, Initialized
  <2> DEFINE m == Message("snapshot", b, <<epoch, source[b]>>)
  <2>2. /\ m \in Messages /\ m.kind = "snapshot" /\ m.agent = b
        /\ m.version[1] = epoch /\ m.version[2] = source[b] /\ source[b] \in Nat
    BY <1>1 DEF Message, Messages, Versions
  <2>3. messages' = Append(messages, m)
    <3>1. Head(requests).agent = b
      BY <2>1 DEF Ask
    <3> QED
      BY <1>3, <3>1 DEF Answer
  <2> HIDE DEF m
  <2>4. \A a, k, r : LeadsIn(messages, epoch, source[a], a, k, r) =>
          LeadsIn(messages', epoch', source'[a], a, k, r)
    BY <1>1, <2>2, <2>3, LeadsOn
  <2>5. SnapshotLeads'
    <3>1. ASSUME NEW k \in DOMAIN messages', messages'[k].kind = "snapshot"
          PROVE  /\ messages'[k].version[1] = epoch'
                 /\ LeadsIn(messages', epoch', source'[messages'[k].agent],
                            messages'[k].agent, k, messages'[k].version[2])
      <4>1. CASE k \in DOMAIN messages
        <5>1. messages'[k] = messages[k]
          BY <1>1, <2>2, <2>3, <4>1, MoreMessages
        <5> QED
          BY <1>1, <2>4, <3>1, <4>1, <5>1 DEF GapInv, SnapshotLeads
      <4>2. CASE k = Len(messages) + 1
        <5>1. /\ messages'[k] = m /\ Len(messages) \in Nat
              /\ messages' \in Seq(Messages) /\ Len(messages') = k
          BY <1>1, <2>2, <2>3, <4>2, AppendElements
        <5>2. LeadsIn(messages', epoch, source[b], b, k, source[b])
          BY <2>2, <4>2, <5>1, LeadsNowhere
        <5> QED
          BY <1>1, <2>2, <5>1, <5>2
      <4> QED
        BY <1>1, <2>2, <2>3, <4>1, <4>2, MoreMessages
    <3> QED
      BY <3>1 DEF SnapshotLeads
  <2>6. CopyLeads'
    BY <1>1, <2>4 DEF GapInv, CopyLeads
  <2> QED
    BY <2>5, <2>6 DEF GapInv
<1> QED
  BY <1>2, <1>3

(* A patch that is read brings its copy one change on, a snapshot makes    *)
(* the copy what it was when it was sent.                                  *)
LEMMA GapReceive ==
  ASSUME TypeOK, GapInv, Receive
  PROVE  GapInv'
<1> DEFINE m == messages[1]
<1>1. /\ messages # <<>> /\ messages' = Tail(messages)
      /\ UNCHANGED <<epoch, source>> /\ m \in Messages
      /\ m.kind = "patch" => ApplyPatch(m.agent, m.version)
      /\ m.kind = "snapshot" => SetTranscript(m.agent, m.version)
  BY ReceiveType
<1>2. /\ source \in [Agents -> Nat] /\ messages \in Seq(Messages) /\ epoch \in 1 .. MaxEpochs
      /\ cache \in [Agents -> Copies]
  BY DEF TypeOK
<1>3. /\ 1 \in DOMAIN messages
      /\ \A k \in DOMAIN messages' :
           k \in Nat \ {0} /\ k + 1 \in DOMAIN messages /\ messages'[k] = messages[k + 1]
  BY <1>1, <1>2, FewerMessages
<1>4. /\ m.kind \in {"patch", "snapshot"} /\ m.agent \in Agents /\ m.version \in Versions
      /\ m.version[2] \in Nat /\ m.version = <<m.version[1], m.version[2]>>
  <2>1. m.version \in Versions /\ m.agent \in Agents /\ m.kind \in {"patch", "snapshot"}
    BY <1>1 DEF Messages
  <2> HIDE DEF m
  <2>2. PICK x \in 1 .. MaxEpochs, y \in Nat : m.version = <<x, y>>
    BY <2>1 DEF Versions
  <2> QED
    BY <2>1, <2>2
<1>5. ASSUME NEW a \in Agents, NEW k \in Nat \ {0}, NEW r \in Nat,
             LeadsIn(messages, epoch, source[a], a, k, r)
      PROVE  LeadsIn(messages', epoch', source'[a], a, k - 1, r)
  <2>1. source[a] \in Nat /\ k \in Nat /\ k >= 1
    BY <1>2
  <2>2. LeadsIn(Tail(messages), epoch, source[a], a, k - 1, r)
    BY <1>1, <1>2, <1>5, <2>1, LeadsFromTail
  <2> QED
    BY <1>1, <2>2
<1>6. ASSUME NEW a \in Agents, NEW r \in Nat,
             LeadsIn(messages, epoch, source[a], a, 1, r)
      PROVE  LeadsIn(messages', epoch', source'[a], a, 0, r)
  <2>1. 1 \in Nat \ {0} /\ 1 - 1 = 0
    OBVIOUS
  <2>2. LeadsIn(messages', epoch', source'[a], a, 1 - 1, r)
    BY <1>5, <1>6, <2>1
  <2> QED
    BY <2>1, <2>2
<1>7. SnapshotLeads'
  <2>1. ASSUME NEW k \in DOMAIN messages', messages'[k].kind = "snapshot"
        PROVE  /\ messages'[k].version[1] = epoch'
               /\ LeadsIn(messages', epoch', source'[messages'[k].agent],
                          messages'[k].agent, k, messages'[k].version[2])
    <3>1. /\ k \in Nat \ {0} /\ k + 1 \in DOMAIN messages /\ messages'[k] = messages[k + 1]
          /\ k + 1 \in Nat \ {0} /\ (k + 1) - 1 = k
      BY <1>3
    <3>2. messages[k + 1] \in Messages
      BY <1>1, <1>2, <3>1, FewerMessages
    <3>3. messages[k + 1].agent \in Agents /\ messages[k + 1].version[2] \in Nat
      BY <3>2 DEF Messages, Versions
    <3>4. /\ messages[k + 1].version[1] = epoch
          /\ LeadsIn(messages, epoch, source[messages[k + 1].agent], messages[k + 1].agent,
                     k + 1, messages[k + 1].version[2])
      BY <2>1, <3>1 DEF GapInv, SnapshotLeads
    <3>5. LeadsIn(messages', epoch', source'[messages[k + 1].agent], messages[k + 1].agent,
                  (k + 1) - 1, messages[k + 1].version[2])
      BY <1>5, <3>1, <3>3, <3>4
    <3> QED
      BY <1>1, <3>1, <3>4, <3>5
  <2> QED
    BY <2>1 DEF SnapshotLeads
<1>8. ASSUME NEW a \in Agents, cache'[a].status = "cached"
      PROVE  /\ cache'[a].content = <<epoch', cache'[a].revision>>
             /\ LeadsIn(messages', epoch', source'[a], a, 0, cache'[a].revision)
  <2>1. CASE a # m.agent
    <3>1. cache'[a] = cache[a]
      <4> HIDE DEF m
      <4> QED
        BY <1>1, <1>2, <1>4, <2>1 DEF ApplyPatch, SetTranscript
    <3>2. /\ cache[a].content = <<epoch, cache[a].revision>>
          /\ LeadsIn(messages, epoch, source[a], a, 0, cache[a].revision)
      BY <1>8, <3>1 DEF GapInv, CopyLeads
    <3>3. cache[a].revision \in Nat /\ source[a] \in Nat
      BY <1>2 DEF Copies
    <3>4. LeadsIn(messages, epoch, source[a], a, 1, cache[a].revision)
      BY <1>1, <1>2, <2>1, <3>2, <3>3, LeadsPast
    <3> QED
      BY <1>1, <1>6, <3>1, <3>2, <3>3, <3>4
  <2>2. CASE a = m.agent /\ m.kind = "patch"
    <3> DEFINE old == cache[a]
               new == [status |-> "cached", content |-> Applied(old.content, m.version),
                       revision |-> m.version[2], patches |-> Kept(old.patches, m.version)]
    <3>1. cache' = [cache EXCEPT ![a] = IF Continues(old, m.version) THEN new ELSE StaleCopy]
      BY <1>1, <2>2 DEF ApplyPatch
    <3>2. cache'[a] = IF Continues(old, m.version) THEN new ELSE StaleCopy
      <4> HIDE DEF old, new
      <4> QED
        BY <1>2, <3>1
    <3>3. Continues(old, m.version)
      BY <1>8, <3>2, NoCopiesType
    <3>4. /\ old.content = <<epoch, old.revision>>
          /\ LeadsIn(messages, epoch, source[a], a, 0, old.revision)
      BY <3>3 DEF Continues, GapInv, CopyLeads
    <3>5. old.revision \in Nat /\ source[a] \in Nat
      BY <1>2 DEF Copies
    <3>6. /\ m.version = <<epoch, old.revision + 1>>
          /\ LeadsIn(messages, epoch, source[a], a, 1, old.revision + 1)
      BY <1>1, <1>2, <2>2, <3>4, <3>5, LeadsByThePatch
    <3>7. /\ cache'[a].revision = old.revision + 1
          /\ cache'[a].content = <<epoch, old.revision + 1>>
      <4>1. m.version[1] = epoch /\ m.version[2] = old.revision + 1
        BY <3>6
      <4>2. Applied(old.content, m.version) = m.version
        <5>1. old.content = <<m.version[1], m.version[2] - 1>>
          BY <3>4, <3>5, <4>1
        <5> QED
          BY <5>1 DEF Applied
      <4> QED
        BY <3>2, <3>3, <3>6, <4>1, <4>2
    <3>8. old.revision + 1 \in Nat
      BY <3>5
    <3>9. LeadsIn(messages', epoch', source'[a], a, 0, old.revision + 1)
      BY <1>6, <3>6, <3>8
    <3> QED
      BY <1>1, <3>7, <3>9
  <2>3. CASE a = m.agent /\ m.kind = "snapshot"
    <3>1. cache'[a].content = m.version /\ cache'[a].revision = m.version[2]
      <4>1. cache' = [cache EXCEPT ![a] =
               [status |-> "cached", content |-> m.version, revision |-> m.version[2],
                patches |-> <<>>]]
        BY <1>1, <2>3 DEF SetTranscript
      <4> HIDE DEF m
      <4> QED
        BY <1>2, <4>1
    <3>2. /\ m.version[1] = epoch
          /\ LeadsIn(messages, epoch, source[a], a, 1, m.version[2])
      BY <1>3, <2>3 DEF GapInv, SnapshotLeads
    <3>3. LeadsIn(messages', epoch', source'[a], a, 0, m.version[2])
      BY <1>4, <1>6, <3>2
    <3> QED
      BY <1>1, <1>4, <3>1, <3>2, <3>3
  <2> QED
    BY <1>4, <2>1, <2>2, <2>3
<1>9. CopyLeads'
  BY <1>8 DEF CopyLeads
<1> QED
  BY <1>7, <1>9 DEF GapInv

(* No step opens a gap.                                                    *)
LEMMA GapStep ==
  ASSUME TypeOK, GaveUp, LinkInv, GapInv, Next
  PROVE  GapInv'
<1>1. CASE ConnectionLost \/ (BrokerRestarts /\ Linked)
  <2>1. messages' = <<>> /\ cache' = NoCopies
    BY <1>1, LossEffect
  <2> QED
    BY <2>1, NoCopiesType DEF GapInv, CopyLeads, SnapshotLeads
<1>2. CASE BrokerRestarts /\ ~Linked
  <2>1. UNCHANGED <<messages, cache>> /\ NothingReceived
    BY <1>2 DEF BrokerRestarts, Linked, editorVars, LinkInv
  <2> QED
    BY <2>1 DEF NothingReceived, GapInv, CopyLeads, SnapshotLeads
<1>3. CASE Connects \/ Negotiated \/ TimerFires \/ Start
  <2>1. UNCHANGED <<epoch, source, messages, cache>>
    BY <1>3, LinkEffect
  <2> QED
    BY <2>1 DEF GapInv, CopyLeads, SnapshotLeads
<1>4. CASE Render
  <2>1. /\ UNCHANGED <<epoch, source, messages>>
        /\ \A b \in Agents :
             /\ cache'[b].status = cache[b].status
             /\ cache'[b].content = cache[b].content
             /\ cache'[b].revision = cache[b].revision
    BY <1>4, RenderCopies
  <2> QED
    BY <2>1 DEF GapInv, CopyLeads, SnapshotLeads
<1>5. ASSUME NEW a \in Agents, Select(a)
      PROVE  GapInv'
  BY <1>5 DEF Select, brokerVars, GapInv, CopyLeads, SnapshotLeads
<1> QED
  BY <1>1, <1>2, <1>3, <1>4, <1>5, GapChange, GapAnswer, GapReceive DEF Next

(***************************************************************************)
(* What is shown                                                           *)
(***************************************************************************)

(* A copy is only there on a connection.                                   *)
LEMMA CachedIsLinked ==
  ASSUME TypeOK, LinkInv, NEW a \in Agents, cache[a].status # "none"
  PROVE  client.state = "connected" /\ Linked
BY DEF LinkInv, NothingReceived, Linked

(* The patch that is read for a copy is the one it has not seen.           *)
LEMMA PatchComesNext ==
  ASSUME TypeOK, GapInv, Receive, messages[1].kind = "patch",
         NEW a, a = messages[1].agent, cache[a].status = "cached"
  PROVE  messages[1].version = <<epoch, cache[a].revision + 1>>
<1>1. messages # <<>> /\ messages[1] \in Messages
  BY ReceiveType
<1>2. a \in Agents /\ messages \in Seq(Messages) /\ source[a] \in Nat /\ cache[a] \in Copies
  BY <1>1 DEF TypeOK, Messages
<1>3. cache[a].revision \in Nat
  BY <1>2 DEF Copies
<1>4. LeadsIn(messages, epoch, source[a], a, 0, cache[a].revision)
  BY <1>2 DEF GapInv, CopyLeads
<1> QED
  BY <1>1, <1>2, <1>3, <1>4, LeadsByThePatch

(* The patches that wait to be painted keep their order.                   *)
LEMMA FollowReceive ==
  ASSUME TypeOK, GapInv, PatchesFollow, Receive
  PROVE  PatchesFollow'
<1> DEFINE m == messages[1]
<1>1. /\ epoch' = epoch /\ m \in Messages
      /\ m.kind = "patch" => ApplyPatch(m.agent, m.version)
      /\ m.kind = "snapshot" => SetTranscript(m.agent, m.version)
  BY ReceiveType
<1>2. cache \in [Agents -> Copies] /\ m.agent \in Agents /\ m.kind \in {"patch", "snapshot"}
      /\ m.version \in Versions
  BY <1>1 DEF TypeOK, Messages
<1>3. ASSUME NEW a \in Agents, cache'[a].status = "cached", NEW i \in DOMAIN cache'[a].patches
      PROVE  cache'[a].patches[i] =
               <<epoch', cache'[a].revision - Len(cache'[a].patches) + i>>
  <2>1. CASE a # m.agent
    <3>1. cache'[a] = cache[a]
      <4> HIDE DEF m
      <4> QED
        BY <1>1, <1>2, <2>1 DEF ApplyPatch, SetTranscript
    <3> QED
      BY <1>1, <1>3, <3>1 DEF PatchesFollow
  <2>2. CASE a = m.agent /\ m.kind = "snapshot"
    <3>1. cache'[a].patches = <<>>
      <4>1. cache' = [cache EXCEPT ![a] =
               [status |-> "cached", content |-> m.version, revision |-> m.version[2],
                patches |-> <<>>]]
        BY <1>1, <2>2 DEF SetTranscript
      <4> HIDE DEF m
      <4> QED
        BY <1>2, <4>1
    <3> QED
      BY <1>3, <3>1
  <2>3. CASE a = m.agent /\ m.kind = "patch"
    <3> DEFINE old == cache[a]
               p == old.patches
               new == [status |-> "cached", content |-> Applied(old.content, m.version),
                       revision |-> m.version[2], patches |-> Kept(p, m.version)]
    <3>1. cache' = [cache EXCEPT ![a] = IF Continues(old, m.version) THEN new ELSE StaleCopy]
      BY <1>1, <2>3 DEF ApplyPatch
    <3>2. cache'[a] = IF Continues(old, m.version) THEN new ELSE StaleCopy
      <4> HIDE DEF old, new
      <4> QED
        BY <1>2, <3>1
    <3>3. Continues(old, m.version)
      BY <1>3, <3>2, NoCopiesType
    <3>4. m.version = <<epoch, old.revision + 1>>
      <4>1. old.status = "cached"
        BY <3>3 DEF Continues
      <4> QED
        BY <2>3, <4>1, PatchComesNext
    <3>5. old.revision \in Nat /\ p \in Seq(Versions)
      BY <1>2 DEF Copies
    <3>6. /\ cache'[a].revision = old.revision + 1
          /\ cache'[a].patches = Kept(p, m.version)
      BY <3>2, <3>3, <3>4
    <3>7. \A j \in DOMAIN p : p[j] = <<epoch, old.revision - Len(p) + j>>
      BY <3>3 DEF Continues, PatchesFollow
    <3>8. CASE Kept(p, m.version) = <<>>
      BY <1>3, <3>6, <3>8
    <3>9. CASE Kept(p, m.version) = Append(p, m.version)
      <4> HIDE DEF m, p, old
      <4>1. /\ Len(Append(p, m.version)) = Len(p) + 1 /\ Len(p) \in Nat
            /\ Append(p, m.version)[Len(p) + 1] = m.version
            /\ \A j \in 1 .. Len(p) : Append(p, m.version)[j] = p[j]
        BY <1>2, <3>5, AppendElements
      <4>2. i \in DOMAIN p \/ i = Len(p) + 1
        BY <1>2, <1>3, <3>5, <3>6, <3>9, MoreMessages
      <4>3. CASE i \in DOMAIN p
        <5>1. i \in 1 .. Len(p) /\ i \in Nat
          BY <3>5, <4>3
        <5>2. cache'[a].revision - Len(cache'[a].patches) + i = old.revision - Len(p) + i
          <6>1. /\ cache'[a].revision = old.revision + 1 /\ old.revision \in Nat
                /\ Len(cache'[a].patches) = Len(p) + 1 /\ Len(p) \in Nat
            BY <3>5, <3>6, <3>9, <4>1
          <6> HIDE DEF p
          <6>2. ASSUME NEW r \in Nat, NEW l \in Nat
                PROVE  r + 1 - (l + 1) + i = r - l + i
            BY <5>1
          <6> QED
            BY <6>1, <6>2
        <5>3. cache'[a].patches[i] = <<epoch, old.revision - Len(p) + i>>
          BY <3>6, <3>7, <3>9, <4>1, <4>3, <5>1
        <5> QED
          BY <1>1, <5>2, <5>3
      <4>4. CASE i = Len(p) + 1
        <5>1. cache'[a].revision - Len(cache'[a].patches) + i = old.revision + 1
          <6>1. /\ cache'[a].revision = old.revision + 1 /\ old.revision \in Nat
                /\ Len(cache'[a].patches) = Len(p) + 1
            BY <3>5, <3>6, <3>9, <4>1
          <6> QED
            BY <4>1, <4>4, <6>1
        <5>2. cache'[a].patches[i] = <<epoch, old.revision + 1>>
          BY <3>4, <3>6, <3>9, <4>1, <4>4
        <5> QED
          BY <1>1, <5>1, <5>2
      <4> QED
        BY <4>2, <4>3, <4>4
    <3> QED
      BY <3>8, <3>9 DEF Kept
  <2> QED
    BY <1>2, <2>1, <2>2, <2>3
<1> QED
  BY <1>3 DEF PatchesFollow

(* Every step keeps the patches on their way in sequence. *)
LEMMA FollowStep ==
  ASSUME TypeOK, GaveUp, LinkInv, GapInv, PatchesFollow, Next
  PROVE  PatchesFollow'
<1>1. CASE (\E a \in Agents : Change(a) \/ Select(a)) \/ Answer
  BY <1>1 DEF Change, Select, Answer, brokerVars, editorVars, PatchesFollow
<1>2. CASE ConnectionLost \/ (BrokerRestarts /\ Linked)
  <2>1. cache' = NoCopies
    BY <1>2, LossEffect
  <2> QED
    BY <2>1, NoCopiesType DEF PatchesFollow
<1>3. CASE BrokerRestarts /\ ~Linked
  <2>1. cache' = cache /\ NothingReceived
    BY <1>3 DEF BrokerRestarts, Linked, editorVars, LinkInv
  <2> QED
    BY <2>1 DEF NothingReceived, PatchesFollow
<1>4. CASE Connects \/ Negotiated \/ TimerFires \/ Start
  <2>1. UNCHANGED <<epoch, cache>>
    BY <1>4, LinkEffect
  <2> QED
    BY <2>1 DEF PatchesFollow
<1>5. CASE Render
  <2>1. /\ epoch' = epoch
        /\ \A b \in Agents :
             /\ cache'[b].status = cache[b].status
             /\ cache'[b].revision = cache[b].revision
             /\ cache'[b].patches = <<>> \/ cache'[b].patches = cache[b].patches
    BY <1>5, RenderCopies
  <2>2. ASSUME NEW b \in Agents, cache'[b].status = "cached", NEW i \in DOMAIN cache'[b].patches
        PROVE  cache'[b].patches[i] =
                 <<epoch', cache'[b].revision - Len(cache'[b].patches) + i>>
    <3>1. cache'[b].patches = cache[b].patches
      BY <2>1, <2>2
    <3> QED
      BY <2>1, <2>2, <3>1 DEF PatchesFollow
  <2> QED
    BY <2>2 DEF PatchesFollow
<1> QED
  BY <1>1, <1>2, <1>3, <1>4, <1>5, FollowReceive DEF Next

(* A version is never a mixture of two.                                    *)
LEMMA VersionsAreNotTorn ==
  ASSUME NEW e \in 1 .. MaxEpochs, NEW r
  PROVE  <<e, r>> # Torn /\ <<e, r>>[2] = r
<1>1. e # 0
  BY CacheAssumption
<1> QED
  BY <1>1 DEF Torn

(* What is shown follows from what was painted, when the view is dirty or  *)
(* the copies are as they were.                                            *)
LEMMA ShownFollows ==
  ASSUME PaintInv
  PROVE  view.painted.body => view.shown # Torn /\ view.shown[2] = view.painted.revision
<1> SUFFICES ASSUME view.painted.body
             PROVE  view.shown # Torn /\ view.shown[2] = view.painted.revision
  OBVIOUS
<1>1. PICK e \in 1 .. MaxEpochs : view.shown = <<e, view.painted.revision>>
  BY DEF PaintInv
<1> QED
  BY <1>1, VersionsAreNotTorn

(* A render paints the copy, or keeps what was painted of it.              *)
LEMMA PaintRender ==
  ASSUME TypeOK, GaveUp, LinkInv, GapInv, PatchesFollow, PaintInv, Render
  PROVE  /\ PaintInv'
         /\ ~view'.dirty /\ Usable(cache'[view'.selected]) =>
              view'.shown = cache'[view'.selected].content
<1> DEFINE a == view.selected
           copy == cache[a]
<1>1. /\ a \in Agents /\ copy \in Copies /\ epoch \in 1 .. MaxEpochs /\ epoch' = epoch
      /\ cache'[a].status = copy.status /\ cache'[a].content = copy.content
      /\ cache'[a].revision = copy.revision
  BY RenderCopies DEF TypeOK, Views
<1>2. /\ client' = client
           \/ (client'.state \in {"connecting", "reconnecting"}
                 /\ client.state \notin {"connected", "negotiating"})
  BY RenderRequests
<1>3. Linked' = Linked
  BY <1>2 DEF Linked
<1>4. /\ view' \in Views /\ view'.selected = a
      /\ \/ /\ copy.status = "stale" /\ view'.painted = view.painted
            /\ view'.shown = view.shown /\ view'.dirty = (client' # client)
         \/ /\ view.painted.body /\ Usable(copy) /\ Continuous(view.painted, copy)
            /\ view'.painted.body /\ view'.painted.revision = copy.revision
            /\ view'.shown = PaintedOver(view.shown, copy.patches)
            /\ ~view'.dirty
         \/ /\ view'.painted.body = Usable(copy)
            /\ view'.painted.revision = copy.revision
            /\ view'.shown = IF Usable(copy) THEN copy.content ELSE Placeholder
            /\ view'.dirty = (client' # client)
  BY RenderView
<1>5. Usable(copy) =>
        /\ copy.status = "cached" /\ Linked
        /\ copy.content = <<epoch, copy.revision>>
  <2>1. Usable(copy) => copy.status = "cached"
    BY DEF Usable
  <2>2. copy.status = "cached" => Linked /\ copy.content = <<epoch, copy.revision>>
    BY <1>1, CachedIsLinked DEF GapInv, CopyLeads
  <2> QED
    BY <2>1, <2>2
<1>6. Usable(cache'[a]) <=> Usable(copy)
  BY <1>1 DEF Usable
<1>7. CASE /\ copy.status = "stale" /\ view'.painted = view.painted /\ view'.shown = view.shown
  <2>1. Linked
    BY <1>1, <1>7, CachedIsLinked
  <2>2. ~Usable(cache'[a])
    BY <1>6, <1>7 DEF Usable
  <2>3. PaintInv'
    BY <1>1, <1>3, <1>7, <2>1 DEF PaintInv
  <2> QED
    BY <1>4, <2>2, <2>3
<1>8. CASE /\ view.painted.body /\ Usable(copy) /\ Continuous(view.painted, copy)
           /\ view'.painted.body /\ view'.painted.revision = copy.revision
           /\ view'.shown = PaintedOver(view.shown, copy.patches)
  <2>1. view.shown = <<epoch, view.painted.revision>>
    BY <1>5, <1>8 DEF PaintInv
  <2>2. view'.shown = <<epoch, copy.revision>>
    <3>1. CASE copy.patches = <<>>
      BY <1>8, <2>1, <3>1 DEF Continuous, PaintedOver
    <3>2. CASE copy.patches # <<>>
      <4>1. /\ copy.patches \in Seq(Versions) /\ copy.revision \in Nat
            /\ \A i \in DOMAIN copy.patches :
                 copy.patches[i] = <<epoch, copy.revision - Len(copy.patches) + i>>
        BY <1>1, <1>5, <1>8 DEF PatchesFollow, Copies
      <4>2. view.shown = <<epoch, Head(copy.patches)[2] - 1>>
        BY <1>8, <2>1, <3>2 DEF Continuous
      <4> HIDE DEF copy
      <4>3. PaintedOver(view.shown, copy.patches) = <<epoch, copy.revision>>
        BY <3>2, <4>1, <4>2, PaintedByPatches
      <4> QED
        BY <1>8, <4>3
    <3> QED
      BY <3>1, <3>2
  <2>3. PaintInv'
    BY <1>1, <1>3, <1>5, <1>8, <2>2 DEF PaintInv
  <2> QED
    BY <1>1, <1>4, <1>5, <1>8, <2>2, <2>3
<1>9. CASE /\ view'.painted.body = Usable(copy)
           /\ view'.painted.revision = copy.revision
           /\ view'.shown = IF Usable(copy) THEN copy.content ELSE Placeholder
  <2>1. CASE Usable(copy)
    <3>1. /\ view'.shown = copy.content /\ view'.shown = <<epoch, copy.revision>>
          /\ Linked'
      BY <1>3, <1>5, <1>9, <2>1
    <3>2. PaintInv'
      BY <1>1, <1>9, <3>1 DEF PaintInv
    <3> QED
      BY <1>1, <1>4, <3>1, <3>2
  <2>2. CASE ~Usable(copy)
    <3>1. ~view'.painted.body
      BY <1>9, <2>2
    <3>2. PaintInv'
      BY <3>1 DEF PaintInv
    <3> QED
      BY <1>4, <1>6, <2>2, <3>2
  <2> QED
    BY <2>1, <2>2
<1> QED
  BY <1>4, <1>7, <1>8, <1>9

(* What is shown is kept until something schedules a render.               *)
LEMMA PaintStep ==
  ASSUME IInv, Next
  PROVE  PaintInv' /\ ShownIsTheCopy'
<1> USE DEF IInv
<1>1. CASE (\E a \in Agents : Change(a)) \/ Answer
  <2>1. UNCHANGED <<epoch, client, view, cache>>
    BY <1>1 DEF Change, Answer, editorVars
  <2>2. PaintInv'
    BY <2>1 DEF PaintInv, Linked
  <2> QED
    BY <2>1, <2>2 DEF ShownIsTheCopy
<1>2. CASE Receive
  <2>1. /\ view'.dirty /\ view'.painted = view.painted /\ view'.shown = view.shown
        /\ UNCHANGED <<epoch, client>>
    BY <1>2, ReceiveType
  <2>2. PaintInv'
    BY <2>1 DEF PaintInv, Linked
  <2> QED
    BY <2>1, <2>2, ShownFollows DEF ShownIsTheCopy
<1>3. CASE ConnectionLost \/ (BrokerRestarts /\ Linked)
  <2>1. ~Linked' /\ view' = [view EXCEPT !.dirty = TRUE] /\ view \in Views
    BY <1>3, LossEffect DEF Linked, TypeOK
  <2>2. view'.dirty /\ view'.painted = view.painted /\ view'.shown = view.shown
    BY <2>1, ScheduledView
  <2>3. PaintInv'
    BY <2>1, <2>2 DEF PaintInv
  <2> QED
    BY <2>2, <2>3, ShownFollows DEF ShownIsTheCopy
<1>4. CASE BrokerRestarts /\ ~Linked
  <2>1. UNCHANGED <<client, view, cache>>
    BY <1>4 DEF BrokerRestarts, Linked, editorVars
  <2>2. PaintInv'
    BY <1>4, <2>1 DEF PaintInv, Linked
  <2> QED
    BY <2>1, <2>2 DEF ShownIsTheCopy
<1>5. CASE Connects \/ Negotiated \/ TimerFires \/ Start
  <2>1. /\ UNCHANGED <<epoch, cache>>
        /\ view'.painted = view.painted /\ view'.shown = view.shown
        /\ view'.selected = view.selected
        /\ view.dirty \/ Connects \/ Negotiated => view'.dirty
    BY <1>5, LinkEffect
  <2>2. PaintInv'
    <3>1. CASE Connects
      <4>1. ~view.dirty /\ ~Linked
        BY <3>1, LinkEffect DEF Linked
      <4>2. ~view'.painted.body
        BY <2>1, <4>1 DEF PaintInv
      <4> QED
        BY <4>2 DEF PaintInv
    <3>2. CASE Negotiated
      <4>1. Linked /\ Linked'
        BY <3>2, LinkEffect DEF Linked
      <4> QED
        BY <2>1, <4>1 DEF PaintInv
    <3>3. CASE TimerFires \/ Start
      <4>1. Linked' = Linked
        BY <3>3, LinkEffect DEF Linked
      <4> QED
        BY <2>1, <4>1 DEF PaintInv
    <3> QED
      BY <1>5, <3>1, <3>2, <3>3
  <2> QED
    BY <2>1, <2>2 DEF ShownIsTheCopy
<1>6. CASE Render
  <2>1. /\ PaintInv'
        /\ ~view'.dirty /\ Usable(cache'[view'.selected]) =>
             view'.shown = cache'[view'.selected].content
    BY <1>6, PaintRender
  <2>2. view'.painted.body => view'.shown # Torn /\ view'.shown[2] = view'.painted.revision
    <3> SUFFICES ASSUME view'.painted.body
                 PROVE  view'.shown # Torn /\ view'.shown[2] = view'.painted.revision
      OBVIOUS
    <3>1. PICK e \in 1 .. MaxEpochs : view'.shown = <<e, view'.painted.revision>>
      BY <2>1 DEF PaintInv
    <3> QED
      BY <3>1, VersionsAreNotTorn
  <2> QED
    BY <2>1, <2>2 DEF ShownIsTheCopy
<1>7. ASSUME NEW a \in Agents, Select(a)
      PROVE  PaintInv' /\ ShownIsTheCopy'
  <2>1. /\ UNCHANGED <<epoch, client>> /\ view \in Views
        /\ view' = [view EXCEPT !.selected = a, !.dirty = TRUE]
    BY <1>7 DEF Select, brokerVars, TypeOK
  <2>2. view'.dirty /\ view'.painted = view.painted /\ view'.shown = view.shown
    BY <2>1 DEF Views
  <2>3. PaintInv'
    BY <2>1, <2>2 DEF PaintInv, Linked
  <2> QED
    BY <2>2, <2>3, ShownFollows DEF ShownIsTheCopy
<1> QED
  BY <1>1, <1>2, <1>3, <1>4, <1>5, <1>6, <1>7 DEF Next

(***************************************************************************)
(* The invariant                                                           *)
(***************************************************************************)

(* Nothing is connected, cached or asked for yet. *)
LEMMA Initially ==
  ASSUME Init
  PROVE  IInv
<1>1. MaxAttempts \in Nat /\ MaxDrops \in Nat /\ MaxEpochs \in Nat \ {0}
  BY ConnectionAssumption, CacheAssumption
<1>2. client \in Clients /\ client.state = "stopped" /\ client.attempt = 0
  <2>1. 0 \in 0 .. MaxAttempts + 2
    BY <1>1
  <2> QED
    BY <2>1 DEF Init, FreshClient, Clients, ClientStates
<1>3. /\ <<>> \in Seq(Frames) /\ <<>> \in Seq(Messages) /\ <<>> \in Seq(Agents)
  BY EmptyType
<1>4. /\ view \in Views /\ ~view.painted.body /\ view.dirty
  BY DEF Init, Views, NotPainted
<1>5. TypeOK
  <2>1. /\ cache \in [Agents -> Copies]
        /\ \A a \in Agents : Len(cache[a].patches) <= MaxPatches
    BY NoCopiesType DEF Init
  <2>2. /\ epoch \in 1 .. MaxEpochs /\ source \in [Agents -> Nat] /\ ready \in BOOLEAN
        /\ asked \subseteq Agents /\ drops \in 0 .. MaxDrops
    <3>1. 1 \in 1 .. MaxEpochs /\ 0 \in 0 .. MaxDrops
      BY <1>1
    <3>2. [a \in Agents |-> 0] \in [Agents -> Nat]
      OBVIOUS
    <3> QED
      BY <3>1, <3>2 DEF Init
  <2>3. requests \in Seq(Frames) /\ messages \in Seq(Messages) /\ waiting \in Seq(Agents)
    BY <1>3 DEF Init
  <2> QED
    BY <1>2, <1>4, <2>1, <2>2, <2>3 DEF TypeOK
<1>6. GaveUp
  BY <1>1, <1>2 DEF GaveUp
<1>7. messages = <<>> /\ requests = <<>> /\ waiting = <<>> /\ ~ready
      /\ \A a \in Agents : cache[a].status = "none"
  BY NoCopiesType DEF Init
<1>8. LinkInv
  BY <1>2, <1>7 DEF LinkInv, NothingReceived
<1>9. OneInv
  BY <1>7 DEF OneInv, OneAmong, Waits, Sent, Answered
<1>10. GapInv /\ PatchesFollow
  BY <1>7 DEF GapInv, CopyLeads, SnapshotLeads, PatchesFollow
<1>11. PaintInv /\ ShownIsTheCopy
  BY <1>4 DEF PaintInv, ShownIsTheCopy
<1> QED
  BY <1>5, <1>6, <1>8, <1>9, <1>10, <1>11 DEF IInv

(* Every step of broker, connection or editor keeps the invariant. *)
LEMMA Invariance ==
  ASSUME IInv, [Next]_vars
  PROVE  IInv'
<1>1. CASE Next
  <2>1. TypeOK' /\ GaveUp'
    BY <1>1, TypeStep DEF IInv
  <2>2. LinkInv' /\ OneInv'
    BY <1>1, LinkStep, OneStep DEF IInv
  <2>3. GapInv' /\ PatchesFollow'
    BY <1>1, GapStep, FollowStep DEF IInv
  <2>4. PaintInv' /\ ShownIsTheCopy'
    BY <1>1, PaintStep
  <2> QED
    BY <2>1, <2>2, <2>3, <2>4 DEF IInv
<1>2. CASE UNCHANGED vars
  BY <1>2 DEF vars, IInv, TypeOK, GaveUp, LinkInv, NothingReceived, OneInv, Waits, Sent,
     Answered, GapInv, CopyLeads, SnapshotLeads, PatchesFollow, PaintInv, Linked,
     ShownIsTheCopy
<1> QED
  BY <1>1, <1>2

(* The invariant holds of every behaviour. *)
LEMMA Holds == Spec => []IInv
<1>1. Init => IInv
  BY Initially
<1>2. IInv /\ [Next]_vars => IInv'
  BY Invariance
<1> QED
  BY <1>1, <1>2, PTL DEF Spec

(***************************************************************************)
(* Theorems                                                                *)
(***************************************************************************)

(* The parts are what client.lua, model.lua and view.lua declare, and the  *)
(* queue of patches keeps its limit.                                       *)
THEOREM CacheTypeCorrect == Spec => []TypeOK
<1>1. IInv => TypeOK
  BY DEF IInv
<1> QED
  BY <1>1, Holds, PTL

(* However many changes, snapshots, lost connections and broker processes  *)
(* there are: a copy that is not marked stale holds the broker's lines at  *)
(* its revision, and no patch behind it is missing, repeated or out of     *)
(* order (apply_transcript_patch, set_transcript).                         *)
THEOREM CacheHasNoSilentGap == Spec => []NoSilentGap
<1>1. IInv => NoSilentGap
  BY DEF IInv, GapInv, CopyLeads, LeadsIn, PatchesIn, NoSilentGap, Leads, Patches
<1> QED
  BY <1>1, Holds, PTL

(* M.transcript never has two requests for one agent on their way, whether *)
(* they wait, are sent or are answered, and none for a copy that is        *)
(* current.                                                                *)
THEOREM CacheOneRequest == Spec => []OneRequestInFlight
<1>1. IInv => OneRequestInFlight
  <2> SUFFICES ASSUME IInv, NEW a \in Agents
               PROVE  /\ \A x, y \in InFlight(a) : x = y
                      /\ InFlight(a) # {} => a \in asked /\ cache[a].status # "cached"
    BY DEF OneRequestInFlight
  <2>1. InFlight(a) = {<<"waits", i>> : i \in Waits(a)} \cup {<<"sent", i>> : i \in Sent(a)}
                        \cup {<<"answered", i>> : i \in Answered(a)}
    BY DEF InFlight, Waits, Sent, Answered
  <2>2. /\ OneAmong(Waits(a), Sent(a), Answered(a))
        /\ Waits(a) # {} \/ Sent(a) # {} \/ Answered(a) # {} =>
             a \in asked /\ cache[a].status # "cached"
    BY DEF IInv, OneInv
  <2>3. \A x, y \in InFlight(a) : x = y
    BY <2>1, <2>2 DEF OneAmong
  <2>4. InFlight(a) # {} => Waits(a) # {} \/ Sent(a) # {} \/ Answered(a) # {}
    BY <2>1
  <2> QED
    BY <2>2, <2>3, <2>4
<1> QED
  BY <1>1, Holds, PTL

(* What _render_conversation leaves on the screen is one version of the    *)
(* transcript, and the copy's when nothing is left to render, also when    *)
(* the patches queued in between were painted over older lines.            *)
THEOREM CacheShowsTheCopy == Spec => []ShownIsTheCopy
<1>1. IInv => ShownIsTheCopy
  BY DEF IInv
<1> QED
  BY <1>1, Holds, PTL

===============================================================================
