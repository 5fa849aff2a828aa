--------------------------- MODULE RealtimeProofs ---------------------------
(* Proofs about Realtime, for every set of events and worker threads,      *)
(* batches of two and any number of requests and restarts.                 *)
EXTENDS Realtime, FiniteSetTheorems, SequenceTheorems, WellFoundedInduction, TLAPS

\* The rows S hold e, or the reasons W say the database failed while it was
\* stored.
Kept(e, S, W) == e \in S \/ "failed" \in W[e]

\* What the request q knows of its events.  Before it stores them, each that
\* is not new to it is in S, and a single event is its only one; after that,
\* all are kept.
Knows(q, S, W) ==
  /\ q.pc = "event" => q.evs \in {<<e>> : e \in Event}
  /\ q.pc \in {"event", "batch"} =>
       /\ q.new \subseteq DOMAIN q.evs
       /\ \A i \in DOMAIN q.evs : i \in q.new \/ q.evs[i] \in S
  /\ q.pc \in {"turn", "answer", "respond"} =>
       \A i \in DOMAIN q.evs : Kept(q.evs[i], S, W)

AckInv ==
  /\ req \in [Worker -> Request]
  /\ why \in [Event -> SUBSET Reason]
  /\ acked \subseteq Event
  /\ \A e \in acked : Kept(e, stored, why)
  /\ \A w \in Worker : Knows(req[w], stored, why)

\* Blaming events adds to their reasons.
LEMMA BlameAdds ==
  ASSUME why \in [Event -> SUBSET Reason], NEW E, NEW r \in Reason, Blame(E, r)
  PROVE  /\ why' \in [Event -> SUBSET Reason]
         /\ \A e \in Event : why[e] \subseteq why'[e]
         /\ \A e \in E \cap Event : r \in why'[e]
  BY DEF Blame

\* Nothing undoes the storing of a row or forgets what went wrong.
LEMMA OnlyAdded ==
  ASSUME why \in [Event -> SUBSET Reason], [Next]_vars
  PROVE  /\ stored \subseteq stored'
         /\ why' \in [Event -> SUBSET Reason]
         /\ \A e \in Event : why[e] \subseteq why'[e]
<1> USE DEF Reason, tables
<1>1. CASE UNCHANGED vars
  BY <1>1 DEF vars
<1>2. ASSUME NEW w \in Worker, NEW d \in Event, NEW e \in Event,
             ReceiveEvent(w, e) \/ ReceiveBatch(w, <<d, e>>)
      PROVE  stored' = stored /\ why' = why
  BY <1>2 DEF ReceiveEvent, ReceiveBatch
<1>3. ASSUME NEW w \in Worker, Step(w)
      PROVE  /\ stored \subseteq stored'
             /\ \/ why' = why
                \/ \E E, r : r \in Reason /\ Blame(E, r)
  <2>1. CASE StoreEvent(w) \/ StoreBatch(w)
    BY <2>1 DEF StoreEvent, StoreBatch, Insert
  <2>2. CASE LoseEvent(w)
    BY <2>2 DEF LoseEvent
  <2>3. CASE FailBatch(w) \/ HandOff(w) \/ Answer(w) \/ Respond(w) \/ GuardWrites(w)
            \/ CommitPunct(w)
    BY <2>3 DEF FailBatch, HandOff, Answer, Respond, GuardWrites, CommitPunct
  <2>4. CASE NoAnswer(w)
    BY <2>4 DEF NoAnswer
  <2>5. CASE \E e \in Event : GuardReads(w, e)
    BY <2>5 DEF GuardReads
  <2>6. CASE FailPunct(w)
    BY <2>6 DEF FailPunct
  <2> QED BY <1>3, <2>1, <2>2, <2>3, <2>4, <2>5, <2>6 DEF Step
<1>4. CASE WindowEnds
  BY <1>4 DEF WindowEnds
<1>5. CASE Restart
  BY <1>5, BlameAdds DEF Restart
<1> QED
  BY <1>1, <1>2, <1>3, <1>4, <1>5, BlameAdds DEF Next

\* What is known stays known when rows and reasons are only added.
LEMMA KnowsStays ==
  ASSUME NEW q \in Request, NEW S, NEW T, NEW W, NEW V, Knows(q, S, W),
         S \subseteq T, \A e \in Event : W[e] \subseteq V[e]
  PROVE  Knows(q, T, V)
<1> \A i \in DOMAIN q.evs : q.evs[i] \in Event
  BY DEF Request
<1> QED BY DEF Knows, Kept

\* An idle thread knows nothing of any event.
LEMMA IdleKnows == Idle \in Request /\ \A S, W : Knows(Idle, S, W)
<1> << >> \in Seq(Event)
  OBVIOUS
<1> QED BY DEF Idle, Request, Knows

\* A request just opened has the events its lookup did not find as new.
LEMMA Opens ==
  ASSUME req \in [Worker -> Request], NEW w \in Worker, NEW evs \in Seq(Event),
         NEW pc \in {"event", "batch"}, pc = "event" => evs \in {<<e>> : e \in Event},
         Open(w, pc, evs)
  PROVE  /\ req' \in [Worker -> Request]
         /\ \A v \in Worker \ {w} : req'[v] = req[v]
         /\ \A W : Knows(req'[w], stored, W)
<1> DEFINE new == {i \in DOMAIN evs : evs[i] \notin stored}
           q == [Idle EXCEPT !.pc = pc, !.evs = evs, !.new = new]
<1>1. new \in SUBSET Nat
  OBVIOUS
<1>2. new \subseteq DOMAIN evs /\ \A i \in DOMAIN evs : i \in new \/ evs[i] \in stored
  OBVIOUS
<1>3. req' = [req EXCEPT ![w] = q]
  BY DEF Open
<1> HIDE DEF new
<1>4. q \in Request /\ q.pc = pc /\ q.evs = evs /\ q.new = new
  BY <1>1 DEF Idle, Request
<1> HIDE DEF q
<1>5. \A W : Knows(q, stored, W)
  BY <1>2, <1>4 DEF Knows
<1> QED BY <1>3, <1>4, <1>5

\* Once its events are kept, a request may answer and acknowledge them.
LEMMA Proceeds ==
  ASSUME req \in [Worker -> Request], NEW w \in Worker, NEW rows, Proceed(w, rows),
         NEW S, NEW W, \A i \in DOMAIN req[w].evs : Kept(req[w].evs[i], S, W)
  PROVE  /\ req' \in [Worker -> Request]
         /\ \A v \in Worker \ {w} : req'[v] = req[v]
         /\ Knows(req'[w], S, W)
<1> DEFINE todo == {i \in req[w].new : req[w].evs[i] \in Said}
           pc == TurnOrRespond(todo)
           q == [req[w] EXCEPT !.todo = todo, !.rows = rows \cap Said, !.new = {}, !.pc = pc]
<1>1. pc \in {"turn", "respond"}
  BY DEF TurnOrRespond
<1>2. todo \in SUBSET Nat
  BY DEF Request
<1>3. req' = [req EXCEPT ![w] = q]
  BY DEF Proceed
<1> HIDE DEF todo, pc
<1>4. q \in Request /\ q.pc = pc /\ q.evs = req[w].evs
  BY <1>1, <1>2 DEF Request
<1> HIDE DEF q
<1>5. Knows(q, S, W)
  BY <1>1, <1>4 DEF Knows
<1> QED BY <1>3, <1>4, <1>5

\* Moving on within the turns keeps what the request knows.
LEMMA MovesOn ==
  ASSUME req \in [Worker -> Request], NEW w \in Worker, NEW todo \in SUBSET Nat,
         req[w].pc \in {"turn", "answer"}, NEW pc \in {"turn", "answer", "respond"},
         req' = [req EXCEPT ![w].todo = todo, ![w].pc = pc],
         NEW S, NEW W, Knows(req[w], S, W)
  PROVE  /\ req' \in [Worker -> Request]
         /\ \A v \in Worker \ {w} : req'[v] = req[v]
         /\ Knows(req'[w], S, W)
<1> DEFINE q == [req[w] EXCEPT !.todo = todo, !.pc = pc]
<1>1. req' = [req EXCEPT ![w] = q]
  OBVIOUS
<1>2. q \in Request /\ q.pc = pc /\ q.evs = req[w].evs
  BY DEF Request
<1> HIDE DEF q
<1>3. Knows(q, S, W)
  BY <1>2 DEF Knows
<1> QED BY <1>1, <1>2, <1>3
-----------------------------------------------------------------------------
\* What the requests know of their events, and the acknowledgements, are true.
THEOREM AcksCorrect == Spec => []AckInv
<1>1. Init => AckInv
  BY IdleKnows DEF Init, AckInv
<1>2. AckInv /\ [Next]_vars => AckInv'
  <2> SUFFICES ASSUME AckInv, [Next]_vars PROVE AckInv'
    OBVIOUS
  <2> USE DEF AckInv
  <2>0. /\ stored \subseteq stored'
        /\ why' \in [Event -> SUBSET Reason]
        /\ \A e \in Event : why[e] \subseteq why'[e]
    BY OnlyAdded
  <2>1. \A e \in acked : Kept(e, stored', why')
    BY <2>0 DEF Kept
  <2>2. \A w \in Worker : Knows(req[w], stored', why')
    BY <2>0, KnowsStays
  <2>3. CASE UNCHANGED vars
    BY <2>3 DEF vars
  \* One thread acts: its request is well-formed and knows what it should.
  <2>4. ASSUME NEW w \in Worker, acked' = acked,
               req' \in [Worker -> Request],
               \A v \in Worker \ {w} : req'[v] = req[v],
               Knows(req'[w], stored', why')
        PROVE  AckInv'
    BY <2>0, <2>1, <2>2, <2>4
  <2>5. ASSUME NEW w \in Worker, NEW e \in Event, ReceiveEvent(w, e) PROVE AckInv'
    <3>1. stored' = stored /\ why' = why
      BY <2>5 DEF ReceiveEvent, tables
    <3>2. CASE Open(w, "event", <<e>>) /\ UNCHANGED acked
      <4>1. <<e>> \in Seq(Event) /\ <<e>> \in {<<x>> : x \in Event}
        OBVIOUS
      <4>2. /\ req' \in [Worker -> Request]
            /\ \A v \in Worker \ {w} : req'[v] = req[v]
            /\ \A W : Knows(req'[w], stored, W)
        BY <3>2, <4>1, Opens
      <4> QED BY <2>4, <3>1, <3>2, <4>2
    <3>3. CASE e \in stored /\ acked' = acked \cup {e} /\ UNCHANGED req
      BY <3>1, <3>3 DEF Kept
    <3> QED BY <2>5, <3>2, <3>3 DEF ReceiveEvent
  <2>6. ASSUME NEW w \in Worker, NEW d \in Event, NEW e \in Event, ReceiveBatch(w, <<d, e>>)
        PROVE  AckInv'
    <3>1. stored' = stored /\ why' = why /\ acked' = acked /\ Open(w, "batch", <<d, e>>)
      BY <2>6 DEF ReceiveBatch, tables
    <3>2. <<d, e>> \in Seq(Event)
      OBVIOUS
    <3>3. /\ req' \in [Worker -> Request]
          /\ \A v \in Worker \ {w} : req'[v] = req[v]
          /\ \A W : Knows(req'[w], stored, W)
      BY <3>1, <3>2, Opens
    <3> QED BY <2>4, <3>1, <3>3
  <2>7. ASSUME NEW w \in Worker, Step(w) PROVE AckInv'
    <3>0. ASSUME NEW q \in Request, q.pc \in {"idle", "punct", "guard"}, acked' = acked,
                 req' = [req EXCEPT ![w] = q]
          PROVE  AckInv'
      <4> Knows(q, stored', why')
        BY <3>0 DEF Knows
      <4> QED BY <2>4, <3>0
    <3>1. CASE StoreEvent(w) \/ StoreBatch(w)
      <4>1. /\ req[w].pc \in {"event", "batch"} /\ acked' = acked
            /\ stored' = stored \cup Events(w, req[w].new)
            /\ Proceed(w, Events(w, req[w].new))
        BY <3>1 DEF StoreEvent, StoreBatch, At, Insert
      <4>2. \A i \in DOMAIN req[w].evs : Kept(req[w].evs[i], stored', why')
        BY <4>1 DEF Knows, Kept, Events
      <4> QED BY <2>4, <4>1, <4>2, Proceeds
    <3>2. CASE LoseEvent(w)
      <4>1. /\ req[w].pc = "event" /\ acked' = acked /\ stored' = stored /\ Proceed(w, {})
            /\ Blame(Events(w, req[w].new), IF Fresh(w) THEN "failed" ELSE "raced")
        BY <3>2 DEF LoseEvent, At, tables
      <4>2. PICK e \in Event : req[w].evs = <<e>>
        BY <4>1 DEF Knows
      <4>3. DOMAIN req[w].evs = {1} /\ req[w].evs[1] = e
        BY <4>2
      <4>4. req[w].new \subseteq {1}
        BY <4>1, <4>3 DEF Knows
      <4>5. CASE e \in stored
        BY <2>4, <4>1, <4>3, <4>5, Proceeds DEF Kept
      <4>6. CASE e \notin stored
        <5>1. req[w].new = {1} /\ Events(w, req[w].new) = {e}
          BY <4>1, <4>3, <4>4, <4>6 DEF Knows, Events
        <5>2. Fresh(w)
          BY <4>6, <5>1 DEF Fresh
        <5>3. "failed" \in why'[e]
          BY <4>1, <5>1, <5>2, BlameAdds DEF Reason
        <5> QED BY <2>4, <4>1, <4>3, <5>3, Proceeds DEF Kept
      <4> QED BY <4>5, <4>6
    <3>3. CASE FailBatch(w)
      BY <3>0, <3>3, IdleKnows DEF FailBatch, Idle
    <3>4. CASE HandOff(w)
      <4>1. /\ req[w].pc = "turn" /\ acked' = acked
            /\ req' = [req EXCEPT ![w].pc = "answer"]
        BY <3>4 DEF HandOff, At, Goto
      <4>2. /\ req[w].todo \in SUBSET Nat
            /\ req' = [req EXCEPT ![w].todo = req[w].todo, ![w].pc = "answer"]
        BY <4>1 DEF Request
      <4> QED BY <2>2, <2>4, <4>1, <4>2, MovesOn
    <3>5. CASE Answer(w) \/ NoAnswer(w)
      <4> DEFINE todo == req[w].todo \ {Now(w)}
      <4>1. /\ req[w].pc = "answer" /\ acked' = acked
            /\ req' = [req EXCEPT ![w].todo = todo, ![w].pc = TurnOrRespond(todo)]
        BY <3>5 DEF Answer, NoAnswer, At, NextTurn
      <4>2. todo \in SUBSET Nat /\ TurnOrRespond(todo) \in {"turn", "respond"}
        BY DEF Request, TurnOrRespond
      <4> HIDE DEF todo
      <4> QED BY <2>2, <2>4, <4>1, <4>2, MovesOn
    <3>6. CASE Respond(w)
      <4> DEFINE q == IF req[w].rows = {} THEN Idle
                      ELSE [Idle EXCEPT !.pc = "punct", !.rows = req[w].rows]
      <4>1. /\ req[w].pc = "respond" /\ stored' = stored /\ why' = why
            /\ acked' = acked \cup Events(w, DOMAIN req[w].evs)
            /\ req' = [req EXCEPT ![w] = q]
        BY <3>6 DEF Respond, At, tables
      <4>2. q \in Request /\ q.pc \in {"idle", "punct"}
        BY IdleKnows DEF Request, Idle
      <4> HIDE DEF q
      <4>3. Knows(q, stored', why')
        BY <4>2 DEF Knows
      <4>4. \A i \in DOMAIN req[w].evs : req[w].evs[i] \in Event
        BY DEF Request
      <4>5. \A e \in Events(w, DOMAIN req[w].evs) : e \in Event /\ Kept(e, stored', why')
        BY <4>1, <4>4 DEF Events, Knows
      <4> QED BY <2>0, <2>1, <2>2, <4>1, <4>2, <4>3, <4>5
    <3>7. CASE \/ \E e \in Event : GuardReads(w, e)
               \/ GuardWrites(w)
               \/ CommitPunct(w)
               \/ FailPunct(w)
      <4>1. \E q \in Request : /\ q.pc \in {"idle", "punct", "guard"}
                               /\ req' = [req EXCEPT ![w] = q]
        <5>1. CASE CommitPunct(w) \/ FailPunct(w)
          BY <5>1, IdleKnows DEF CommitPunct, FailPunct, Idle
        <5>2. CASE GuardWrites(w)
          <6>1. [req[w] EXCEPT !.pc = "punct"] \in Request
            BY DEF Request
          <6> QED BY <5>2, <6>1 DEF GuardWrites, Goto, Request
        <5>3. ASSUME NEW e \in Event, GuardReads(w, e)
              PROVE  \E q \in Request : /\ q.pc \in {"idle", "punct", "guard"}
                                        /\ req' = [req EXCEPT ![w] = q]
          <6> DEFINE p == [req[w] EXCEPT !.pc = "guard", !.rows = @ \ {e}, !.marked = @ \cup {e}]
                     r == [req[w] EXCEPT !.rows = @ \ {e}]
          <6>1. req[w].pc = "punct" /\ e \in req[w].rows
            BY <5>3 DEF GuardReads, At
          <6>2. p \in Request /\ p.pc = "guard" /\ r \in Request /\ r.pc = "punct"
            BY <6>1 DEF Request
          <6>3. req' = [req EXCEPT ![w] = p] \/ req' = [req EXCEPT ![w] = r]
            BY <5>3 DEF GuardReads
          <6> QED BY <6>2, <6>3
        <5> QED BY <3>7, <5>1, <5>2, <5>3
      <4>2. acked' = acked
        BY <3>7 DEF GuardReads, GuardWrites, CommitPunct, FailPunct
      <4> QED BY <3>0, <4>1, <4>2
    <3> QED BY <2>7, <3>1, <3>2, <3>3, <3>4, <3>5, <3>6, <3>7 DEF Step
  <2>8. CASE WindowEnds
    BY <2>8 DEF WindowEnds, tables
  <2>9. CASE Restart
    BY <2>0, <2>1, <2>9, IdleKnows DEF Restart
  <2> QED BY <2>3, <2>5, <2>6, <2>7, <2>8, <2>9 DEF Next
<1> QED BY <1>1, <1>2, PTL DEF Spec

\* An event that was answered 200 has its row, unless the database failed
\* while it was stored: a request acknowledges only what it, or an earlier
\* one, has stored, also when the index refused its own row.
THEOREM AckedStored == Spec => []AckedIsStored
<1>1. AckInv => AckedIsStored
  BY DEF AckInv, AckedIsStored, Kept
<1> QED BY <1>1, AcksCorrect, PTL

-----------------------------------------------------------------------------
(* The timeline.                                                           *)

\* Where an entry is in the timeline.
Pos(kind, e) == {i \in DOMAIN timeline : timeline[i] = Entry(kind, e)}

\* A final has one line when its event is stored, and none otherwise.
SaidInv ==
  \A e \in Said \cup Reply :
    /\ e \in stored => \E i : Pos("said", e) = {i}
    /\ e \notin stored => Pos("said", e) = {}

\* A transcript none of whose copies was lost is answered once, or is still to
\* be, once, if it is stored.
Clean(e) == why[e] \cap {"raced", "failed"} = {}
Pending(w, i, e) == i \in req[w].todo /\ req[w].evs[i] = e

OnceInv ==
  \A e \in Said : Clean(e) =>
    /\ \A i, j \in Pos("answer", e) : i = j
    /\ e \notin stored => Pos("answer", e) = {}
    /\ \A w \in Worker : \A i : Pending(w, i, e) => e \in stored /\ Pos("answer", e) = {}
    /\ \A w, v \in Worker : \A i, j : Pending(w, i, e) /\ Pending(v, j, e) => w = v /\ i = j

\* What a request is still to answer are transcripts of its own; it has one
\* while it takes turns.
WellFormed(q) ==
  /\ q.pc \in {"turn", "answer"} => q.todo # {}
  /\ q.new \subseteq DOMAIN q.evs
  /\ \A i \in q.todo : i \in DOMAIN q.evs /\ q.evs[i] \in Said

TimelineInv ==
  /\ timeline \in Seq(Line)
  /\ \A w \in Worker : WellFormed(req[w])
  /\ SaidInv
  /\ AnswersFollowWhatWasSaid
  /\ OnceInv

LEMMA LinesAreOfEvents ==
  ASSUME timeline \in Seq(Line)
  PROVE  \A i \in DOMAIN timeline : timeline[i] \in Line /\ timeline[i].of \in Event
<1> SUFFICES ASSUME NEW i \in DOMAIN timeline PROVE timeline[i] \in Line
  BY DEF Line
<1>1. DOMAIN timeline = 1 .. Len(timeline)
  BY LenProperties
<1> QED BY <1>1, ElementOfSeq

\* One line more.
LEMMA OneLine ==
  ASSUME timeline \in Seq(Line), NEW kind \in {"said", "handoff", "answer"}, NEW x \in Event,
         timeline' = Append(timeline, Entry(kind, x))
  PROVE  /\ timeline' \in Seq(Line)
         /\ Len(timeline) \in Nat /\ DOMAIN timeline = 1 .. Len(timeline)
         /\ DOMAIN timeline' = 1 .. Len(timeline) + 1
         /\ \A i \in DOMAIN timeline : timeline'[i] = timeline[i]
         /\ timeline'[Len(timeline) + 1] = Entry(kind, x)
         /\ \A k, e : k # kind \/ e # x => Pos(k, e)' = Pos(k, e)
         /\ Pos(kind, x)' = Pos(kind, x) \cup {Len(timeline) + 1}
<1>1. Entry(kind, x) \in Line
  BY DEF Entry, Line
<1>2. PICK n : n = Len(timeline) + 1
  OBVIOUS
<1>3. /\ timeline' \in Seq(Line)
      /\ Len(timeline) \in Nat /\ DOMAIN timeline = 1 .. Len(timeline)
      /\ DOMAIN timeline' = 1 .. n
      /\ \A i \in DOMAIN timeline : timeline'[i] = timeline[i]
      /\ timeline'[n] = Entry(kind, x)
  BY <1>1, <1>2, LenProperties, AppendProperties
<1>4. DOMAIN timeline' = DOMAIN timeline \cup {n}
  BY <1>2, <1>3
<1>5. \A k, e : Entry(k, e) = Entry(kind, x) <=> k = kind /\ e = x
  BY DEF Entry
<1>6. /\ \A k, e : k # kind \/ e # x => Pos(k, e)' = Pos(k, e)
      /\ Pos(kind, x)' = Pos(kind, x) \cup {n}
  BY <1>3, <1>4, <1>5 DEF Pos
<1> QED BY <1>2, <1>3, <1>6

\* The lines of the rows a request stores: one for each of its new finals.
LEMMA InsertLines ==
  ASSUME timeline \in Seq(Line), req \in [Worker -> Request], NEW w \in Worker,
         WellFormed(req[w]), Fresh(w), Insert(w)
  PROVE  /\ timeline' \in Seq(Line)
         /\ DOMAIN timeline \subseteq DOMAIN timeline'
         /\ \A i \in DOMAIN timeline : timeline'[i] = timeline[i]
         /\ \A i \in DOMAIN timeline' \ DOMAIN timeline : timeline'[i].kind = "said"
         /\ \A k, e : k # "said" => Pos(k, e)' = Pos(k, e)
         /\ \A e \in Said \cup Reply :
              IF e \in Events(w, req[w].new)
                THEN \E i : Pos("said", e)' = Pos("said", e) \cup {i}
                ELSE Pos("said", e)' = Pos("said", e)
<1>1. PICK F, evs, n : F = Finals(w, req[w].new) /\ evs = req[w].evs /\ n = Len(timeline)
  OBVIOUS
<1>2. PICK f \in InOrder(F) :
        timeline' = timeline \o [k \in DOMAIN f |-> Entry("said", evs[f[k]])]
  BY <1>1 DEF Insert
<1>3. evs \in Seq(Event) /\ F \subseteq DOMAIN evs
      /\ \A i \in F : i \in req[w].new /\ evs[i] \in Said \cup Reply /\ evs[i] \in Event
  BY <1>1, KindsOfEvents DEF Request, WellFormed, Finals
<1>4. IsFiniteSet(F) /\ Cardinality(F) \in Nat /\ F \subseteq Nat
  <2>1. DOMAIN evs = 1 .. Len(evs) /\ Len(evs) \in Nat
    BY <1>3, LenProperties
  <2>2. IsFiniteSet(1 .. Len(evs))
    BY <2>1, FS_Interval
  <2>3. F \in SUBSET (1 .. Len(evs))
    BY <1>3, <2>1
  <2>4. IsFiniteSet(F)
    BY <2>2, <2>3, FS_Subset
  <2>5. F \subseteq Nat
    BY <2>1, <2>3
  <2> QED BY <2>4, <2>5, FS_CardinalityType
<1>5. PICK m \in Nat : m = Cardinality(F)
  BY <1>4
<1>6. f \in [1 .. m -> F] /\ \A j, k \in 1 .. m : f[j] = f[k] => j = k
  <2>1. f \in [1 .. m -> F] /\ \A j, k \in 1 .. m : j < k => f[j] < f[k]
    BY <1>5 DEF InOrder
  <2>2. \A j, k \in 1 .. m : j = k \/ j < k \/ k < j
    OBVIOUS
  <2>3. \A j, k \in 1 .. m : f[j] \in Nat /\ f[k] \in Nat
    BY <1>4, <2>1
  <2> QED BY <2>1, <2>2, <2>3
<1>7. \A i \in F : \E k \in 1 .. m : f[k] = i
  <2>1. f \in Injection(1 .. m, F)
    BY <1>6 DEF Injection, IsInjective
  <2>2. IsFiniteSet(1 .. m) /\ Cardinality(1 .. m) = m
    BY FS_Interval
  <2>3. f \in Surjection(1 .. m, F)
    BY <1>4, <1>5, <2>1, <2>2, FS_Injection
  <2> QED BY <2>3 DEF Surjection
<1>8. PICK lines : lines = [k \in 1 .. m |-> Entry("said", evs[f[k]])]
  OBVIOUS
<1>9. lines \in Seq(Line) /\ Len(lines) = m
  <2>1. \A k \in 1 .. m : lines[k] \in Line
    BY <1>3, <1>6, <1>8 DEF Entry, Line
  <2>2. lines \in [1 .. m -> Line]
    BY <1>8, <2>1
  <2>3. lines \in Seq(Line)
    BY <2>2, SeqDef
  <2> QED BY <2>2, <2>3, LenProperties
<1>10. timeline' = timeline \o lines
  BY <1>2, <1>6, <1>8
<1>11. /\ timeline' \in Seq(Line)
       /\ n \in Nat /\ DOMAIN timeline = 1 .. n /\ DOMAIN timeline' = 1 .. n + m
       /\ \A i \in 1 .. n : timeline'[i] = timeline[i]
       /\ \A i \in n + 1 .. n + m : timeline'[i] = lines[i - n]
  BY <1>1, <1>9, <1>10, LenProperties, ConcatProperties
<1>12. \A i \in n + 1 .. n + m :
         /\ i - n \in 1 .. m
         /\ timeline'[i] = Entry("said", evs[f[i - n]])
  BY <1>8, <1>11
<1>13. \A i : i \in DOMAIN timeline' <=> i \in 1 .. n \/ i \in n + 1 .. n + m
  BY <1>11
<1>14. \A i \in DOMAIN timeline' \ DOMAIN timeline : timeline'[i].kind = "said"
  <2>1. \A x : Entry("said", x).kind = "said"
    BY DEF Entry
  <2>2. \A i \in DOMAIN timeline' \ DOMAIN timeline : i \in n + 1 .. n + m
    BY <1>11, <1>13
  <2> QED BY <1>12, <2>1, <2>2
<1>15. \A k, e : k # "said" => Pos(k, e)' = Pos(k, e)
  <2>1. \A k, e, x : k # "said" => Entry("said", x) # Entry(k, e)
    BY DEF Entry
  <2> QED BY <1>11, <1>12, <1>13, <2>1 DEF Pos
<1>16. ASSUME NEW e \in Said \cup Reply
       PROVE  IF e \in Events(w, req[w].new)
                THEN \E i : Pos("said", e)' = Pos("said", e) \cup {i}
                ELSE Pos("said", e)' = Pos("said", e)
  <2>1. \A x, y : Entry("said", x) = Entry("said", y) <=> x = y
    BY DEF Entry
  <2>2. CASE e \in Events(w, req[w].new)
    <3>1. PICK i \in F : evs[i] = e
      BY <1>1, <2>2 DEF Events, Finals
    <3>2. PICK k \in 1 .. m : f[k] = i
      BY <1>7
    <3>3. \A j \in F : evs[j] = e => j = i
      BY <1>1, <1>3, <3>1 DEF Fresh
    <3>4. \A j \in 1 .. m : evs[f[j]] = e => j = k
      BY <1>6, <3>2, <3>3
    <3>5. n + k \in n + 1 .. n + m /\ (n + k) - n = k
      BY <1>11
    <3>6. \A j \in n + 1 .. n + m : timeline'[j] = Entry("said", e) <=> j = n + k
      <4>1. \A j \in n + 1 .. n + m : j - n = k => j = n + k
        BY <1>11
      <4> QED BY <1>12, <2>1, <3>1, <3>2, <3>4, <3>5, <4>1
    <3>7. Pos("said", e)' = Pos("said", e) \cup {n + k}
      BY <1>11, <1>13, <3>5, <3>6 DEF Pos
    <3> QED BY <2>2, <3>7
  <2>3. CASE e \notin Events(w, req[w].new)
    <3>1. \A i \in F : evs[i] # e
      BY <1>1, <1>3, <2>3 DEF Events
    <3>2. \A j \in n + 1 .. n + m : timeline'[j] # Entry("said", e)
      BY <1>6, <1>12, <2>1, <3>1
    <3>3. Pos("said", e)' = Pos("said", e)
      BY <1>11, <1>13, <3>2 DEF Pos
    <3> QED BY <2>3, <3>3
  <2> QED BY <2>2, <2>3
<1>17. DOMAIN timeline \subseteq DOMAIN timeline'
  BY <1>11, <1>13
<1> QED BY <1>11, <1>14, <1>15, <1>16, <1>17

\* A request's turn is about one of the transcripts it is still to answer.
LEMMA NowIsPending ==
  ASSUME req \in [Worker -> Request], NEW w \in Worker, WellFormed(req[w]),
         req[w].pc \in {"turn", "answer"}
  PROVE  /\ Now(w) \in req[w].todo
         /\ Transcript(w) \in Said /\ Transcript(w) \in Event
<1>1. req[w].todo \subseteq Nat /\ req[w].todo # {}
  BY DEF Request, WellFormed
<1>2. PICK x \in req[w].todo : \A y \in req[w].todo : <<y, x>> \notin OpToRel(<, Nat)
  BY <1>1, NatLessThanWellFounded, WFMin
<1>3. \A y \in req[w].todo : x <= y
  <2> SUFFICES ASSUME NEW y \in req[w].todo PROVE x <= y
    OBVIOUS
  <2>1. x \in Nat /\ y \in Nat /\ ~ (y < x)
    BY <1>1, <1>2 DEF OpToRel
  <2> QED BY <2>1
<1>4. Now(w) \in req[w].todo
  BY <1>3 DEF Now
<1> QED BY <1>4, KindsOfEvents DEF Transcript, WellFormed

\* A step that writes no line and stores no row, and gives no request a
\* transcript to answer that it did not have.
LEMMA Quiet ==
  ASSUME TimelineInv, why \in [Event -> SUBSET Reason], UNCHANGED <<stored, timeline>>,
         \A e \in Event : why[e] \subseteq why'[e],
         \A v \in Worker : /\ WellFormed(req'[v])
                           /\ \A i \in req'[v].todo : i \in req[v].todo
                                                      /\ req'[v].evs[i] = req[v].evs[i]
  PROVE  TimelineInv'
<1>1. \A k, e : Pos(k, e)' = Pos(k, e)
  BY DEF Pos
<1>2. SaidInv'
  BY <1>1 DEF TimelineInv, SaidInv
<1>3. AnswersFollowWhatWasSaid'
  <2>1. \A i \in DOMAIN timeline : timeline[i].of \in Event
    BY LinesAreOfEvents DEF TimelineInv
  <2> QED BY <2>1 DEF TimelineInv, AnswersFollowWhatWasSaid
<1>4. OnceInv'
  <2>1. \A e \in Said : Clean(e)' => Clean(e)
    BY KindsOfEvents DEF Clean
  <2>2. \A v \in Worker : \A i, e : Pending(v, i, e)' => Pending(v, i, e)
    BY DEF Pending
  <2> QED BY <1>1, <2>1, <2>2 DEF TimelineInv, OnceInv
<1> QED BY <1>2, <1>3, <1>4 DEF TimelineInv

\* What a request is like when it goes on to its turns.
LEMMA ProceedsWell ==
  ASSUME req \in [Worker -> Request], NEW w \in Worker, WellFormed(req[w]),
         NEW rows, Proceed(w, rows)
  PROVE  /\ \A v \in Worker \ {w} : req'[v] = req[v]
         /\ req'[w].evs = req[w].evs
         /\ req'[w].todo = {i \in req[w].new : req[w].evs[i] \in Said}
         /\ WellFormed(req'[w])
<1> DEFINE todo == {i \in req[w].new : req[w].evs[i] \in Said}
           pc == TurnOrRespond(todo)
           q == [req[w] EXCEPT !.todo = todo, !.rows = rows \cap Said, !.new = {}, !.pc = pc]
<1>1. pc \in {"turn", "respond"} /\ (pc = "turn" => todo # {})
  BY DEF TurnOrRespond
<1>2. \A i \in todo : i \in DOMAIN req[w].evs /\ req[w].evs[i] \in Said
  BY DEF WellFormed
<1>3. req' = [req EXCEPT ![w] = q]
  BY DEF Proceed
<1> HIDE DEF todo, pc
<1>4. q.pc = pc /\ q.evs = req[w].evs /\ q.todo = todo /\ q.new = {}
  BY DEF Request
<1> HIDE DEF q
<1>5. WellFormed(q)
  BY <1>1, <1>2, <1>4 DEF WellFormed
<1> QED BY <1>3, <1>4, <1>5 DEF todo

\* The rows of a request stored, and their lines with them.
LEMMA StoreKeeps ==
  ASSUME TimelineInv, req \in [Worker -> Request], why' = why,
         NEW w \in Worker, Fresh(w), Insert(w), NEW rows, Proceed(w, rows)
  PROVE  TimelineInv'
<1>1. PICK E : E = Events(w, req[w].new)
  OBVIOUS
<1>2. /\ timeline' \in Seq(Line)
      /\ DOMAIN timeline \subseteq DOMAIN timeline'
      /\ \A i \in DOMAIN timeline : timeline'[i] = timeline[i]
      /\ \A i \in DOMAIN timeline' \ DOMAIN timeline : timeline'[i].kind = "said"
      /\ \A k, e : k # "said" => Pos(k, e)' = Pos(k, e)
      /\ \A e \in Said \cup Reply :
           IF e \in E THEN \E i : Pos("said", e)' = Pos("said", e) \cup {i}
                      ELSE Pos("said", e)' = Pos("said", e)
  BY <1>1, InsertLines DEF TimelineInv
<1>3. /\ \A v \in Worker \ {w} : req'[v] = req[v]
      /\ req'[w].evs = req[w].evs
      /\ req'[w].todo = {i \in req[w].new : req[w].evs[i] \in Said}
      /\ WellFormed(req'[w])
  BY ProceedsWell DEF TimelineInv
<1>4. stored' = stored \cup E /\ E \cap stored = {}
      /\ \A i, j \in req[w].new : req[w].evs[i] = req[w].evs[j] => i = j
  BY <1>1 DEF Insert, Fresh
<1>5. SaidInv'
  BY <1>2, <1>4 DEF TimelineInv, SaidInv
<1>6. AnswersFollowWhatWasSaid'
  <2> SUFFICES ASSUME NEW i \in DOMAIN timeline', timeline'[i].kind # "said",
                      "failed" \notin why[timeline'[i].of]
               PROVE  \E j \in 1 .. i : timeline'[j] = Entry("said", timeline'[i].of)
    BY DEF AnswersFollowWhatWasSaid, Entry
  <2>1. i \in DOMAIN timeline /\ timeline'[i] = timeline[i]
    BY <1>2
  <2>2. DOMAIN timeline = 1 .. Len(timeline) /\ Len(timeline) \in Nat
    BY LenProperties DEF TimelineInv
  <2>3. PICK j \in 1 .. i : timeline[j] = Entry("said", timeline[i].of)
    BY <2>1 DEF TimelineInv, AnswersFollowWhatWasSaid
  <2>4. j \in DOMAIN timeline
    BY <2>1, <2>2
  <2> QED BY <1>2, <2>1, <2>3, <2>4
<1>7. OnceInv'
  <2>1. \A v \in Worker \ {w} : \A i, e : Pending(v, i, e)' <=> Pending(v, i, e)
    BY <1>3 DEF Pending
  <2>2. \A i, e : Pending(w, i, e)' => e \in E /\ i \in req[w].new /\ req[w].evs[i] = e
    BY <1>1, <1>3 DEF Pending, Events
  <2> SUFFICES ASSUME NEW e \in Said, Clean(e)
               PROVE  /\ \A i, j \in Pos("answer", e) : i = j
                      /\ e \notin stored' => Pos("answer", e) = {}
                      /\ \A v \in Worker : \A i : Pending(v, i, e)' =>
                           e \in stored' /\ Pos("answer", e) = {}
                      /\ \A u, v \in Worker : \A i, j :
                           Pending(u, i, e)' /\ Pending(v, j, e)' => u = v /\ i = j
    BY <1>2 DEF OnceInv, Clean
  <2>3. /\ \A i, j \in Pos("answer", e) : i = j
        /\ e \notin stored => Pos("answer", e) = {}
        /\ \A v \in Worker : \A i : Pending(v, i, e) => e \in stored /\ Pos("answer", e) = {}
        /\ \A u, v \in Worker : \A i, j : Pending(u, i, e) /\ Pending(v, j, e) => u = v /\ i = j
    BY DEF TimelineInv, OnceInv
  <2>4. CASE e \in E
    BY <1>4, <2>1, <2>2, <2>3, <2>4
  <2>5. CASE e \notin E
    BY <1>4, <2>1, <2>2, <2>3, <2>5
  <2> QED BY <2>4, <2>5
<1>8. \A v \in Worker : WellFormed(req'[v])
  BY <1>3 DEF TimelineInv
<1> QED BY <1>2, <1>5, <1>6, <1>7, <1>8 DEF TimelineInv

\* A row lost: the request goes on with a transcript that is no longer clean.
LEMMA LoseKeeps ==
  ASSUME TimelineInv, req \in [Worker -> Request], why \in [Event -> SUBSET Reason],
         NEW w \in Worker, LoseEvent(w)
  PROVE  TimelineInv'
<1>1. PICK E : E = Events(w, req[w].new)
  OBVIOUS
<1>2. /\ UNCHANGED <<stored, timeline>>
      /\ \E r \in {"failed", "raced"} : Blame(E, r)
      /\ Proceed(w, {})
  BY <1>1 DEF LoseEvent, tables
<1>3. /\ \A e \in Event : why[e] \subseteq why'[e]
      /\ \A e \in E \cap Event : why'[e] \cap {"raced", "failed"} # {}
  BY <1>2, BlameAdds DEF Reason
<1>4. /\ \A v \in Worker \ {w} : req'[v] = req[v]
      /\ req'[w].evs = req[w].evs
      /\ req'[w].todo = {i \in req[w].new : req[w].evs[i] \in Said}
      /\ WellFormed(req'[w])
  BY <1>2, ProceedsWell DEF TimelineInv
<1>5. \A k, e : Pos(k, e)' = Pos(k, e)
  BY <1>2 DEF Pos
<1>6. SaidInv'
  BY <1>2, <1>5 DEF TimelineInv, SaidInv
<1>7. AnswersFollowWhatWasSaid'
  <2>1. \A i \in DOMAIN timeline : timeline[i].of \in Event
    BY LinesAreOfEvents DEF TimelineInv
  <2> QED BY <1>2, <1>3, <2>1 DEF TimelineInv, AnswersFollowWhatWasSaid
<1>8. OnceInv'
  <2>1. \A v \in Worker \ {w} : \A i, e : Pending(v, i, e)' <=> Pending(v, i, e)
    BY <1>4 DEF Pending
  <2>2. \A i, e : Pending(w, i, e)' => e \in E
    BY <1>1, <1>4 DEF Pending, Events
  <2>3. \A e \in Said : Clean(e)' => Clean(e) /\ e \notin E
    BY <1>3, KindsOfEvents DEF Clean
  <2>4. \A e \in Said : Clean(e)' => \A v \in Worker : \A i : Pending(v, i, e)' => Pending(v, i, e)
    BY <2>1, <2>2, <2>3
  <2> QED BY <1>2, <1>5, <2>3, <2>4 DEF TimelineInv, OnceInv
<1>9. \A v \in Worker : WellFormed(req'[v])
  BY <1>4 DEF TimelineInv
<1> QED BY <1>2, <1>6, <1>7, <1>8, <1>9 DEF TimelineInv

\* A line the agents write about a transcript whose turn it is comes after
\* the line of the transcript itself.
LEMMA AgentLine ==
  ASSUME TimelineInv, AckInv, NEW w \in Worker, req[w].pc \in {"turn", "answer"},
         NEW kind \in {"handoff", "answer"},
         timeline' = Append(timeline, Entry(kind, Transcript(w))),
         UNCHANGED <<stored, why>>
  PROVE  /\ timeline' \in Seq(Line)
         /\ SaidInv' /\ AnswersFollowWhatWasSaid'
         /\ \A e : kind # "answer" \/ e # Transcript(w) => Pos("answer", e)' = Pos("answer", e)
         /\ kind = "answer" => \E i : \A e : e = Transcript(w) =>
              Pos("answer", e)' = Pos("answer", e) \cup {i}
<1>1. PICK x, n : x = Transcript(w) /\ n = Len(timeline) + 1
  OBVIOUS
<1>2. /\ x \in Said /\ x \in Event
      /\ \E i \in DOMAIN req[w].evs : req[w].evs[i] = x
  BY <1>1, NowIsPending DEF TimelineInv, AckInv, Transcript, WellFormed
<1>3. /\ timeline' \in Seq(Line)
      /\ Len(timeline) \in Nat /\ DOMAIN timeline = 1 .. Len(timeline)
      /\ DOMAIN timeline' = 1 .. n
      /\ \A i \in DOMAIN timeline : timeline'[i] = timeline[i]
      /\ timeline'[n] = Entry(kind, x)
      /\ \A k, e : k # kind \/ e # x => Pos(k, e)' = Pos(k, e)
      /\ Pos(kind, x)' = Pos(kind, x) \cup {n}
  BY <1>1, <1>2, OneLine DEF TimelineInv
<1>4. SaidInv'
  BY <1>3 DEF TimelineInv, SaidInv
<1>5. AnswersFollowWhatWasSaid'
  <2> SUFFICES ASSUME NEW i \in 1 .. n, timeline'[i].kind # "said",
                      "failed" \notin why[timeline'[i].of]
               PROVE  \E j \in 1 .. i : timeline'[j] = Entry("said", timeline'[i].of)
    BY <1>3 DEF AnswersFollowWhatWasSaid, Entry
  <2>1. CASE i \in DOMAIN timeline
    <3>1. timeline'[i] = timeline[i]
      BY <1>3, <2>1
    <3>2. PICK j \in 1 .. i : timeline[j] = Entry("said", timeline[i].of)
      BY <2>1, <3>1 DEF TimelineInv, AnswersFollowWhatWasSaid
    <3>3. j \in DOMAIN timeline
      BY <1>3, <2>1
    <3> QED BY <1>3, <3>1, <3>2, <3>3
  <2>2. CASE i \notin DOMAIN timeline
    <3>1. i = n
      BY <1>1, <1>3, <2>2
    <3>2. timeline'[i].of = x
      BY <1>3, <3>1 DEF Entry
    <3>3. x \in stored
      BY <1>2, <3>2 DEF AckInv, Knows, Kept
    <3>4. PICK j : j \in Pos("said", x)
      BY <1>2, <3>3 DEF TimelineInv, SaidInv
    <3>5. j \in DOMAIN timeline /\ timeline'[j] = Entry("said", x)
      BY <1>3, <3>4 DEF Pos
    <3>6. j \in 1 .. i
      BY <1>1, <1>3, <3>1, <3>5
    <3> QED BY <3>2, <3>5, <3>6
  <2> QED BY <2>1, <2>2
<1> QED BY <1>1, <1>3, <1>4, <1>5

\* A turn announced.
LEMMA HandOffKeeps ==
  ASSUME TimelineInv, AckInv, NEW w \in Worker, HandOff(w)
  PROVE  TimelineInv'
<1>1. /\ req[w].pc = "turn" /\ UNCHANGED <<stored, why>>
      /\ \A v \in Worker : /\ req'[v].todo = req[v].todo /\ req'[v].evs = req[v].evs
                           /\ req'[v].new = req[v].new
                           /\ (req'[v].pc = req[v].pc \/ v = w)
  BY DEF HandOff, At, Goto, AckInv, Request
<1>2. \A v \in Worker : WellFormed(req'[v])
  BY <1>1 DEF TimelineInv, WellFormed
<1>3. CASE timeline' = timeline
  BY <1>1, <1>2, <1>3, Quiet DEF AckInv
<1>4. CASE timeline' = Append(timeline, Entry("handoff", Transcript(w)))
  <2>1. /\ timeline' \in Seq(Line)
        /\ SaidInv' /\ AnswersFollowWhatWasSaid'
        /\ \A e : Pos("answer", e)' = Pos("answer", e)
    BY <1>1, <1>4, AgentLine
  <2>2. \A v \in Worker : \A i, e : Pending(v, i, e)' <=> Pending(v, i, e)
    BY <1>1 DEF Pending
  <2>3. OnceInv'
    BY <1>1, <2>1, <2>2 DEF TimelineInv, OnceInv, Clean
  <2> QED BY <1>2, <2>1, <2>3 DEF TimelineInv
<1> QED BY <1>3, <1>4 DEF HandOff

\* A turn over: the request is well-formed and has one transcript less to
\* answer.
LEMMA TurnOver ==
  ASSUME TimelineInv, AckInv, NEW w \in Worker, req[w].pc = "answer", NextTurn(w)
  PROVE  /\ \A v \in Worker : WellFormed(req'[v]) /\ req'[v].evs = req[v].evs
         /\ \A v \in Worker \ {w} : req'[v] = req[v]
         /\ req'[w].todo = req[w].todo \ {Now(w)}
<1>1. PICK todo : todo = req[w].todo \ {Now(w)}
  OBVIOUS
<1>2. PICK q : q = [req[w] EXCEPT !.todo = todo, !.pc = TurnOrRespond(todo)]
  OBVIOUS
<1>3. req' = [req EXCEPT ![w] = q]
  BY <1>1, <1>2 DEF NextTurn
<1>4. q.evs = req[w].evs /\ q.new = req[w].new /\ q.todo = todo /\ q.pc = TurnOrRespond(todo)
  BY <1>2 DEF AckInv, Request
<1>5. WellFormed(q)
  BY <1>1, <1>4 DEF TimelineInv, WellFormed, TurnOrRespond
<1> QED BY <1>1, <1>3, <1>4, <1>5 DEF AckInv, TimelineInv

\* A turn answered.
LEMMA AnswerKeeps ==
  ASSUME TimelineInv, AckInv, NEW w \in Worker, Answer(w)
  PROVE  TimelineInv'
<1>1. /\ req[w].pc = "answer" /\ UNCHANGED <<stored, why>>
      /\ timeline' = Append(timeline, Entry("answer", Transcript(w)))
      /\ NextTurn(w)
  BY DEF Answer, At
<1>2. PICK x, n : x = Transcript(w) /\ n = Now(w)
  OBVIOUS
<1>3. x \in Said /\ Pending(w, n, x)
  BY <1>1, <1>2, NowIsPending DEF TimelineInv, AckInv, Transcript, Pending
<1>4. /\ timeline' \in Seq(Line)
      /\ SaidInv' /\ AnswersFollowWhatWasSaid'
      /\ \A e : e # x => Pos("answer", e)' = Pos("answer", e)
      /\ \E i : Pos("answer", x)' = Pos("answer", x) \cup {i}
  BY <1>1, <1>2, AgentLine
<1>5. /\ \A v \in Worker : WellFormed(req'[v]) /\ req'[v].evs = req[v].evs
      /\ \A v \in Worker \ {w} : req'[v] = req[v]
      /\ req'[w].todo = req[w].todo \ {n}
  BY <1>1, <1>2, TurnOver
<1>6. /\ \A v \in Worker : \A i, e : Pending(v, i, e)' => Pending(v, i, e)
      /\ \A e : ~ Pending(w, n, e)'
  BY <1>5 DEF Pending
<1>7. OnceInv'
  <2> SUFFICES ASSUME NEW e \in Said, Clean(e)
               PROVE  /\ \A i, j \in Pos("answer", e)' : i = j
                      /\ e \notin stored => Pos("answer", e)' = {}
                      /\ \A v \in Worker : \A i : Pending(v, i, e)' =>
                           e \in stored /\ Pos("answer", e)' = {}
                      /\ \A u, v \in Worker : \A i, j :
                           Pending(u, i, e)' /\ Pending(v, j, e)' => u = v /\ i = j
    BY <1>1 DEF OnceInv, Clean
  <2>1. /\ \A i, j \in Pos("answer", e) : i = j
        /\ e \notin stored => Pos("answer", e) = {}
        /\ \A v \in Worker : \A i : Pending(v, i, e) => e \in stored /\ Pos("answer", e) = {}
        /\ \A u, v \in Worker : \A i, j : Pending(u, i, e) /\ Pending(v, j, e) => u = v /\ i = j
    BY DEF TimelineInv, OnceInv
  <2>2. CASE e # x
    BY <1>4, <1>6, <2>1, <2>2
  <2>3. CASE e = x
    <3>1. e \in stored /\ Pos("answer", e) = {}
      BY <1>3, <2>1, <2>3
    <3>2. \A v \in Worker : \A i : ~ Pending(v, i, e)'
      BY <1>3, <1>6, <2>1, <2>3
    <3> QED BY <1>4, <2>3, <3>1, <3>2
  <2> QED BY <2>2, <2>3
<1> QED BY <1>4, <1>5, <1>7 DEF TimelineInv

\* A request just opened has nothing to answer yet.
LEMMA OpensWell ==
  ASSUME req \in [Worker -> Request], NEW w \in Worker, NEW pc \in {"event", "batch"},
         NEW evs \in Seq(Event), Open(w, pc, evs)
  PROVE  /\ \A v \in Worker \ {w} : req'[v] = req[v]
         /\ req'[w].todo = {} /\ WellFormed(req'[w])
<1> DEFINE new == {i \in DOMAIN evs : evs[i] \notin stored}
           q == [Idle EXCEPT !.pc = pc, !.evs = evs, !.new = new]
<1>1. new \subseteq DOMAIN evs
  OBVIOUS
<1>2. req' = [req EXCEPT ![w] = q]
  BY DEF Open
<1> HIDE DEF new
<1>3. q.pc = pc /\ q.evs = evs /\ q.new = new /\ q.todo = {}
  BY DEF Idle
<1> HIDE DEF q
<1>4. WellFormed(q)
  BY <1>1, <1>3 DEF WellFormed
<1> QED BY <1>2, <1>3, <1>4

\* A thread with nothing to answer is well-formed.
LEMMA IdleWell ==
  /\ Idle.todo = {} /\ WellFormed(Idle)
  /\ \A rows : LET q == [Idle EXCEPT !.pc = "punct", !.rows = rows]
              IN  q.todo = {} /\ WellFormed(q)
  BY DEF Idle, WellFormed
-----------------------------------------------------------------------------
\* The timeline has what was said, once, and what the agents said about it,
\* after it and once, but for what was lost.
THEOREM TimelineCorrect == Spec => []TimelineInv
<1>1. Init => TimelineInv
  <2> SUFFICES ASSUME Init PROVE TimelineInv
    OBVIOUS
  <2>1. \A k, e : Pos(k, e) = {}
    BY DEF Init, Pos
  <2>2. timeline \in Seq(Line) /\ \A v \in Worker : WellFormed(req[v]) /\ req[v].todo = {}
    <3>1. << >> \in Seq(Line)
      OBVIOUS
    <3>2. timeline = << >> /\ \A v \in Worker : req[v] = Idle
      BY DEF Init
    <3> QED BY <3>1, <3>2, IdleWell
  <2>3. SaidInv /\ OnceInv
    BY <2>1, <2>2 DEF Init, SaidInv, OnceInv, Pending
  <2>4. AnswersFollowWhatWasSaid
    BY DEF Init, AnswersFollowWhatWasSaid
  <2> QED BY <2>2, <2>3, <2>4 DEF TimelineInv
<1>2. TimelineInv /\ AckInv /\ [Next]_vars => TimelineInv'
  <2> SUFFICES ASSUME TimelineInv, AckInv, [Next]_vars PROVE TimelineInv'
    OBVIOUS
  <2>0. /\ req \in [Worker -> Request] /\ why \in [Event -> SUBSET Reason]
        /\ \A e \in Event : why[e] \subseteq why'[e]
        /\ \A v \in Worker : WellFormed(req[v])
    BY OnlyAdded DEF AckInv, TimelineInv
  <2>1. ASSUME UNCHANGED <<stored, timeline, req>> PROVE TimelineInv'
    BY <2>0, <2>1, Quiet
  \* One request changes, and is left with nothing to answer that it had not.
  <2>2. ASSUME NEW w \in Worker, UNCHANGED <<stored, timeline>>,
               \A v \in Worker \ {w} : req'[v] = req[v], WellFormed(req'[w]),
               \A i \in req'[w].todo : i \in req[w].todo /\ req'[w].evs[i] = req[w].evs[i]
        PROVE  TimelineInv'
    <3> \A v \in Worker : /\ WellFormed(req'[v])
                          /\ \A i \in req'[v].todo : i \in req[v].todo
                                                     /\ req'[v].evs[i] = req[v].evs[i]
      BY <2>0, <2>2
    <3> QED BY <2>0, <2>2, Quiet
  <2>3. CASE UNCHANGED vars
    BY <2>1, <2>3 DEF vars
  <2>4. ASSUME NEW w \in Worker, NEW e \in Event, ReceiveEvent(w, e) PROVE TimelineInv'
    <3>1. UNCHANGED <<stored, timeline>>
      BY <2>4 DEF ReceiveEvent, tables
    <3>2. CASE Open(w, "event", <<e>>)
      <4>1. <<e>> \in Seq(Event)
        OBVIOUS
      <4> QED BY <2>0, <2>2, <3>1, <3>2, <4>1, OpensWell
    <3> QED BY <2>1, <2>4, <3>1, <3>2 DEF ReceiveEvent
  <2>5. ASSUME NEW w \in Worker, NEW d \in Event, NEW e \in Event, ReceiveBatch(w, <<d, e>>)
        PROVE  TimelineInv'
    <3>1. UNCHANGED <<stored, timeline>> /\ Open(w, "batch", <<d, e>>)
      BY <2>5 DEF ReceiveBatch, tables
    <3>2. <<d, e>> \in Seq(Event)
      OBVIOUS
    <3> QED BY <2>0, <2>2, <3>1, <3>2, OpensWell
  <2>6. ASSUME NEW w \in Worker, Step(w) PROVE TimelineInv'
    <3>1. CASE StoreEvent(w) \/ StoreBatch(w)
      <4>1. Fresh(w) /\ Insert(w) /\ Proceed(w, Events(w, req[w].new)) /\ why' = why
        BY <3>1 DEF StoreEvent, StoreBatch
      <4> QED BY <2>0, <4>1, StoreKeeps
    <3>2. CASE LoseEvent(w)
      BY <2>0, <3>2, LoseKeeps
    <3>3. CASE HandOff(w)
      BY <3>3, HandOffKeeps
    <3>4. CASE Answer(w)
      BY <3>4, AnswerKeeps
    <3>5. CASE NoAnswer(w)
      <4>1. req[w].pc = "answer" /\ NextTurn(w) /\ UNCHANGED <<stored, timeline>>
        BY <3>5 DEF NoAnswer, At, tables
      <4>2. /\ \A v \in Worker \ {w} : req'[v] = req[v]
            /\ WellFormed(req'[w]) /\ req'[w].evs = req[w].evs
            /\ req'[w].todo \subseteq req[w].todo
        BY <4>1, TurnOver
      <4> QED BY <2>2, <4>1, <4>2
    <3>6. CASE FailBatch(w) \/ Respond(w) \/ CommitPunct(w) \/ FailPunct(w)
      <4>1. UNCHANGED <<stored, timeline>>
        BY <3>6 DEF FailBatch, Respond, CommitPunct, FailPunct, tables
      <4>2. \E q : q.todo = {} /\ WellFormed(q) /\ req' = [req EXCEPT ![w] = q]
        BY <3>6, IdleWell DEF FailBatch, Respond, CommitPunct, FailPunct
      <4> QED BY <2>0, <2>2, <4>1, <4>2
    <3>7. CASE GuardWrites(w) \/ \E e \in Event : GuardReads(w, e)
      <4>1. UNCHANGED <<stored, timeline>>
        BY <3>7 DEF GuardWrites, GuardReads, tables
      <4>2. /\ \A v \in Worker \ {w} : req'[v] = req[v]
            /\ req'[w].evs = req[w].evs /\ req'[w].new = req[w].new
            /\ req'[w].todo = req[w].todo
            /\ req'[w].pc \notin {"turn", "answer"}
        <5>0. req[w] \in Request
          BY <2>0
        <5>1. CASE GuardWrites(w)
          BY <2>0, <5>0, <5>1 DEF GuardWrites, Goto, Request
        <5>2. ASSUME NEW e \in Event, GuardReads(w, e)
              PROVE  \E q : /\ q.evs = req[w].evs /\ q.new = req[w].new /\ q.todo = req[w].todo
                            /\ q.pc \notin {"turn", "answer"}
                            /\ req' = [req EXCEPT ![w] = q]
          <6> DEFINE p == [req[w] EXCEPT !.pc = "guard", !.rows = @ \ {e}, !.marked = @ \cup {e}]
                     r == [req[w] EXCEPT !.rows = @ \ {e}]
          <6>1. /\ p.evs = req[w].evs /\ p.new = req[w].new /\ p.todo = req[w].todo
                /\ p.pc \notin {"turn", "answer"}
            BY <5>0 DEF Request
          <6>2. /\ r.evs = req[w].evs /\ r.new = req[w].new /\ r.todo = req[w].todo
                /\ r.pc \notin {"turn", "answer"}
            BY <5>0, <5>2 DEF Request, GuardReads, At
          <6>3. req' = [req EXCEPT ![w] = p] \/ req' = [req EXCEPT ![w] = r]
            BY <5>2 DEF GuardReads
          <6> QED BY <6>1, <6>2, <6>3
        <5> QED BY <2>0, <3>7, <5>1, <5>2
      <4>3. WellFormed(req'[w])
        BY <2>0, <4>2 DEF WellFormed
      <4> QED BY <2>2, <4>1, <4>2, <4>3
    <3> QED BY <2>6, <3>1, <3>2, <3>3, <3>4, <3>5, <3>6, <3>7 DEF Step
  <2>7. CASE WindowEnds
    BY <2>1, <2>7 DEF WindowEnds, tables
  <2>8. CASE Restart
    <3>1. /\ UNCHANGED <<stored, timeline>>
          /\ \A v \in Worker : WellFormed(req'[v]) /\ req'[v].todo = {}
      BY <2>8, IdleWell DEF Restart, tables
    <3> QED BY <2>0, <3>1, Quiet
  <2> QED BY <2>3, <2>4, <2>5, <2>6, <2>7, <2>8 DEF Next
<1> QED BY <1>1, <1>2, AcksCorrect, PTL DEF Spec

\* A final is not in the timeline twice, and is there only if its event is
\* stored (realtime_event, realtime_events_batch).
THEOREM NoLineTwiceHolds == Spec => []NoLineTwice
<1>1. TimelineInv => NoLineTwice
  <2> SUFFICES ASSUME TimelineInv, NEW e \in Said \cup Reply
               PROVE  Entries("said", e) = IF e \in stored THEN 1 ELSE 0
    BY DEF NoLineTwice
  <2>1. Entries("said", e) = Cardinality(Pos("said", e))
    BY DEF Entries, Pos
  <2>2. CASE e \in stored
    <3>1. PICK i : Pos("said", e) = {i}
      BY <2>2 DEF TimelineInv, SaidInv
    <3>2. Cardinality({i}) = 1
      BY FS_Singleton
    <3> QED BY <2>1, <2>2, <3>1, <3>2
  <2>3. CASE e \notin stored
    <3>1. Pos("said", e) = {}
      BY <2>3 DEF TimelineInv, SaidInv
    <3> QED BY <2>1, <2>3, <3>1, FS_EmptySet
  <2> QED BY <2>2, <2>3
<1> QED BY <1>1, TimelineCorrect, PTL

\* What the agents say about a transcript comes after it in the timeline,
\* unless the database failed while the transcript was stored.
THEOREM AnswersFollow == Spec => []AnswersFollowWhatWasSaid
<1>1. TimelineInv => AnswersFollowWhatWasSaid
  BY DEF TimelineInv
<1> QED BY <1>1, TimelineCorrect, PTL

\* A transcript is answered a second time only if the insert of one of its
\* copies was lost and the handler went on without it.
THEOREM AnsweredOnceUnlessLost == Spec => []AnsweredAgainOnlyAfterLostInsert
<1>1. TimelineInv => AnsweredAgainOnlyAfterLostInsert
  <2> SUFFICES ASSUME TimelineInv, NEW e \in Said, Entries("answer", e) > 1,
                      why[e] \cap {"raced", "failed"} = {}
               PROVE  FALSE
    BY DEF AnsweredAgainOnlyAfterLostInsert
  <2>1. Entries("answer", e) = Cardinality(Pos("answer", e))
    BY DEF Entries, Pos
  <2>2. \A i, j \in Pos("answer", e) : i = j
    BY DEF TimelineInv, OnceInv, Clean
  <2>3. CASE Pos("answer", e) = {}
    <3>1. Entries("answer", e) = 0
      BY <2>1, <2>3, FS_EmptySet
    <3> QED BY <3>1
  <2>4. ASSUME NEW i \in Pos("answer", e) PROVE FALSE
    <3>1. Pos("answer", e) = {i}
      BY <2>2
    <3>2. Cardinality({i}) = 1
      BY FS_Singleton
    <3>3. Entries("answer", e) = 1
      BY <2>1, <3>1, <3>2
    <3> QED BY <3>3
  <2> QED BY <2>3, <2>4
<1> QED BY <1>1, TimelineCorrect, PTL

\* The variables the invariants above leave out.
RestInv ==
  /\ stored \subseteq Event
  /\ punct \subseteq Said
  /\ guarded \in BOOLEAN
  /\ sends \in 0 .. MaxSends
  /\ crashes \in 0 .. MaxCrashes

\* Every state has the types TypeOK gives.
THEOREM TypeCorrect == Spec => []TypeOK
<1>0. MaxSends \in Nat /\ MaxCrashes \in Nat
  BY RealtimeBounds
<1>1. Init => RestInv
  <2> SUFFICES ASSUME Init PROVE RestInv
    OBVIOUS
  <2>1. guarded \in BOOLEAN
    BY ZenonT(10) DEF Init
  <2>2. stored = {} /\ punct = {} /\ sends = 0 /\ crashes = 0
    BY DEF Init
  <2> QED BY <1>0, <2>1, <2>2 DEF RestInv
<1>2. RestInv /\ AckInv /\ TimelineInv /\ [Next]_vars => RestInv'
  <2> SUFFICES ASSUME RestInv, AckInv, TimelineInv, [Next]_vars PROVE RestInv'
    OBVIOUS
  <2> USE DEF RestInv
  <2>1. CASE UNCHANGED vars
    BY <2>1 DEF vars
  <2>2. ASSUME NEW w \in Worker,
               (\E e \in Event : ReceiveEvent(w, e))
                  \/ \E d, e \in Event : ReceiveBatch(w, <<d, e>>)
        PROVE  RestInv'
    <3>1. UNCHANGED <<tables, guarded, crashes>> /\ sends < MaxSends /\ sends' = sends + 1
      BY <2>2 DEF ReceiveEvent, ReceiveBatch, Send
    <3> QED BY <1>0, <3>1 DEF tables
  <2>3. ASSUME NEW w \in Worker, Step(w) PROVE RestInv'
    <3>1. req[w] \in Request /\ WellFormed(req[w])
      BY DEF AckInv, TimelineInv
    <3>2. CASE StoreEvent(w) \/ StoreBatch(w)
      <4>1. \A i \in req[w].new : req[w].evs[i] \in Event
        BY <3>1 DEF Request, WellFormed
      <4>2. /\ stored' = stored \cup Events(w, req[w].new)
            /\ UNCHANGED <<punct, guarded, sends, crashes>>
        BY <3>2 DEF StoreEvent, StoreBatch, Insert
      <4> QED BY <4>1, <4>2 DEF Events
    <3>3. CASE CommitPunct(w)
      <4>1. req[w].marked \subseteq Said
        BY <3>1 DEF Request
      <4> QED BY <3>3, <4>1 DEF CommitPunct
    <3>4. CASE GuardWrites(w)
      BY <3>4 DEF GuardWrites, tables
    <3>5. CASE \/ LoseEvent(w) \/ FailBatch(w) \/ HandOff(w) \/ Answer(w) \/ NoAnswer(w)
               \/ Respond(w) \/ FailPunct(w) \/ \E e \in Event : GuardReads(w, e)
      BY <3>5 DEF LoseEvent, FailBatch, HandOff, Answer, NoAnswer, Respond, FailPunct,
                  GuardReads, tables
    <3> QED BY <2>3, <3>2, <3>3, <3>4, <3>5 DEF Step
  <2>4. CASE WindowEnds
    BY <2>4 DEF WindowEnds, tables
  <2>5. CASE Restart
    <3>1. /\ UNCHANGED <<stored, punct, sends>>
          /\ crashes < MaxCrashes /\ crashes' = crashes + 1
      BY <2>5 DEF Restart, tables
    <3>2. guarded' = FALSE
      BY <2>5 DEF Restart
    <3>3. guarded' \in BOOLEAN
      BY <3>2, ZenonT(10)
    <3> QED BY <1>0, <3>1, <3>3
  <2> QED BY <2>1, <2>2, <2>3, <2>4, <2>5 DEF Next
<1>3. RestInv /\ AckInv /\ TimelineInv => TypeOK
  BY DEF RestInv, AckInv, TimelineInv, WellFormed, TypeOK
<1> QED BY <1>1, <1>2, <1>3, AcksCorrect, TimelineCorrect, PTL DEF Spec
=============================================================================
