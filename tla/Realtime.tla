------------------------------ MODULE Realtime ------------------------------
(* Events of one realtime voice session: POST /api/realtime/event and      *)
(* /api/realtime/events:batch store what was said, run the session's       *)
(* agents on each final transcript of the user, and leave the finals to a  *)
(* background task that punctuates them.                                   *)
(*                                                                         *)
(* The handlers are plain functions, so each request runs in a worker      *)
(* thread of its own; the tables are shared.  One step of the model is     *)
(* what a request does up to its next commit, or to the next read that     *)
(* another thread can make stale.  Every event carries a client_event_id   *)
(* and a text, and the session has a host agent.                           *)
EXTENDS FiniteSets, Integers, Sequences

CONSTANTS
  Event,       \* client_event_ids the client uses
  Said,        \* those of final transcripts of the user
  Reply,       \* those of final responses; the others are deltas
  Worker,      \* worker threads of the server
  MaxSends,    \* bound: requests the client sends
  MaxCrashes   \* bound: restarts of the server

ASSUME KindsOfEvents == Said \subseteq Event /\ Reply \subseteq Event /\ Said \cap Reply = {}
ASSUME RealtimeBounds == {MaxSends, MaxCrashes} \subseteq Nat

VARIABLES
  stored,    \* events with a row in realtime_events
  timeline,  \* rows of table messages of the thread, in commit order
  punct,     \* events whose row has a transcript_punct
  guarded,   \* the duplication guard has a commit in its window
  req,       \* req[w]: the request that thread w serves
  acked,     \* events in a request that was answered 200
  why,       \* history: why[e]: what went wrong for e
  sends,     \* history: requests sent
  crashes    \* history: restarts

tables == <<stored, timeline, punct>>
vars == <<stored, timeline, punct, guarded, req, acked, why, sends, crashes>>

Line == [kind : {"said", "handoff", "answer"}, of : Event]
Reason == {"raced", "failed", "unanswered", "blocked", "died"}

\* evs: the events of the request; new and todo: the positions in evs of those
\* the lookup did not find, and of the transcripts the agents are still to
\* answer; rows: the transcripts left to punctuate; marked: those punctuated
\* and not committed yet.
Request == [pc : {"idle", "event", "batch", "turn", "answer", "respond", "punct", "guard"},
            evs : Seq(Event), new : SUBSET Nat, todo : SUBSET Nat,
            rows : SUBSET Said, marked : SUBSET Said]
Idle == [pc |-> "idle", evs |-> << >>, new |-> {}, todo |-> {}, rows |-> {}, marked |-> {}]

TypeOK ==
  /\ stored \subseteq Event
  /\ timeline \in Seq(Line)
  /\ punct \subseteq Said
  /\ guarded \in BOOLEAN
  /\ req \in [Worker -> Request]
  /\ \A w \in Worker :
       /\ req[w].new \subseteq DOMAIN req[w].evs
       /\ \A i \in req[w].todo : i \in DOMAIN req[w].evs /\ req[w].evs[i] \in Said
  /\ acked \subseteq Event
  /\ why \in [Event -> SUBSET Reason]
  /\ sends \in 0 .. MaxSends
  /\ crashes \in 0 .. MaxCrashes

Init ==
  /\ stored = {}
  /\ timeline = << >>
  /\ punct = {}
  /\ guarded = FALSE
  /\ req = [w \in Worker |-> Idle]
  /\ acked = {}
  /\ why = [e \in Event |-> {}]
  /\ sends = 0
  /\ crashes = 0

At(w, pc) == req[w].pc = pc
Goto(w, pc) == req' = [req EXCEPT ![w].pc = pc]
Blame(E, r) == why' = [e \in Event |-> IF e \in E THEN why[e] \cup {r} ELSE why[e]]

\* The events of the request of w at positions I.
Events(w, I) == {req[w].evs[i] : i \in I}

Entry(kind, e) == [kind |-> kind, of |-> e]

Finals_RepliesOnly(w, I) == {i \in I : req[w].evs[i] \in Reply}

\* The finals at positions I have a message each; a delta has none.
Finals(w, I) == {i \in I : req[w].evs[i] \in Said \cup Reply}

\* The positions I in their order: the one increasing sequence of them.
InOrder(I) == {f \in [1 .. Cardinality(I) -> I] : \A j, k \in DOMAIN f : j < k => f[j] < f[k]}

\* Where a request goes that is to answer the transcripts at positions I.
TurnOrRespond(I) == IF I = {} THEN "respond" ELSE "turn"

-----------------------------------------------------------------------------
(* Requests.  The client sends an event again when it lost the response.   *)

Send(w) == At(w, "idle") /\ sends < MaxSends /\ sends' = sends + 1

\* A new request, with the events its lookup does not find in the table.
Open(w, pc, evs) ==
  req' = [req EXCEPT ![w] = [Idle EXCEPT !.pc = pc, !.evs = evs,
                               !.new = {i \in DOMAIN evs : evs[i] \notin stored}]]

\* The lookup by client_event_id answers a known event at once.
ReceiveEvent(w, e) ==
  /\ Send(w)
  /\ \/ /\ e \in stored
        /\ acked' = acked \cup {e}
        /\ UNCHANGED req
     \/ /\ e \notin stored
        /\ Open(w, "event", <<e>>)
        /\ UNCHANGED acked
  /\ UNCHANGED <<tables, guarded, why, crashes>>

\* The lookup leaves known events out of the batch.  An event the batch
\* repeats is left in twice: it has no row yet.
ReceiveBatch(w, batch) ==
  /\ Send(w)
  /\ Open(w, "batch", batch)
  /\ UNCHANGED <<tables, guarded, acked, why, crashes>>

-----------------------------------------------------------------------------
(* Storing.  The rows of an event and of its message are committed         *)
(* together, under the unique index on client_event_id.                    *)

Fresh_NoIndex(w) == TRUE

Fresh(w) ==
  /\ Events(w, req[w].new) \cap stored = {}
  /\ \A i, j \in req[w].new : req[w].evs[i] = req[w].evs[j] => i = j

Insert(w) ==
  /\ stored' = stored \cup Events(w, req[w].new)
  /\ \E f \in InOrder(Finals(w, req[w].new)) :
       timeline' = timeline \o [k \in DOMAIN f |-> Entry("said", req[w].evs[f[k]])]

Proceed_Everything(w, rows) ==
  req' = [req EXCEPT ![w].todo = req[w].new, ![w].rows = rows \cap Said, ![w].new = {},
                     ![w].pc = TurnOrRespond(req[w].new)]

\* The request goes on to have the transcripts among its new events answered,
\* and those it stored punctuated.
Proceed(w, rows) ==
  LET todo == {i \in req[w].new : req[w].evs[i] \in Said}
  IN  req' = [req EXCEPT ![w].todo = todo, ![w].rows = rows \cap Said, ![w].new = {},
                         ![w].pc = TurnOrRespond(todo)]

StoreEvent(w) ==
  /\ At(w, "event")
  /\ Fresh(w)
  /\ Insert(w)
  /\ Proceed(w, Events(w, req[w].new))
  /\ UNCHANGED <<punct, guarded, acked, why, sends, crashes>>

\* The commit is the one of _audit, which swallows its failure and rolls
\* back: the handler goes on without a row, as if it had stored the event.
LoseEvent(w) ==
  /\ At(w, "event")
  /\ Blame(Events(w, req[w].new), IF Fresh(w) THEN "failed" ELSE "raced")
  /\ Proceed(w, {})
  /\ UNCHANGED <<tables, guarded, acked, sends, crashes>>

StoreBatch(w) ==
  /\ At(w, "batch")
  /\ Fresh(w)
  /\ Insert(w)
  /\ Proceed(w, Events(w, req[w].new))
  /\ UNCHANGED <<punct, guarded, acked, why, sends, crashes>>

FailBatch_GoesOn(w) ==
  /\ At(w, "batch")
  /\ Proceed(w, {})
  /\ UNCHANGED <<tables, guarded, acked, why, sends, crashes>>

FailBatch_SaysOk(w) ==
  /\ At(w, "batch")
  /\ acked' = acked \cup Events(w, DOMAIN req[w].evs)
  /\ req' = [req EXCEPT ![w] = Idle]
  /\ UNCHANGED <<tables, guarded, why, sends, crashes>>

\* The commit of a batch is its own: a failure ends the request with a 500.
FailBatch(w) ==
  /\ At(w, "batch")
  /\ req' = [req EXCEPT ![w] = Idle]
  /\ UNCHANGED <<tables, guarded, acked, why, sends, crashes>>

-----------------------------------------------------------------------------
(* _run_realtime_multi_agent_turn, for the transcripts one by one.         *)

\* The position of the transcript whose turn it is.
Now(w) == CHOOSE i \in req[w].todo : \A j \in req[w].todo : i <= j
Transcript(w) == req[w].evs[Now(w)]

\* The host announces the agent the text names: a commit of its own, whose
\* failure is ignored.
HandOff(w) ==
  /\ At(w, "turn")
  /\ timeline' \in {timeline, Append(timeline, Entry("handoff", Transcript(w)))}
  /\ Goto(w, "answer")
  /\ UNCHANGED <<stored, punct, guarded, acked, why, sends, crashes>>

NextTurn(w) ==
  req' = [req EXCEPT ![w].todo = @ \ {Now(w)}, ![w].pc = TurnOrRespond(req[w].todo \ {Now(w)})]

Answer(w) ==
  /\ At(w, "answer")
  /\ timeline' = Append(timeline, Entry("answer", Transcript(w)))
  /\ NextTurn(w)
  /\ UNCHANGED <<stored, punct, guarded, acked, why, sends, crashes>>

\* The model's answer is empty, or the turn raises: the error is logged.
NoAnswer(w) ==
  /\ At(w, "answer")
  /\ Blame({Transcript(w)}, "unanswered")
  /\ NextTurn(w)
  /\ UNCHANGED <<tables, guarded, acked, sends, crashes>>

Respond_NoBackgroundTask(w) ==
  /\ At(w, "respond")
  /\ acked' = acked \cup Events(w, DOMAIN req[w].evs)
  /\ req' = [req EXCEPT ![w] = Idle]
  /\ UNCHANGED <<tables, guarded, why, sends, crashes>>

\* The 200, then the background task if the request stored a transcript.
Respond(w) ==
  /\ At(w, "respond")
  /\ acked' = acked \cup Events(w, DOMAIN req[w].evs)
  /\ req' = [req EXCEPT ![w] = IF req[w].rows = {} THEN Idle
                               ELSE [Idle EXCEPT !.pc = "punct", !.rows = req[w].rows]]
  /\ UNCHANGED <<tables, guarded, why, sends, crashes>>

-----------------------------------------------------------------------------
(* punctuate_realtime_events, in the background.                           *)

\* should_commit reads the time of the last commit of the session ...
GuardReads(w, e) ==
  /\ At(w, "punct")
  /\ e \in req[w].rows
  /\ \/ /\ ~ guarded
        /\ req' = [req EXCEPT ![w].pc = "guard", ![w].rows = @ \ {e}, ![w].marked = @ \cup {e}]
        /\ UNCHANGED why
     \/ /\ guarded
        /\ req' = [req EXCEPT ![w].rows = @ \ {e}]
        /\ Blame({e}, "blocked")
  /\ UNCHANGED <<tables, guarded, acked, sends, crashes>>

\* ... and writes it, holding no lock in between.
GuardWrites(w) ==
  /\ At(w, "guard")
  /\ guarded' = TRUE
  /\ Goto(w, "punct")
  /\ UNCHANGED <<tables, acked, why, sends, crashes>>

WindowEnds ==
  /\ guarded
  /\ guarded' = FALSE
  /\ UNCHANGED <<tables, req, acked, why, sends, crashes>>

CommitPunct(w) ==
  /\ At(w, "punct")
  /\ req[w].rows = {}
  /\ punct' = punct \cup req[w].marked
  /\ req' = [req EXCEPT ![w] = Idle]
  /\ UNCHANGED <<stored, timeline, guarded, acked, why, sends, crashes>>

\* The database is not there: nothing is written, nobody tries again.
FailPunct(w) ==
  /\ At(w, "punct")
  /\ Blame(req[w].rows \cup req[w].marked, "failed")
  /\ req' = [req EXCEPT ![w] = Idle]
  /\ UNCHANGED <<tables, guarded, acked, sends, crashes>>

-----------------------------------------------------------------------------
\* The server stops and starts again: requests, background tasks and the
\* guard are lost, the tables are not.
Restart ==
  /\ crashes < MaxCrashes
  /\ crashes' = crashes + 1
  /\ Blame(UNION {Events(w, req[w].todo) \cup req[w].rows \cup req[w].marked : w \in Worker},
            "died")
  /\ req' = [w \in Worker |-> Idle]
  /\ guarded' = FALSE
  /\ UNCHANGED <<tables, acked, sends>>

\* What thread w does by itself once it has a request.
Step(w) ==
  \/ StoreEvent(w) \/ LoseEvent(w) \/ StoreBatch(w) \/ FailBatch(w)
  \/ HandOff(w) \/ Answer(w) \/ NoAnswer(w) \/ Respond(w)
  \/ \E e \in Event : GuardReads(w, e)
  \/ GuardWrites(w) \/ CommitPunct(w) \/ FailPunct(w)

Next ==
  \/ \E w \in Worker, e \in Event : ReceiveEvent(w, e)
  \/ \E w \in Worker, d, e \in Event : ReceiveBatch(w, <<d, e>>)
  \/ \E w \in Worker : Step(w)
  \/ WindowEnds
  \/ Restart

Spec == Init /\ [][Next]_vars
FairSpec == Spec /\ \A w \in Worker : WF_vars(Step(w))

-----------------------------------------------------------------------------
(* Properties.                                                             *)

Entries(kind, e) == Cardinality({i \in DOMAIN timeline : timeline[i] = Entry(kind, e)})

\* However often the client sends a final, alone, in batches or twice in one,
\* the timeline does not get it twice; and it shows no final whose event has
\* no row to audit (client_event_id: main.py, RealtimeEventIn).
NoLineTwice ==
  \A e \in Said \cup Reply :
    Entries("said", e) <= IF e \in stored THEN 1 ELSE 0

\* What the agents say about a transcript comes after it in the timeline,
\* unless the row of the transcript was lost.
AnswersFollowWhatWasSaid ==
  \A i \in DOMAIN timeline :
    LET e == timeline[i].of
    IN  timeline[i].kind # "said" /\ "failed" \notin why[e]
          => \E j \in 1 .. i : timeline[j] = Entry("said", e)

\* A transcript is answered a second time only if the insert of one of its
\* copies was lost and the handler went on without it.
AnsweredAgainOnlyAfterLostInsert ==
  \A e \in Said :
    Entries("answer", e) > 1 => why[e] \cap {"raced", "failed"} # {}

\* An event the client was told is stored has its row, unless the database
\* failed while it was stored.
AckedIsStored ==
  \A e \in acked : e \in stored \/ "failed" \in why[e]

\* A stored transcript is in the end answered, and punctuated, unless the
\* model, the guard, the database or a restart is in the way.
StoredIsServed ==
  \A e \in Said :
    e \in stored ~> /\ Entries("answer", e) > 0 \/ why[e] \cap {"unanswered", "died"} # {}
                    /\ e \in punct \/ why[e] \cap {"blocked", "failed", "died"} # {}

\* "idempotency key per event (frontend-generated)" (main.py, at
\* client_event_id): sending an event again does not have it answered again.
AnsweredOnce ==
  \A e \in Said : Entries("answer", e) <= 1

\* "Final realtime transcripts stay in realtime_events and MUST NOT pollute the
\* text chat timeline" (realtime_events_batch): a batch adds nothing to it.
BatchesStayOut ==
  [][\A w \in Worker : StoreBatch(w) => timeline' = timeline]_vars

\* "For each final event with content, stores transcript_punct (OpenAI or
\* fallback = content)" (punctuate_realtime_events): once nothing is under
\* way every stored transcript is punctuated, but for a stop or a failure.
FinalsPunctuated ==
  (\A w \in Worker : At(w, "idle")) =>
    \A e \in Said \cap stored : e \in punct \/ why[e] \cap {"failed", "died"} # {}
=============================================================================
