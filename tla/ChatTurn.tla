------------------------------ MODULE ChatTurn ------------------------------
(* POST /api/chat on one thread: the user's message is stored under its    *)
(* client_message_id, then each target agent in turn answers it, or has    *)
(* the repository operation it asks for executed, and the answer and its   *)
(* cost are stored one commit after the other.                             *)
(*                                                                         *)
(* The handler is a plain function, so each request runs in a thread of    *)
(* its own.  An attempt is one request; the client makes another with the  *)
(* same key when it lost the response or got an error.                     *)
EXTENDS FiniteSets, Integers, Sequences

CONSTANTS
  Msg,         \* client_message_ids of the thread
  Ops,         \* messages that ask to append to a file of the repository,
               \* and not only to prepare the change
  Worker,      \* worker threads
  NAgents,     \* how many agents a message addresses
  Turns,       \* FOUNDER_GUIDANCE_TURNS
  MaxAttempts, \* bound: requests the client makes
  MaxCrashes   \* bound: restarts of the server

ASSUME ChatConstants ==
  /\ Ops \subseteq Msg
  /\ {NAgents, Turns} \subseteq Nat \ {0}
  /\ {MaxAttempts, MaxCrashes} \subseteq Nat

VARIABLES
  asked,     \* messages with a row of role user
  answers,   \* rows of role assistant, in commit order
  costs,     \* indices of the answers with a row in cost_events
  commits,   \* commits[m]: commits made in the repository for m
  guidance,  \* turns_left of the founder guidance of the thread; 0: none
  req,       \* req[w]: the request thread w serves
  out,       \* history: out[a]: how attempt a ended
  uncosted,  \* history: answers whose cost could not be stored
  guided,    \* history: attempts guided since the guidance was set
  crashes    \* history: restarts

tables == <<asked, answers, costs>>
vars == <<tables, commits, guidance, req, out, uncosted, guided, crashes>>

Attempt == 1 .. MaxAttempts
Agent == 1 .. NAgents

\* How an operation went and was reported: no commit and a failure, a commit
\* and a success, or a commit and yet a failure.  The answers of agents that
\* execute nothing have "none".
Report == {"none", "done", "denied"}
AnswerRow == [of : Msg, agent : Agent, by : Attempt, op : Report]
Idle == [pc |-> "idle"]
Request == {Idle} \cup
  [pc : {"insert", "agent", "save", "cost"}, m : Msg, by : Attempt,
   i : 1 .. NAgents + 1, op : Report]

\* out[a] is a record of the message of a and of its end.
Outcome == [of : Msg, is : {"open", "ok", "error", "died"}]

TypeOK ==
  /\ asked \subseteq Msg
  /\ answers \in Seq(AnswerRow)
  /\ costs \cup uncosted \subseteq DOMAIN answers
  /\ commits \in [Msg -> Nat]
  /\ guidance \in 0 .. Turns
  /\ req \in [Worker -> Request]
  /\ out \in Seq(Outcome) /\ Len(out) <= MaxAttempts
  /\ guided \in Nat
  /\ crashes \in 0 .. MaxCrashes

Init ==
  /\ asked = {}
  /\ answers = << >>
  /\ costs = {}
  /\ commits = [m \in Msg |-> 0]
  /\ guidance = 0
  /\ req = [w \in Worker |-> Idle]
  /\ out = << >>
  /\ uncosted = {}
  /\ guided = 0
  /\ crashes = 0

At(w, pc) == req[w].pc = pc
Goto(w, pc) == req' = [req EXCEPT ![w].pc = pc]
End(w, is) ==
  /\ out' = [out EXCEPT ![req[w].by].is = is]
  /\ req' = [req EXCEPT ![w] = Idle]

-----------------------------------------------------------------------------
(* The request.                                                            *)

Guide_NoCheck == guidance' = guidance - 1 /\ guided' = guided + 1

Guide_Unlimited ==
  \/ guidance > 0 /\ guided' = guided + 1 /\ UNCHANGED guidance
  \/ guidance' = 0 /\ UNCHANGED guided

\* _get_founder_guidance, under its lock: the request takes a turn of the
\* guidance, or ends it with what the user wrote or because it is used up.
Guide ==
  \/ guidance > 0 /\ guidance' = guidance - 1 /\ guided' = guided + 1
  \/ guidance' = 0 /\ UNCHANGED guided

\* The lookup by client_message_id finds the row of an earlier attempt.
Begin(w, m) ==
  /\ At(w, "idle")
  /\ Len(out) < MaxAttempts
  /\ out' = Append(out, [of |-> m, is |-> "open"])
  /\ Guide
  /\ req' = [req EXCEPT ![w] =
       [pc |-> IF m \in asked THEN "agent" ELSE "insert",
        m |-> m, by |-> Len(out) + 1, i |-> 1, op |-> "none"]]
  /\ UNCHANGED <<tables, commits, uncosted, crashes>>

InsertMessage(w) ==
  /\ At(w, "insert")
  /\ req[w].m \notin asked
  /\ asked' = asked \cup {req[w].m}
  /\ Goto(w, "agent")
  /\ UNCHANGED <<answers, costs, commits, guidance, out, uncosted, guided, crashes>>

\* The unique index refuses a row that another attempt inserted after the
\* lookup, or the database fails: nobody catches it.
InsertFails(w) ==
  /\ At(w, "insert")
  /\ End(w, "error")
  /\ UNCHANGED <<tables, commits, guidance, uncosted, guided, crashes>>

-----------------------------------------------------------------------------
(* The agents, one after the other.                                        *)

\* _execute_capability_if_authorized runs for every agent of the loop.  It
\* reports a failure of a PUT that was carried out when the answer to it is
\* lost, or when the reads that verify the file do not confirm it.
Execute(w) ==
  /\ At(w, "agent")
  /\ req[w].i \in Agent
  /\ req[w].m \in Ops
  /\ \E op \in Report :
       /\ req' = [req EXCEPT ![w].pc = "save", ![w].op = op]
       /\ commits' = [commits EXCEPT ![req[w].m] = IF op = "none" THEN @ ELSE @ + 1]
  /\ UNCHANGED <<tables, guidance, out, uncosted, guided, crashes>>

Ask(w) ==
  /\ At(w, "agent")
  /\ req[w].i \in Agent
  /\ req[w].m \notin Ops
  /\ req' = [req EXCEPT ![w].pc = "save", ![w].op = "none"]
  /\ UNCHANGED <<tables, commits, guidance, out, uncosted, guided, crashes>>

AskFails_NextAgent(w) ==
  /\ At(w, "agent")
  /\ req[w].i \in Agent
  /\ req[w].m \notin Ops
  /\ req' = [req EXCEPT ![w].i = @ + 1]
  /\ UNCHANGED <<tables, commits, guidance, out, uncosted, guided, crashes>>

\* The provider fails: 503, and what earlier agents answered stays.
AskFails(w) ==
  /\ At(w, "agent")
  /\ req[w].i \in Agent
  /\ req[w].m \notin Ops
  /\ End(w, "error")
  /\ UNCHANGED <<tables, commits, guidance, uncosted, guided, crashes>>

SaveAnswer(w) ==
  /\ At(w, "save")
  /\ answers' = Append(answers, [of |-> req[w].m, agent |-> req[w].i,
                                 by |-> req[w].by, op |-> req[w].op])
  /\ Goto(w, "cost")
  /\ UNCHANGED <<asked, costs, commits, guidance, out, uncosted, guided, crashes>>

SaveFails_GoesOn(w) ==
  /\ At(w, "save")
  /\ req' = [req EXCEPT ![w].pc = "agent", ![w].i = @ + 1]
  /\ UNCHANGED <<tables, commits, guidance, out, uncosted, guided, crashes>>

\* A database that fails here has the request end in an error, after the
\* operation was executed.
SaveFails(w) ==
  /\ At(w, "save")
  /\ End(w, "error")
  /\ UNCHANGED <<tables, commits, guidance, uncosted, guided, crashes>>

\* The answer this request stored last.
Mine(w) == CHOOSE k \in DOMAIN answers :
  answers[k].by = req[w].by /\ answers[k].agent = req[w].i

TrackCost_ModelOnly(w) ==
  /\ At(w, "cost")
  /\ \/ req[w].m \notin Ops /\ costs' = costs \cup {Mine(w)} /\ UNCHANGED uncosted
     \/ req[w].m \in Ops /\ UNCHANGED <<costs, uncosted>>
  /\ req' = [req EXCEPT ![w].pc = "agent", ![w].i = @ + 1]
  /\ UNCHANGED <<asked, answers, commits, guidance, out, guided, crashes>>

\* _track_cost, for a model's answer or not; its failure is ignored.
TrackCost(w) ==
  /\ At(w, "cost")
  /\ \/ costs' = costs \cup {Mine(w)} /\ UNCHANGED uncosted
     \/ uncosted' = uncosted \cup {Mine(w)} /\ UNCHANGED costs
  /\ req' = [req EXCEPT ![w].pc = "agent", ![w].i = @ + 1]
  /\ UNCHANGED <<asked, answers, commits, guidance, out, guided, crashes>>

Respond_OffByOne(w) ==
  /\ At(w, "agent")
  /\ req[w].i > NAgents + 1
  /\ End(w, "ok")
  /\ UNCHANGED <<tables, commits, guidance, uncosted, guided, crashes>>

Respond(w) ==
  /\ At(w, "agent")
  /\ req[w].i > NAgents
  /\ End(w, "ok")
  /\ UNCHANGED <<tables, commits, guidance, uncosted, guided, crashes>>

-----------------------------------------------------------------------------
\* A founder's action on an escalation starts the guidance again.
SetGuidance ==
  /\ guidance' = Turns
  /\ guided' = 0
  /\ UNCHANGED <<tables, commits, req, out, uncosted, crashes>>

\* The server stops and starts again; the guidance is kept in memory only.
Restart ==
  /\ crashes < MaxCrashes
  /\ crashes' = crashes + 1
  /\ req' = [w \in Worker |-> Idle]
  /\ guidance' = 0
  /\ out' = [a \in DOMAIN out |->
               IF out[a].is = "open" THEN [out[a] EXCEPT !.is = "died"] ELSE out[a]]
  /\ UNCHANGED <<tables, commits, uncosted, guided>>

Step(w) ==
  \/ InsertMessage(w) \/ InsertFails(w)
  \/ Execute(w) \/ Ask(w) \/ AskFails(w)
  \/ SaveAnswer(w) \/ SaveFails(w) \/ TrackCost(w) \/ Respond(w)

Next ==
  \/ \E w \in Worker, m \in Msg : Begin(w, m)
  \/ \E w \in Worker : Step(w)
  \/ SetGuidance
  \/ Restart

Spec == Init /\ [][Next]_vars
FairSpec == Spec /\ \A w \in Worker : WF_vars(Step(w))

-----------------------------------------------------------------------------
(* Properties.                                                             *)

\* Where the answers of attempt a are among the thread's.
AnswersOf(a) == {k \in DOMAIN answers : answers[k].by = a}
Ended(a, how) == a \in DOMAIN out /\ out[a].is \in how

\* What an attempt leaves in the thread, whenever it fails or is cut off and
\* whatever runs beside it, are the answers of the agents before that point,
\* in their order and after the question; a 200 means all of them.
AnswersAreAPrefix ==
  \A a \in DOMAIN out :
    LET mine == AnswersOf(a)
    IN  /\ \A k \in mine : answers[k].agent = Cardinality({j \in mine : j <= k})
        /\ mine # {} => out[a].of \in asked
        /\ out[a].is = "ok" => Cardinality(mine) = NAgents

\* The answers to m whose report of the operation is among how, and the
\* attempts at m that did not end in a 200.
Reports(m, how) == {k \in DOMAIN answers : answers[k].of = m /\ answers[k].op \in how}
NotOk(m) == {a \in DOMAIN out : out[a].of = m /\ out[a].is # "ok"}

\* What the thread tells of the commits in the repository: each report of a
\* success has its own commit, and a commit has its own answer, which may say
\* that it failed, or its own attempt that failed, died or is under way.
CommitsAreReported ==
  \A m \in Ops :
    LET done == Cardinality(Reports(m, {"done"}))
    IN  commits[m] \in done .. Cardinality(Reports(m, Report)) + Cardinality(NotOk(m))

\* Each answer of an attempt that was not cut off has its cost, or the
\* database refused it.
AnswersAreCosted ==
  \A k \in DOMAIN answers :
    Ended(answers[k].by, {"ok"}) => k \in costs \cup uncosted

\* The founder's guidance reaches no more requests than it was given turns
\* for, however they overlap (_founder_guidance_lock).
GuidanceIsBounded == guided <= Turns

\* Every attempt comes to an end.
AttemptsEnd ==
  \A a \in Attempt : Ended(a, {"open"}) ~> Ended(a, {"ok", "error", "died"})

\* "Falha ao atualizar arquivo no GitHub." (main.py:5877): an operation that
\* is reported as a failure made no commit.
FailuresCommitNothing ==
  \A m \in Ops :
    commits[m] <= Cardinality(Reports(m, {"done"})) + Cardinality(NotOk(m))

\* "idempotency key (frontend-generated UUID)" (main.py, at
\* client_message_id): a message is not answered again by the same agent.
KeyAnsweredOnce ==
  \A j, k \in DOMAIN answers :
    answers[j].of = answers[k].of /\ answers[j].agent = answers[k].agent => j = k
=============================================================================
