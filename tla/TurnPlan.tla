------------------------------- MODULE TurnPlan --------------------------------
(***************************************************************************)
(* Which agents answer a message, and in which order.  A turn of           *)
(* /api/chat or /api/chat/stream names its agents from the message and     *)
(* from the agents of the organization, then a planner and the telemetry   *)
(* of earlier turns may reorder them, then the names in the message have   *)
(* the last word.  Administrators make and delete agents meanwhile.        *)
(*                                                                         *)
(* A name is a pair <<first, titled>>: "chris" is <<"chris", FALSE>>, what *)
(* "chris (vp/cfo)" is called is <<"chris", TRUE>>.  Renaming an agent is  *)
(* left out.                                                               *)
(***************************************************************************)
EXTENDS Naturals, FiniteSets, Sequences, SequencesExt

CONSTANTS
    Turn,        \* the requests served at a time
    AgentId,     \* the rows there may be in the table agents
    Called,      \* AgentId -> the agent's name
    Default,     \* the agent with is_default, when it is there
    Message,     \* the messages users send, see MessageType
    Recent       \* how many of a thread's events a turn reads

VARIABLES
    agents,      \* the organization's agents, as the database lists them
    turn,        \* Turn -> what the request has worked out
    events       \* the thread's execution_events, the newest Recent of them

planVars == <<agents, turn, events>>

First == {Called[a][1] : a \in AgentId}
Plain(f) == <<f, FALSE>>
FirstOf(a) == Plain(Called[a][1])

ASSUME NamesAssumption ==
    /\ Called \in [AgentId -> First \X BOOLEAN]
    /\ Default \in AgentId
    /\ Recent \in Nat \ {0}

\* mentions: the @names in the order written; words: the core agents named by
\* other words ("orion", "cto", "financeiro", ...); board: a word for everybody
\* ("team", "equipe", "todos", ...).
MessageType == [mentions : Seq(STRING), words : SUBSET STRING, board : BOOLEAN]
ASSUME MessageAssumption == Message \subseteq MessageType

-------------------------------------------------------------------------------
(* From a message to names                                                 *)

Core == <<"orkio", "chris", "orion">>

\* What is at the positions ps of s, in its order.
Kept(s, ps) ==
    [n \in 1..Cardinality(ps) |-> s[CHOOSE i \in ps : Cardinality({j \in ps : j < i}) = n - 1]]
NoRepeats(s) == Kept(s, {i \in DOMAIN s : \A j \in 1..(i - 1) : s[j] # s[i]})

\* _detect_requested_agent_names: in this order, whatever the message's.
Requested(m) ==
    LET named == {i \in DOMAIN Core : Core[i] \in m.words \cup ToSet(m.mentions)}
        everybody == m.board \/ "team" \in ToSet(m.mentions)
    IN Kept(Core, named) \o (IF everybody THEN Kept(Core, {2, 3} \ named) ELSE <<>>)

Tokens(m) == NoRepeats(m.mentions \o Requested(m))
HasTeam(m) == {"time", "team"} \cap ToSet(Tokens(m)) # {} \/ Len(Requested(m)) > 1

-------------------------------------------------------------------------------
(* From names to agents                                                    *)

Bearing(a, key) == key \in {Called[a], FirstOf(a)}

\* The first agent of s that is called key in full or by its first name, if any.
Picked(key, s) ==
    LET at == {i \in DOMAIN s : Bearing(s[i], key)}
    IN IF at = {} THEN <<>> ELSE <<s[Min(at)]>>

\* alias_to_agent: a full name overwrites, a first name does not.
Aliased(key, s) ==
    LET at == {i \in DOMAIN s : Called[s[i]] = key}
    IN IF at = {} THEN Picked(key, s) ELSE <<s[Max(at)]>>

\* Whom the names found that found somebody.
Found(picks) ==
    LET some == Kept(picks, {i \in DOMAIN picks : picks[i] # <<>>})
    IN [n \in DOMAIN some |-> some[n][1]]

Team == <<"orkio", "chris", "orion", "aurora", "atlas", "themis", "gaia", "hermes", "selene">>
TeamOrder == [i \in 1..18 |-> <<Team[(i + 1) \div 2], i % 2 = 0>>]

ByAlias(keys, s) == NoRepeats(Found([i \in DOMAIN keys |-> Aliased(keys[i], s)]))

\* _select_target_agents: the team, or the mentions, or the agent of the
\* request, or the default agent.  A chosen agent that is gone is a 404.
Keys(m) == IF HasTeam(m) THEN TeamOrder ELSE [i \in DOMAIN Tokens(m) |-> Plain(Tokens(m)[i])]
Selected(m, chosen, s) ==
    LET named == ByAlias(Keys(m), s)
        fallback == IF chosen # {} THEN chosen ELSE {Default}
    IN IF named # <<>> THEN named ELSE Kept(s, {i \in DOMAIN s : s[i] \in fallback})

\* _apply_explicit_agent_request: the requested agents among targets, then, if
\* they are too few, the ones the database has by their full names.
Ordered(targets, requested) ==
    NoRepeats(Found([i \in DOMAIN requested |-> Picked(Plain(requested[i]), targets)]))
ByName(ordered, requested, s) ==
    Kept(s, {i \in DOMAIN s : /\ s[i] \notin ToSet(ordered)
                              /\ \E f \in ToSet(requested) : Called[s[i]] = Plain(f)})
Explicit(targets, requested, s) ==
    LET ordered == Ordered(targets, requested)
        all == IF Len(ordered) # Len(requested)
               THEN ordered \o ByName(ordered, requested, s) ELSE ordered
    IN IF all = <<>> THEN targets ELSE all

-------------------------------------------------------------------------------
(* The planner and the telemetry                                           *)

\* build_arcangelic_chain: one agent speaks, whatever the intent.
ExecutionSequence == <<Plain("orkio")>>

\* build_planner_snapshot: of those, the ones among targets by their full names.
ExecutionOrder(targets) ==
    Kept(ExecutionSequence, {i \in DOMAIN ExecutionSequence :
        \E a \in ToSet(targets) : Called[a] = ExecutionSequence[i]})

\* build_dag_execution_snapshot.
RouteApplied(targets) ==
    LET order == ExecutionOrder(targets)
    IN order # <<>> /\ order # [i \in DOMAIN targets |-> Called[targets[i]]]

\* Reordered_Repeats is a bug the checks must find: an agent that the planner
\* put first is listed again in its old place.
Reordered_Repeats(targets, order) ==
    NoRepeats(Found([i \in DOMAIN order |-> Picked(order[i], targets)])) \o targets

\* _reorder_agents_by_planner.
Reordered(targets, order) ==
    NoRepeats(Found([i \in DOMAIN order |-> Picked(order[i], targets)]) \o targets)

\* _build_execution_review_snapshot: how often, and where, a name was executed
\* or failed in the recent events.
Count(rows, field, name) ==
    Cardinality({p \in {<<i, j>> : i \in DOMAIN rows, j \in 1..Len(TeamOrder)} :
        p[2] \in DOMAIN rows[p[1]][field] /\ rows[p[1]][field][p[2]] = name})
Position(name) == CHOOSE i \in DOMAIN TeamOrder : TeamOrder[i] = name
TopCounts(rows, field, n) ==
    LET names == UNION {ToSet(rows[i][field]) : i \in DOMAIN rows}
        before(x, y) == \/ Count(rows, field, x) > Count(rows, field, y)
                        \/ /\ Count(rows, field, x) = Count(rows, field, y)
                           /\ Position(x) < Position(y)
        rank(x) == Cardinality({y \in names : before(y, x)}) + 1
        top == {x \in names : rank(x) <= n}
    IN [k \in 1..Cardinality(top) |-> CHOOSE x \in top : rank(x) = k]

\* _build_execution_planner_adjustment.
Adjustment(rows) ==
    LET applied == Cardinality({i \in DOMAIN rows : rows[i].applied})
    IN [preferred |-> TopCounts(rows, "executed", 1),
        avoid     |-> ToSet(TopCounts(rows, "failed", 3)),
        adaptive  |-> rows # <<>> /\ 10 * applied >= 6 * Len(rows)]

\* _apply_execution_planner_adjustment.
Adjusted(targets, adj) ==
    LET preferred == {i \in DOMAIN targets :
                        adj.preferred # <<>> /\ Bearing(targets[i], adj.preferred[1])}
        avoided == {i \in DOMAIN targets \ preferred : \E n \in adj.avoid : Bearing(targets[i], n)}
        neutral == DOMAIN targets \ (preferred \cup avoided)
    IN IF Len(targets) <= 1 \/ (adj.preferred = <<>> /\ adj.avoid = {} /\ ~adj.adaptive)
       THEN targets
       ELSE Kept(targets, preferred) \o Kept(targets, neutral) \o Kept(targets, avoided)

\* The code keeps the names in lists that it defines nowhere: an append raises
\* NameError, which is swallowed, and the hints of an event come without them.
Bookkept(names) == <<>>

-------------------------------------------------------------------------------
NoTurn == [phase |-> "idle"]

PlanTypeOK ==
    /\ agents \in Seq(AgentId)
    /\ \A t \in Turn : turn[t].phase \in {"idle", "named", "speaking"}
    /\ events \in Seq([executed : Seq(First \X BOOLEAN), failed : Seq(First \X BOOLEAN),
                       applied : BOOLEAN])

\* LIMIT of _read_recent_execution_events.
LastN(s, n) == SubSeq(s, IF Len(s) > n THEN Len(s) - n + 1 ELSE 1, Len(s))

PlanInit ==
    /\ \E ids \in SUBSET AgentId : IsFiniteSet(ids) /\ agents \in SetToSeqs(ids)
    /\ turn = [t \in Turn |-> NoTurn]
    /\ events = <<>>

\* The request up to its user message.  A stream with nobody to answer is
\* refused (400), as is a chosen agent that is not there (404).
Receive(t) ==
    /\ turn[t].phase = "idle"
    /\ \E m \in Message, stream \in BOOLEAN,
          chosen \in {{}} \cup {{a} : a \in ToSet(agents)} :
        LET targets == Explicit(Selected(m, chosen, agents), Requested(m), agents)
        IN /\ stream => targets # <<>>
           /\ turn' = [turn EXCEPT ![t] =
                [phase |-> "named", m |-> m, stream |-> stream, targets |-> targets,
                 asked |-> targets, current |-> TRUE, applied |-> FALSE,
                 executed |-> <<>>, failed |-> <<>>]]
    /\ UNCHANGED <<agents, events>>

\* From the user message to the first agent.  The chat's rows have expired with
\* the commit of that message: when one is deleted, every step here fails where
\* it reads the row, and leaves the order alone.  The enrichment and the reading
\* of the events may also fail, each on its own.
Plan(t) ==
    LET me == turn[t]
        planned == IF Len(me.targets) > 1
                   THEN Reordered(me.targets, ExecutionOrder(me.targets)) ELSE me.targets
        expired == ~me.stream /\ ~(ToSet(me.targets) \subseteq ToSet(agents))
    IN
    /\ me.phase = "named"
    /\ \E enriched \in {e \in BOOLEAN : expired => ~e}, rows \in {events, <<>>} :
        turn' = [turn EXCEPT
            ![t].phase = "speaking",
            ![t].applied = enriched /\ RouteApplied(me.targets),
            ![t].targets = IF expired THEN @ ELSE Explicit(
                Adjusted(IF enriched THEN planned ELSE me.targets, Adjustment(rows)),
                Requested(me.m), agents)]
    /\ UNCHANGED <<agents, events>>

Spoken(t) == Len(turn[t].executed) + Len(turn[t].failed)

Finished(t) == Spoken(t) = Len(turn[t].targets)

\* Whether the agent whose turn it is can be read: the chat's row is there, and
\* the stream's is one of the copies made at first, not a row of the last word.
Readable(t) ==
    LET a == turn[t].targets[Spoken(t) + 1]
    IN IF turn[t].stream THEN a \in ToSet(turn[t].asked) ELSE a \in ToSet(agents)

\* The next agent answers, or its call fails and the one after it is tried.
Answer(t) ==
    /\ turn[t].phase = "speaking"
    /\ ~Finished(t)
    /\ Readable(t)
    /\ LET name == Called[turn[t].targets[Spoken(t) + 1]] IN
        \/ turn' = [turn EXCEPT ![t].executed = Append(@, name)]
        \/ turn' = [turn EXCEPT ![t].failed = Append(@, name)]
    /\ UNCHANGED <<agents, events>>

\* The request ends without an event: a chat does, and a stream whose server is
\* busy, whose client is gone or whose next agent cannot be read.
EndWithoutEvent(t) ==
    /\ turn[t].phase = "speaking"
    /\ Finished(t) => ~turn[t].stream
    /\ turn' = [turn EXCEPT ![t] = NoTurn]
    /\ UNCHANGED <<agents, events>>

\* _track_execution_event, which only a stream calls.
Track(t) ==
    /\ turn[t].phase = "speaking"
    /\ turn[t].stream
    /\ Finished(t)
    /\ LET event == [executed |-> Bookkept(turn[t].executed),
                     failed |-> Bookkept(turn[t].failed), applied |-> turn[t].applied]
       IN events' = LastN(Append(events, event), Recent)
    /\ turn' = [turn EXCEPT ![t] = NoTurn]
    /\ UNCHANGED agents

\* admin_create_agent, admin_delete_agent.
Outdated == [t \in Turn |-> IF turn[t].phase = "idle" THEN NoTurn
                            ELSE [turn[t] EXCEPT !.current = FALSE]]

CreateAgent ==
    /\ \E a \in AgentId \ ToSet(agents) : agents' = Append(agents, a)
    /\ turn' = Outdated
    /\ UNCHANGED events

DeleteAgent ==
    /\ \E a \in ToSet(agents) : agents' = Kept(agents, {i \in DOMAIN agents : agents[i] # a})
    /\ turn' = Outdated
    /\ UNCHANGED events

PlanNext ==
    \/ \E t \in Turn : Receive(t) \/ Plan(t) \/ Answer(t) \/ EndWithoutEvent(t) \/ Track(t)
    \/ CreateAgent
    \/ DeleteAgent

PlanSpec == PlanInit /\ [][PlanNext]_planVars

-------------------------------------------------------------------------------
\* "STAB: select_target_agents - deterministico, nunca sobrescrito": the planner,
\* the telemetry and the last word each make the list of agents anew, and yet
\* nobody answers twice, nobody answers who was not selected, the selection
\* never comes to nothing, and whom the message asks for by name is not dropped.
\* With agents made or deleted meanwhile, still nobody speaks twice, and when
\* somebody who was asked for speaks, nobody else does.
SelectionStands ==
    \A t \in {u \in Turn : turn[u].phase = "speaking"} :
        LET me == turn[t]
            wanted == ToSet(Requested(me.m))
            there(f, s) == \E a \in ToSet(s) : Bearing(a, Plain(f))
        IN
        /\ IsInjective(me.targets)
        /\ me.current =>
            /\ ToSet(me.targets) \subseteq ToSet(me.asked)
            /\ me.asked # <<>> => me.targets # <<>>
            /\ \A f \in wanted : there(f, me.asked) => there(f, me.targets)
        /\ (\E f \in wanted : there(f, me.targets))
            => \A a \in ToSet(me.targets) : \E f \in wanted : Bearing(a, Plain(f))

\* "Preserve the explicit order requested by the user." (main.py:8701): of the
\* agents a message mentions, the ones mentioned before others answer before them.
UserOrderIsPreserved ==
    \A t \in {u \in Turn : turn[u].phase = "speaking" /\ turn[u].current} :
        LET me == turn[t]
            place(a) == Min({Len(me.m.mentions) + 1} \cup
                            {i \in DOMAIN me.m.mentions : me.m.mentions[i] = Called[a][1]})
        IN \A i, j \in DOMAIN me.targets :
            i < j => place(me.targets[i]) <= place(me.targets[j])

\* "Persist lightweight execution telemetry for planner/routing learning."
\* (main.py:6283): an event says who answered or failed to.
EventsNameTheExecuted ==
    \A i \in DOMAIN events : events[i].executed # <<>> \/ events[i].failed # <<>>
===============================================================================
