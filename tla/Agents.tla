------------------------------- MODULE Agents -------------------------------
(* The agents of an organisation, the links between them and what they know *)
(* (ensure_core_agents and the admin endpoints on agents in app/main.py).   *)
(*                                                                          *)
(* Each commit is a step; a handler that commits more than once goes on     *)
(* with what it read before.  An UPDATE touches the rows that were there    *)
(* when it began (READ COMMITTED).  The default of an agent moves only in   *)
(* ensure_core_agents: the endpoints that would move it say is_default=0    *)
(* of a boolean column, which PostgreSQL refuses.                           *)
EXTENDS Naturals, Sequences, FiniteSets

CONSTANTS
  Worker,     \* threads that serve requests
  Core,       \* names of the core agents
  Host,       \* the one that is made the default: Orkio
  Extra,      \* another name
  MaxAgents,  \* bound: rows of agents ever made
  MaxLinks    \* bound: rows of agent_links ever made

ASSUME HostIsCore == Host \in Core /\ Extra \notin Core
ASSUME AgentBounds == MaxAgents \in Nat /\ MaxLinks \in Nat

VARIABLES
  agent,     \* agent[a]: the a-th row made; a deleted one is not live any more
  link,      \* rows of agent_links
  indexed,   \* whether agent_links has the unique index of migration 0003
  req,       \* req[w]: the request worker w is serving
  contested  \* history: what overlapping requests fought for

agentVars == <<agent, link, indexed, contested>>

None == 0
Orkio == 0  \* in contested: the place of the host; an agent: its links
Name == Core \cup {Extra}
AgentId == 1 .. Len(agent)
Live == {a \in AgentId : agent[a].live}
Defaults == {a \in Live : agent[a].default}

Agent == [name : Name, default : BOOLEAN, live : BOOLEAN]
\* put is history: the request that made the row.
Link == [src : Nat, tgt : Nat, enabled : BOOLEAN, put : Nat]

Idle == [pc |-> "idle"]
\* What ensure_core_agents is called for, by then.
Purpose == {"list", "create"}
AgentRequest == {Idle}
  \cup [pc : {"board", "unset"}, then : Purpose, todo : SUBSET Core,
        seen : [Core -> Nat], upto : Nat, file : Nat]
  \cup [pc : {"create"}, file : Nat]
  \cup [pc : {"put"}, src : Nat, targets : SUBSET Nat, old : SUBSET Nat]

At(w, pc) == req[w].pc = pc
Goto(w, r) == req' = [req EXCEPT ![w] = r]

-----------------------------------------------------------------------------
(* ensure_core_agents: one commit per core agent *)

Newest(n) ==
  LET rows == {a \in Live : agent[a].name = n}
  IN IF rows = {} THEN None ELSE CHOOSE a \in rows : \A b \in rows : b <= a

\* The rows are read once, before the first upsert.
BoardOf(then, f) ==
  [pc |-> "board", then |-> then, todo |-> Core, seen |-> [n \in Core |-> Newest(n)],
   upto |-> 0, file |-> f]

OnBoard(w) == At(w, "board") \/ At(w, "unset")
MakesHost(w) == OnBoard(w) /\ Host \in req[w].todo /\ req[w].seen[Host] = None

\* Requests that both see no Orkio both make one.
EnterBoard(w, then, f) ==
  /\ Goto(w, BoardOf(then, f))
  /\ contested' =
       IF Newest(Host) = None /\ \E v \in Worker \ {w} : MakesHost(v)
       THEN contested \cup {Orkio} ELSE contested

\* Orkio comes first.
Upserts(w, n) == At(w, "board") /\ n \in req[w].todo /\ (Host \in req[w].todo => n = Host)

AfterUpsert(r, n) ==
  IF r.todo = {n}
  THEN IF r.then = "list" THEN Idle ELSE [pc |-> r.then, file |-> r.file]
  ELSE [r EXCEPT !.pc = "board", !.todo = @ \ {n}]

\* An agent that was found is touched; if it is gone by now that raises, and
\* the caller says what becomes of the request.
Backfill(w, n) ==
  /\ Upserts(w, n) /\ req[w].seen[n] # None /\ agent[req[w].seen[n]].live
  /\ Goto(w, AfterUpsert(req[w], n))
  /\ UNCHANGED agentVars

RowGone(w, n) ==
  /\ Upserts(w, n) /\ req[w].seen[n] # None /\ ~agent[req[w].seen[n]].live
  /\ UNCHANGED agentVars

\* UPDATE agents SET is_default=FALSE, of the rows it sees.
BeginUnset(w) ==
  /\ Upserts(w, Host) /\ req[w].seen[Host] = None
  /\ Goto(w, [req[w] EXCEPT !.pc = "unset", !.upto = Len(agent)])
  /\ UNCHANGED agentVars

WithRow(rows, n, default) == Append(rows, [name |-> n, default |-> default, live |-> TRUE])

UnsetDefaults_Not(upto) == agent
UnsetDefaults(upto) ==
  [a \in AgentId |-> [agent[a] EXCEPT !.default = @ /\ a > upto]]

InsertHost(w) ==
  /\ At(w, "unset") /\ Len(agent) < MaxAgents
  /\ agent' = WithRow(UnsetDefaults(req[w].upto), Host, TRUE)
  /\ Goto(w, AfterUpsert(req[w], Host))
  /\ UNCHANGED <<link, indexed, contested>>

InsertCore(w, n) ==
  /\ Upserts(w, n) /\ n # Host /\ req[w].seen[n] = None
  /\ Len(agent) < MaxAgents
  /\ agent' = WithRow(agent, n, FALSE)
  /\ Goto(w, AfterUpsert(req[w], n))
  /\ UNCHANGED <<link, indexed, contested>>

-----------------------------------------------------------------------------
(* list_agents, admin_create_agent, admin_update_agent, admin_delete_agent *)

ListAgents(w) ==
  /\ At(w, "idle") /\ EnterBoard(w, "list", None)
  /\ UNCHANGED <<agent, link, indexed>>

StartCreate(w) ==
  /\ At(w, "idle") /\ EnterBoard(w, "create", None)
  /\ UNCHANGED <<agent, link, indexed>>

CreateAgent(w, n) ==
  /\ At(w, "create") /\ Len(agent) < MaxAgents
  /\ agent' = WithRow(agent, n, FALSE)
  /\ Goto(w, Idle)
  /\ UNCHANGED <<link, indexed, contested>>

\* An update may rename a core agent, or take the default away; to make an
\* agent the default that is not fails.
UpdateAgent(a, n, default) ==
  /\ a \in Live
  /\ default => agent[a].default
  /\ agent' = [agent EXCEPT ![a].name = n, ![a].default = default]
  /\ UNCHANGED <<link, indexed, req, contested>>

DeleteAgent(a) ==
  /\ a \in Live
  /\ agent' = [agent EXCEPT ![a].live = FALSE, ![a].default = FALSE]
  /\ UNCHANGED <<link, indexed, req, contested>>

-----------------------------------------------------------------------------
(* admin_put_agent_links *)

RowsFrom(src) == {l \in link : l.src = src}

StartPut(w, src, wanted) ==
  /\ At(w, "idle") /\ src \in Live
  /\ Goto(w, [pc |-> "put", src |-> src, targets |-> (wanted \cap Live) \ {src},
              old |-> {l.put : l \in RowsFrom(src)}])
  /\ contested' =
       IF \E v \in Worker : At(v, "put") /\ req[v].src = src
       THEN contested \cup {src} ELSE contested
  /\ UNCHANGED <<agent, link, indexed>>

\* The index holds for disabled rows too.
Refused(r) == indexed /\ \E l \in RowsFrom(r.src) : l.tgt \in r.targets

Disabled_Not(src, old) == link
Disabled(src, old) ==
  {IF l.src = src /\ l.put \in old THEN [l EXCEPT !.enabled = FALSE] ELSE l : l \in link}

NewRows(r) ==
  [src : {r.src}, tgt : r.targets, enabled : {TRUE}, put : {Cardinality(link)}]

CommitPut(w) ==
  /\ At(w, "put")
  /\ LET r == req[w]
     IN IF Refused(r) THEN UNCHANGED link
        ELSE /\ Cardinality(link) + Cardinality(r.targets) <= MaxLinks
             /\ link' = Disabled(r.src, r.old) \cup NewRows(r)
  /\ Goto(w, Idle)
  /\ UNCHANGED <<agent, indexed, contested>>
=============================================================================
