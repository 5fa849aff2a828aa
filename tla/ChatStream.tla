----------------------------- MODULE ChatStream -----------------------------
(* POST /api/chat/stream: the admission gate (_stream_acquire), and the    *)
(* generator that runs the target agents one after the other and sends     *)
(* server-sent events.                                                     *)
(*                                                                         *)
(* The handler and the generator are coroutines of one event loop; a call  *)
(* of the model runs in a thread (asyncio.to_thread) and ends on its own.  *)
(* One step of the model is what the generator does between two points     *)
(* where it yields an event or awaits.  An error event and the done or     *)
(* agent_done event right after it are one step: that the server closes    *)
(* the generator between the two is left out.                              *)
EXTENDS FiniteSets, Integers, Sequences

CONSTANTS
  Stream,      \* requests for a stream
  Ip,          \* client addresses
  MaxGlobal,   \* MAX_STREAMS_PER_REPLICA; 0 lifts the limit
  MaxPerIp,    \* MAX_STREAMS_PER_IP; 0 lifts the limit
  NAgents,     \* how many agents a stream runs
  MaxChunks,   \* bound: chunks of one answer
  TimeLimit    \* MAX_STREAM_SECONDS, in turns of the polling loop; 0: none

ASSUME LimitsAreNaturals ==
  {MaxGlobal, MaxPerIp, NAgents, MaxChunks, TimeLimit} \subseteq Nat

VARIABLES
  active,  \* _active_streams
  perIp,   \* _streams_per_ip
  from,    \* from[s]: the address of the client of s
  gen,     \* gen[s]: where the handler, then the generator, of s is
  llm,     \* llm[s]: the call of the model that s waits for
  stored,  \* stored[s]: agents whose answer is in table messages
  sent,    \* sent[s]: the events sent
  online,  \* streams whose client is connected
  waited,  \* waited[s]: turns of the polling loop for the current agent
  age,     \* history: turns of the polling loop of s so far
  admitted \* history: the streams that passed the gate

gate == <<active, perIp, admitted>>
vars == <<active, perIp, from, gen, llm, stored, sent, online, waited, age, admitted>>

Agent == 1 .. NAgents
None == 0           \* the agent of an event about the stream as a whole

Event == [ev : {"status", "chunk", "error", "agent_done", "done"},
          agent : Agent \cup {None}]
Ev(ev, i) == [ev |-> ev, agent |-> i]

\* i is the agent whose turn it is, k the chunks of its answer still to send.
Gen == [pc : {"request", "refused", "open", "agent", "wait", "chunks", "end",
              "closed", "gone"},
        i : 1 .. NAgents + 1, k : 0 .. MaxChunks]

TypeOK ==
  /\ active \in Nat
  /\ perIp \in [Ip -> Nat]
  /\ from \in [Stream -> Ip]
  /\ gen \in [Stream -> Gen]
  /\ llm \in [Stream -> {"none", "running", "answered", "busy", "failed"}]
  /\ stored \in [Stream -> SUBSET Agent]
  /\ sent \in [Stream -> Seq(Event)]
  /\ online \subseteq Stream
  /\ waited \in [Stream -> 0 .. TimeLimit + 1]
  /\ age \in [Stream -> Nat]
  /\ admitted \subseteq Stream

Init ==
  /\ active = 0
  /\ perIp = [ip \in Ip |-> 0]
  /\ from \in [Stream -> Ip]
  /\ gen = [s \in Stream |-> [pc |-> "request", i |-> 1, k |-> 0]]
  /\ llm = [s \in Stream |-> "none"]
  /\ stored = [s \in Stream |-> {}]
  /\ sent = [s \in Stream |-> << >>]
  /\ online = Stream
  /\ waited = [s \in Stream |-> 0]
  /\ age = [s \in Stream |-> 0]
  /\ admitted = {}

-----------------------------------------------------------------------------
(* The gate.  Everything _stream_acquire does, it does holding             *)
(* _stream_lock and without awaiting anything.                             *)

Full(ip) ==
  \/ MaxGlobal > 0 /\ active >= MaxGlobal
  \/ MaxPerIp > 0 /\ perIp[ip] >= MaxPerIp

At(s, pc) == gen[s].pc = pc
Goto(s, pc) == gen' = [gen EXCEPT ![s].pc = pc]

Acquire_AddressNotCounted(s) ==
  /\ At(s, "request")
  /\ ~ Full(from[s])
  /\ active' = active + 1
  /\ admitted' = admitted \cup {s}
  /\ Goto(s, "open")
  /\ UNCHANGED <<perIp, from, llm, stored, sent, online, waited, age>>

Acquire(s) ==
  /\ At(s, "request")
  /\ ~ Full(from[s])
  /\ active' = active + 1
  /\ perIp' = [perIp EXCEPT ![from[s]] = @ + 1]
  /\ admitted' = admitted \cup {s}
  /\ Goto(s, "open")
  /\ UNCHANGED <<from, llm, stored, sent, online, waited, age>>

\* 429 STREAM_LIMIT.
Refuse(s) ==
  /\ At(s, "request")
  /\ Full(from[s])
  /\ Goto(s, "refused")
  /\ UNCHANGED <<gate, from, llm, stored, sent, online, waited, age>>

\* The client tries again.
Retry(s) ==
  /\ At(s, "refused")
  /\ Goto(s, "request")
  /\ UNCHANGED <<gate, from, llm, stored, sent, online, waited, age>>

ReleaseInBackground_OnlineOnly(s) ==
  /\ At(s, "closed")
  /\ s \in online
  /\ Goto(s, "gone")
  /\ UNCHANGED <<gate, from, llm, stored, sent, online, waited, age>>

\* The background task of the response, once the generator has ended.  Being
\* a plain function, _bg_release_stream runs in a worker thread, where
\* asyncio.get_event_loop() raises: the exception is swallowed before
\* _stream_release is scheduled, and the counters stay as they are.
ReleaseInBackground(s) ==
  /\ At(s, "closed")
  /\ Goto(s, "gone")
  /\ UNCHANGED <<gate, from, llm, stored, sent, online, waited, age>>

-----------------------------------------------------------------------------
(* The generator.                                                          *)

Send(s, events) == sent' = [sent EXCEPT ![s] = @ \o events]

Start(s) ==
  /\ At(s, "open")
  /\ Send(s, <<Ev("status", None)>>)
  /\ gen' = [gen EXCEPT ![s].pc = IF NAgents = 0 THEN "end" ELSE "agent"]
  /\ UNCHANGED <<gate, from, llm, stored, online, waited, age>>

\* The next agent's turn, or the end of the stream after the last one's.
NextAgent(s) ==
  gen' = [gen EXCEPT ![s] = [pc |-> IF @.i = NAgents THEN "end" ELSE "agent",
                             i |-> @.i + 1, k |-> 0]]

\* The agent's status is sent and its call of the model started, or its
\* answer is there at once: an authorised capability, or a guarded topic.
StartAgent(s) ==
  /\ At(s, "agent")
  /\ Send(s, <<Ev("status", gen[s].i)>>)
  /\ llm' \in {[llm EXCEPT ![s] = x] : x \in {"running", "answered"}}
  /\ waited' = [waited EXCEPT ![s] = 0]
  /\ Goto(s, "wait")
  /\ UNCHANGED <<gate, from, stored, online, age>>

\* The thread of the call ends: an answer, SERVER_BUSY, or another error.
LlmReturns(s) ==
  /\ At(s, "wait")
  /\ llm[s] = "running"
  /\ llm' \in {[llm EXCEPT ![s] = x] : x \in {"answered", "busy", "failed"}}
  /\ UNCHANGED <<gate, from, gen, stored, sent, online, waited, age>>

TimedOut_Late(s) == TimeLimit > 0 /\ waited[s] > 2 * TimeLimit
TimedOut(s) == TimeLimit > 0 /\ waited[s] > TimeLimit

\* One turn of the loop that waits for the call (with TimeLimit 0 turns are
\* not counted).
Poll(s) ==
  /\ At(s, "wait")
  /\ llm[s] = "running"
  /\ TimeLimit > 0
  /\ ~ TimedOut(s)
  /\ waited' = [waited EXCEPT ![s] = @ + 1]
  /\ age' = [age EXCEPT ![s] = @ + 1]
  /\ UNCHANGED <<gate, from, gen, llm, stored, sent, online>>

Timeout_GoesOn(s) ==
  /\ At(s, "wait")
  /\ llm[s] = "running"
  /\ TimedOut(s)
  /\ Send(s, <<Ev("error", None), Ev("done", None)>>)
  /\ NextAgent(s)
  /\ UNCHANGED <<gate, from, llm, stored, online, waited, age>>

Timeout(s) ==
  /\ At(s, "wait")
  /\ llm[s] = "running"
  /\ TimedOut(s)
  /\ Send(s, <<Ev("error", None), Ev("done", None)>>)
  /\ Goto(s, "closed")
  /\ UNCHANGED <<gate, from, llm, stored, online, waited, age>>

ServerBusy(s) ==
  /\ At(s, "wait")
  /\ llm[s] = "busy"
  /\ Send(s, <<Ev("error", None), Ev("done", None)>>)
  /\ Goto(s, "closed")
  /\ UNCHANGED <<gate, from, llm, stored, online, waited, age>>

AgentFails_NotDone(s) ==
  /\ At(s, "wait")
  /\ llm[s] \in {"failed", "answered"}
  /\ Send(s, <<Ev("error", gen[s].i)>>)
  /\ NextAgent(s)
  /\ UNCHANGED <<gate, from, llm, stored, online, waited, age>>

\* The call failed, or the answer could not be stored: this agent is done.
AgentFails(s) ==
  /\ At(s, "wait")
  /\ llm[s] \in {"failed", "answered"}
  /\ Send(s, <<Ev("error", gen[s].i), Ev("agent_done", gen[s].i)>>)
  /\ NextAgent(s)
  /\ UNCHANGED <<gate, from, llm, stored, online, waited, age>>

StoreAnswer_FailureIgnored(s) ==
  /\ At(s, "wait")
  /\ llm[s] = "answered"
  /\ stored' \in {stored, [stored EXCEPT ![s] = @ \cup {gen[s].i}]}
  /\ \E n \in 0 .. MaxChunks :
       gen' = [gen EXCEPT ![s].pc = "chunks", ![s].k = n]
  /\ UNCHANGED <<gate, from, llm, sent, online, waited, age>>

\* The answer is committed before any of it is sent.
StoreAnswer(s) ==
  /\ At(s, "wait")
  /\ llm[s] = "answered"
  /\ stored' = [stored EXCEPT ![s] = @ \cup {gen[s].i}]
  /\ \E n \in 0 .. MaxChunks :
       gen' = [gen EXCEPT ![s].pc = "chunks", ![s].k = n]
  /\ UNCHANGED <<gate, from, llm, sent, online, waited, age>>

SendChunk_OneTooMany(s) ==
  /\ At(s, "chunks")
  /\ gen[s].k >= 0
  /\ Send(s, <<Ev("chunk", gen[s].i)>>)
  /\ gen' = [gen EXCEPT ![s].k = @ - 1]
  /\ UNCHANGED <<gate, from, llm, stored, online, waited, age>>

SendChunk(s) ==
  /\ At(s, "chunks")
  /\ gen[s].k > 0
  /\ Send(s, <<Ev("chunk", gen[s].i)>>)
  /\ gen' = [gen EXCEPT ![s].k = @ - 1]
  /\ UNCHANGED <<gate, from, llm, stored, online, waited, age>>

AgentDone(s) ==
  /\ At(s, "chunks")
  /\ gen[s].k = 0
  /\ Send(s, <<Ev("agent_done", gen[s].i)>>)
  /\ NextAgent(s)
  /\ UNCHANGED <<gate, from, llm, stored, online, waited, age>>

Done(s) ==
  /\ At(s, "end")
  /\ Send(s, <<Ev("done", None)>>)
  /\ Goto(s, "closed")
  /\ UNCHANGED <<gate, from, llm, stored, online, waited, age>>

\* An exception nothing closer catches: a bad temperature or top_k of an
\* agent, before its status or after it, or the call's task raising.
Fatal(s) ==
  /\ gen[s].pc \in {"agent", "wait"}
  /\ Send(s, <<Ev("error", None), Ev("done", None)>>)
  /\ Goto(s, "closed")
  /\ UNCHANGED <<gate, from, llm, stored, online, waited, age>>

-----------------------------------------------------------------------------
(* The client.                                                             *)

Running(s) == gen[s].pc \in {"open", "agent", "wait", "chunks", "end"}

Disconnect(s) ==
  /\ Running(s)
  /\ online' = online \ {s}
  /\ UNCHANGED <<gate, from, gen, llm, stored, sent, waited, age>>

\* The generator finds the client gone (request.is_disconnected()), or its
\* task is cancelled for it: it ends without another event.
StopForDisconnect(s) ==
  /\ Running(s)
  /\ s \notin online
  /\ Goto(s, "closed")
  /\ UNCHANGED <<gate, from, llm, stored, sent, online, waited, age>>

-----------------------------------------------------------------------------
Request(s) == Acquire(s) \/ Refuse(s) \/ Retry(s)

Generate(s) ==
  \/ Start(s) \/ StartAgent(s) \/ Poll(s) \/ Timeout(s) \/ ServerBusy(s)
  \/ AgentFails(s) \/ StoreAnswer(s) \/ SendChunk(s) \/ AgentDone(s)
  \/ Done(s) \/ Fatal(s) \/ StopForDisconnect(s)

Next ==
  \E s \in Stream :
    Request(s) \/ Generate(s) \/ LlmReturns(s) \/ Disconnect(s)
      \/ ReleaseInBackground(s)

Spec == Init /\ [][Next]_vars

\* The event loop resumes every generator, the server runs the background
\* task of every response, and a call of the model ends: the client of the
\* provider is built with a timeout.
Fairness ==
  \A s \in Stream :
    /\ WF_vars(Generate(s))
    /\ WF_vars(LlmReturns(s))
    /\ WF_vars(ReleaseInBackground(s))

FairSpec == Spec /\ Fairness

-----------------------------------------------------------------------------
Admissions(ip) == {s \in admitted : from[s] = ip}

\* The counters of the gate are the numbers of streams let in, in all and per
\* address, so that no interleaving of requests lets in more than a limit
\* allows (_stream_acquire checks and counts under one lock).
GateCounts ==
  /\ active = Cardinality(admitted)
  /\ \A ip \in Ip : perIp[ip] = Cardinality(Admissions(ip))
  /\ MaxGlobal > 0 => active <= MaxGlobal
  /\ MaxPerIp > 0 => \A ip \in Ip : perIp[ip] <= MaxPerIp

Events(s, ev, i) == {n \in DOMAIN sent[s] : sent[s][n] = Ev(ev, i)}
OfAgent(s, i) == {n \in DOMAIN sent[s] : sent[s][n].agent = i}

\* "done" ends a stream and nothing else does: it is sent once, it is the
\* last event, and a stream that ended without it had lost its client.
DoneEndsStream ==
  \A s \in Stream :
    /\ \A n \in Events(s, "done", None) : n = Len(sent[s])
    /\ gen[s].pc \in {"closed", "gone"} /\ s \in online
         => Events(s, "done", None) # {}

\* Agents take turns: what is sent of one agent is sent after the "agent_done"
\* of the agents before it, and nothing of an agent follows its "agent_done".
AgentsTakeTurns ==
  \A s \in Stream : \A i \in Agent : \A n \in OfAgent(s, i) :
    /\ \A j \in 1 .. i - 1 : \E m \in Events(s, "agent_done", j) : m < n
    /\ \A m \in Events(s, "agent_done", i) : n <= m

\* What a client was sent can be read again: an agent's chunks are sent only
\* when its answer is stored, whatever failed or ended in between.  When the
\* stream ended without a stream-wide error, every agent has answered or failed.
SentIsStored ==
  \A s \in Stream :
    /\ \A i \in Agent : Events(s, "chunk", i) # {} => i \in stored[s]
    /\ Events(s, "done", None) # {} /\ Events(s, "error", None) = {}
         => \A i \in Agent : i \in stored[s] <=> Events(s, "error", i) = {}

\* The polling loop stops each agent's wait at the limit, so that a stream
\* cannot wait for longer than that per agent.
AgeBounded ==
  \A s \in Stream : TimeLimit > 0 => age[s] <= NAgents * (TimeLimit + 1)

\* A stream that was let in ends, whatever the model and the client do.
StreamsEnd == \A s \in Stream : s \in admitted ~> gen[s].pc = "gone"

\* README_DEPLOY: MAX_STREAM_SECONDS is the "teto total do stream", a cap on
\* the stream as a whole (one turn may begin before the limit is noticed).
TotalCap == \A s \in Stream : TimeLimit > 0 => age[s] <= TimeLimit + 1

\* _bg_release_stream is there to give a slot back when its stream is over:
\* when every stream let in has ended, no stream counts as active.
SlotsComeBack ==
  (admitted # {} /\ \A s \in admitted : gen[s].pc = "gone")
    ~> active < Cardinality(admitted)
=============================================================================
