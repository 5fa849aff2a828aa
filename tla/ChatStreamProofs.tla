-------------------------- MODULE ChatStreamProofs --------------------------
(* Proofs about ChatStream, for every set of streams and addresses, every  *)
(* number of agents and every limit.                                       *)
EXTENDS ChatStream, FiniteSetTheorems, SequenceTheorems, TLAPS

-----------------------------------------------------------------------------
\* Where a generator is: while an agent has its turn there is such an agent.
GenInv ==
  /\ gen \in [Stream -> Gen]
  /\ \A s \in Stream : gen[s].pc \in {"agent", "wait", "chunks"} => gen[s].i \in Agent
  /\ \A s \in Stream : gen[s].pc \in {"request", "refused", "open"} => gen[s].i = 1

BeforeGate(s) == gen[s].pc \in {"request", "refused"}

\* A change of pc alone keeps the invariant, when it follows the code's order.
LEMMA GotoKeepsGen ==
  ASSUME GenInv, NEW s \in Stream,
         NEW pc \in {"refused", "request", "open", "wait", "closed", "gone"},
         Goto(s, pc), pc = "wait" => gen[s].pc = "agent",
         pc \in {"refused", "request", "open"} => BeforeGate(s)
  PROVE  GenInv'
  BY DEF GenInv, Goto, Gen, BeforeGate

\* Going on to the next agent keeps the invariant: after the last one, the end.
LEMMA NextAgentKeepsGen ==
  ASSUME GenInv, NEW s \in Stream, gen[s].pc \in {"wait", "chunks"}, NextAgent(s)
  PROVE  GenInv'
<1> DEFINE g == [pc |-> IF gen[s].i = NAgents THEN "end" ELSE "agent",
                 i |-> gen[s].i + 1, k |-> 0]
<1>1. gen[s].i \in 1 .. NAgents
  BY DEF GenInv, Agent
<1>2. NAgents \in Nat /\ MaxChunks \in Nat
  BY LimitsAreNaturals
<1>3. g \in Gen /\ (g.pc = "agent" => g.i \in Agent)
  BY <1>1, <1>2 DEF Gen, Agent
<1>4. gen' = [gen EXCEPT ![s] = g]
  BY DEF NextAgent
<1> HIDE DEF g
<1>5. g.pc \in {"end", "agent"}
  BY DEF g
<1> QED
  BY <1>3, <1>4, <1>5 DEF GenInv

\* While an agent has its turn it is one of the agents of the stream, and the
\* chunks left to send stay within the answer: for every stream of chat_stream.
THEOREM GenCorrect == Spec => []GenInv
<1>1. Init => GenInv
  <2> SUFFICES ASSUME Init PROVE GenInv
    OBVIOUS
  <2> NAgents \in Nat /\ MaxChunks \in Nat
    BY LimitsAreNaturals
  <2> [pc |-> "request", i |-> 1, k |-> 0] \in Gen
    BY DEF Gen
  <2> QED BY DEF Init, GenInv
<1>2. GenInv /\ [Next]_vars => GenInv'
  <2> SUFFICES ASSUME GenInv, [Next]_vars PROVE GenInv'
    OBVIOUS
  <2>1. CASE UNCHANGED vars
    BY <2>1 DEF GenInv, vars
  <2> SUFFICES ASSUME NEW s \in Stream,
                      Request(s) \/ Generate(s) \/ LlmReturns(s) \/ Disconnect(s)
                        \/ ReleaseInBackground(s)
               PROVE  GenInv'
    BY <2>1 DEF Next
  <2> NAgents \in Nat /\ MaxChunks \in Nat
    BY LimitsAreNaturals
  <2> USE GotoKeepsGen, NextAgentKeepsGen DEF At
  <2>2. CASE Request(s)
    BY <2>2 DEF Request, Acquire, Refuse, Retry, BeforeGate
  <2>3. CASE Start(s)
    <3>1. gen[s].i = 1 /\ gen[s] \in Gen
      BY <2>3 DEF Start, GenInv
    <3> DEFINE pc == IF NAgents = 0 THEN "end" ELSE "agent"
    <3>2. gen' = [gen EXCEPT ![s].pc = pc]
      BY <2>3 DEF Start
    <3>3. pc \in {"end", "agent"} /\ (pc = "agent" => gen[s].i \in Agent)
      BY <3>1 DEF Agent
    <3> HIDE DEF pc
    <3> QED BY <3>1, <3>2, <3>3 DEF GenInv, Gen
  <2>4. CASE StartAgent(s)
    BY <2>4 DEF StartAgent
  <2>5. CASE Poll(s) \/ LlmReturns(s) \/ Disconnect(s)
    BY <2>5 DEF Poll, LlmReturns, Disconnect, GenInv
  <2>6. CASE Timeout(s) \/ ServerBusy(s) \/ Done(s) \/ Fatal(s) \/ StopForDisconnect(s)
               \/ ReleaseInBackground(s)
    BY <2>6 DEF Timeout, ServerBusy, Done, Fatal, StopForDisconnect, ReleaseInBackground
  <2>7. CASE AgentFails(s) \/ AgentDone(s)
    BY <2>7 DEF AgentFails, AgentDone
  <2>8. CASE StoreAnswer(s)
    <3>1. PICK n \in 0 .. MaxChunks : gen' = [gen EXCEPT ![s].pc = "chunks", ![s].k = n]
      BY <2>8 DEF StoreAnswer
    <3>2. gen[s].i \in Agent /\ gen \in [Stream -> Gen]
      BY <2>8 DEF StoreAnswer, GenInv
    <3>3. \A q \in Gen : [[q EXCEPT !.pc = "chunks"] EXCEPT !.k = n] \in Gen
      BY DEF Gen
    <3>4. gen' \in [Stream -> Gen]
      BY <3>1, <3>2, <3>3
    <3>5. gen'[s].pc = "chunks" /\ gen'[s].i = gen[s].i
          /\ \A v \in Stream \ {s} : gen'[v] = gen[v]
      BY <3>1, <3>2 DEF Gen
    <3> QED BY <3>2, <3>4, <3>5 DEF GenInv
  <2>9. CASE SendChunk(s)
    BY <2>9 DEF SendChunk, GenInv, Gen
  <2> QED
    BY <2>2, <2>3, <2>4, <2>5, <2>6, <2>7, <2>8, <2>9 DEF Generate
<1> QED
  BY <1>1, <1>2, PTL DEF Spec

-----------------------------------------------------------------------------
(* The gate.  Every step but Acquire leaves the counters alone and brings  *)
(* no stream back in front of the gate once it has passed.                 *)

GateInv ==
  /\ from \in [Stream -> Ip]
  /\ perIp \in [Ip -> Nat]
  /\ admitted \subseteq Stream
  /\ IsFiniteSet(admitted)
  /\ \A s \in Stream : BeforeGate(s) => s \notin admitted
  /\ GateCounts

\* The streams let in from one address are finitely many.
LEMMA AdmissionsFinite ==
  ASSUME IsFiniteSet(admitted), NEW ip
  PROVE  IsFiniteSet(Admissions(ip)) /\ Cardinality(Admissions(ip)) \in Nat
  BY FS_Subset, FS_CardinalityType DEF Admissions

\* No step but _stream_acquire changes the counters or leads back to the gate.
LEMMA OnlyAcquireCounts ==
  ASSUME GenInv, [Next]_vars
  PROVE  \/ \E s \in Stream : Acquire(s)
         \/ /\ UNCHANGED <<gate, from>>
            /\ \A v \in Stream : BeforeGate(v)' => BeforeGate(v)
<1>1. CASE UNCHANGED vars
  BY <1>1 DEF vars, gate, BeforeGate
<1> SUFFICES ASSUME NEW s \in Stream,
                    Refuse(s) \/ Retry(s) \/ Generate(s) \/ LlmReturns(s)
                      \/ Disconnect(s) \/ ReleaseInBackground(s)
             PROVE  /\ UNCHANGED <<gate, from>>
                    /\ \A v \in Stream : BeforeGate(v)' => BeforeGate(v)
  BY <1>1 DEF Next, Request
<1> USE DEF GenInv, Gen, BeforeGate, At, Goto, NextAgent
<1>2. CASE Refuse(s) \/ Retry(s) \/ ReleaseInBackground(s)
  BY <1>2 DEF Refuse, Retry, ReleaseInBackground
<1>3. CASE LlmReturns(s) \/ Disconnect(s) \/ Poll(s)
  BY <1>3 DEF LlmReturns, Disconnect, Poll
<1>4. CASE Start(s) \/ StartAgent(s)
  BY <1>4 DEF Start, StartAgent
<1>5. CASE Timeout(s) \/ ServerBusy(s) \/ Done(s) \/ Fatal(s) \/ StopForDisconnect(s)
  BY <1>5 DEF Timeout, ServerBusy, Done, Fatal, StopForDisconnect
<1>6. CASE AgentFails(s) \/ AgentDone(s)
  BY <1>6 DEF AgentFails, AgentDone
<1>7. CASE StoreAnswer(s) \/ SendChunk(s)
  BY <1>7 DEF StoreAnswer, SendChunk
<1> QED
  BY <1>2, <1>3, <1>4, <1>5, <1>6, <1>7 DEF Generate

\* A stream that is let in is counted once, in all and for its address.
LEMMA AcquireCounts ==
  ASSUME GenInv, GateInv, NEW s \in Stream, Acquire(s)
  PROVE  GateInv'
<1> USE DEF GateInv
<1>1. s \notin admitted
  BY DEF Acquire, At, BeforeGate
<1>2. IsFiniteSet(admitted') /\ Cardinality(admitted') = Cardinality(admitted) + 1
  BY <1>1, FS_AddElement DEF Acquire
<1>3. from[s] \in Ip /\ UNCHANGED from
  BY DEF Acquire
<1>4. ASSUME NEW ip \in Ip
      PROVE  Cardinality(Admissions(ip)') =
               Cardinality(Admissions(ip)) + (IF ip = from[s] THEN 1 ELSE 0)
  <2>1. s \notin Admissions(ip) /\ IsFiniteSet(Admissions(ip))
    BY <1>1, AdmissionsFinite DEF Admissions
  <2>2. CASE ip = from[s]
    <3>1. Admissions(ip)' = Admissions(ip) \cup {s}
      BY <1>3, <2>2 DEF Acquire, Admissions
    <3> QED BY <2>1, <2>2, <3>1, FS_AddElement
  <2>3. CASE ip # from[s]
    <3>1. Admissions(ip)' = Admissions(ip)
      BY <1>3, <2>3 DEF Acquire, Admissions
    <3>2. Cardinality(Admissions(ip)) \in Nat
      BY AdmissionsFinite
    <3> QED BY <2>3, <3>1, <3>2
  <2> QED BY <2>2, <2>3
<1>5. /\ perIp' \in [Ip -> Nat]
      /\ \A ip \in Ip : perIp'[ip] = perIp[ip] + (IF ip = from[s] THEN 1 ELSE 0)
  BY <1>3 DEF Acquire
<1>6. MaxGlobal \in Nat /\ MaxPerIp \in Nat /\ Cardinality(admitted) \in Nat
  BY LimitsAreNaturals, FS_CardinalityType
<1>7. \A v \in Stream : BeforeGate(v)' => BeforeGate(v) /\ v # s
  BY DEF Acquire, Goto, GenInv, Gen, BeforeGate
<1>8. active' = active + 1 /\ admitted' = admitted \cup {s} /\ ~ Full(from[s])
  BY DEF Acquire
<1>9. \A ip \in Ip : perIp'[ip] = Cardinality(Admissions(ip)')
  BY <1>4, <1>5 DEF GateCounts
<1>10. MaxGlobal > 0 => active' <= MaxGlobal
  BY <1>6, <1>8 DEF Full, GateCounts
<1>11. MaxPerIp > 0 => \A ip \in Ip : perIp'[ip] <= MaxPerIp
  BY <1>3, <1>5, <1>6, <1>8 DEF Full, GateCounts
<1>12. active' = Cardinality(admitted')
  BY <1>2, <1>8 DEF GateCounts
<1>13. GateCounts'
  BY <1>9, <1>10, <1>11, <1>12 DEF GateCounts
<1> QED
  BY <1>2, <1>3, <1>5, <1>7, <1>8, <1>13

\* The gate's invariant holds of every state that chat_stream can reach.
THEOREM GateInvariant == Spec => []GateInv
<1>1. Init => GateInv
  <2> SUFFICES ASSUME Init PROVE GateInv
    OBVIOUS
  <2>1. \A ip \in Ip : Admissions(ip) = {}
    BY DEF Init, Admissions
  <2>2. MaxGlobal \in Nat /\ MaxPerIp \in Nat
    BY LimitsAreNaturals
  <2>3. IsFiniteSet({}) /\ Cardinality({}) = 0
    BY FS_EmptySet
  <2>4. active = 0 /\ admitted = {} /\ \A ip \in Ip : perIp[ip] = 0
    BY DEF Init
  <2>5. GateCounts
    BY <2>1, <2>2, <2>3, <2>4 DEF GateCounts
  <2> QED BY <2>3, <2>4, <2>5 DEF Init, GateInv
<1>2. GenInv /\ GateInv /\ [Next]_vars => GateInv'
  <2> SUFFICES ASSUME GenInv, GateInv, [Next]_vars PROVE GateInv'
    OBVIOUS
  <2>1. CASE \E s \in Stream : Acquire(s)
    BY <2>1, AcquireCounts
  <2>2. CASE /\ UNCHANGED <<gate, from>>
             /\ \A v \in Stream : BeforeGate(v)' => BeforeGate(v)
    BY <2>2 DEF gate, GateInv, GateCounts, Admissions
  <2> QED BY <2>1, <2>2, OnlyAcquireCounts
<1> QED
  BY <1>1, <1>2, GenCorrect, PTL DEF Spec

\* _stream_acquire's counters count the streams let in, and never exceed the
\* limits, whatever number of requests race for the gate.
THEOREM GateCountsCorrect == Spec => []GateCounts
<1>1. GateInv => GateCounts
  BY DEF GateInv
<1> QED
  BY <1>1, GateInvariant, PTL

-----------------------------------------------------------------------------
(* What is sent.                                                           *)

\* A stream's events after one more, and after two more, have been sent.
LEMMA SendOne ==
  ASSUME sent \in [Stream -> Seq(Event)], NEW s \in Stream, NEW e \in Event, Send(s, <<e>>)
  PROVE  /\ sent' \in [Stream -> Seq(Event)]
         /\ \A v \in Stream \ {s} : sent'[v] = sent[v]
         /\ Len(sent[s]) \in Nat /\ Len(sent'[s]) = Len(sent[s]) + 1
         /\ DOMAIN sent[s] = 1 .. Len(sent[s])
         /\ DOMAIN sent'[s] = 1 .. Len(sent[s]) + 1
         /\ \A n \in 1 .. Len(sent[s]) : sent'[s][n] = sent[s][n]
         /\ sent'[s][Len(sent[s]) + 1] = e
<1>1. <<e>> \in Seq(Event) /\ Len(<<e>>) = 1
  OBVIOUS
<1>2. /\ sent'[s] = sent[s] \o <<e>>
      /\ \A v \in Stream \ {s} : sent'[v] = sent[v]
      /\ sent[s] \in Seq(Event)
  BY DEF Send
<1>3. sent[s] \o <<e>> \in Seq(Event)
  BY <1>1, <1>2, ConcatProperties
<1>4. sent' \in [Stream -> Seq(Event)]
  BY <1>2, <1>3 DEF Send
<1> QED BY <1>1, <1>2, <1>3, <1>4, ConcatProperties, LenProperties

LEMMA SendTwo ==
  ASSUME sent \in [Stream -> Seq(Event)], NEW s \in Stream,
         NEW e \in Event, NEW f \in Event, Send(s, <<e, f>>)
  PROVE  /\ sent' \in [Stream -> Seq(Event)]
         /\ \A v \in Stream \ {s} : sent'[v] = sent[v]
         /\ Len(sent[s]) \in Nat /\ Len(sent'[s]) = Len(sent[s]) + 2
         /\ DOMAIN sent[s] = 1 .. Len(sent[s])
         /\ DOMAIN sent'[s] = 1 .. Len(sent[s]) + 2
         /\ \A n \in 1 .. Len(sent[s]) : sent'[s][n] = sent[s][n]
         /\ sent'[s][Len(sent[s]) + 1] = e
         /\ sent'[s][Len(sent[s]) + 2] = f
<1>1. <<e, f>> \in Seq(Event) /\ Len(<<e, f>>) = 2
  OBVIOUS
<1>2. /\ sent'[s] = sent[s] \o <<e, f>>
      /\ \A v \in Stream \ {s} : sent'[v] = sent[v]
      /\ sent[s] \in Seq(Event)
  BY DEF Send
<1>3. sent[s] \o <<e, f>> \in Seq(Event)
  BY <1>1, <1>2, ConcatProperties
<1>4. sent' \in [Stream -> Seq(Event)]
  BY <1>2, <1>3 DEF Send
<1> QED BY <1>1, <1>2, <1>3, <1>4, ConcatProperties, LenProperties

\* The type invariant: every counter, generator, call and event of every stream
\* is what chat_stream says it is; a wait is noticed one turn after the limit.
THEOREM TypeCorrect == Spec => []TypeOK
<1>1. Init => TypeOK
  <2> SUFFICES ASSUME Init PROVE TypeOK
    OBVIOUS
  <2> NAgents \in Nat /\ MaxChunks \in Nat /\ TimeLimit \in Nat
    BY LimitsAreNaturals
  <2> [pc |-> "request", i |-> 1, k |-> 0] \in Gen /\ << >> \in Seq(Event)
    BY DEF Gen
  <2> QED BY DEF Init, TypeOK
<1>2. GenInv /\ GenInv' /\ TypeOK /\ [Next]_vars => TypeOK'
  <2> SUFFICES ASSUME GenInv, GenInv', TypeOK, [Next]_vars PROVE TypeOK'
    OBVIOUS
  <2>0. gen' \in [Stream -> Gen] /\ TimeLimit \in Nat /\ MaxChunks \in Nat
    BY LimitsAreNaturals DEF GenInv
  <2> HIDE DEF GenInv
  <2>1. CASE UNCHANGED vars
    BY <2>1 DEF TypeOK, vars
  <2> SUFFICES ASSUME NEW s \in Stream,
                      Request(s) \/ Generate(s) \/ LlmReturns(s) \/ Disconnect(s)
                        \/ ReleaseInBackground(s)
               PROVE  TypeOK'
    BY <2>1 DEF Next
  <2>2. \A i \in Agent \cup {None}, ev \in {"status", "chunk", "error", "agent_done", "done"} :
          Ev(ev, i) \in Event
    BY DEF Ev, Event
  <2>3. gen[s].pc \in {"agent", "wait", "chunks"} => gen[s].i \in Agent
    BY DEF GenInv
  <2> USE DEF TypeOK, gate
  <2>4. CASE Acquire(s)
    BY <2>0, <2>4 DEF Acquire
  <2>5. CASE Refuse(s) \/ Retry(s) \/ ReleaseInBackground(s) \/ StopForDisconnect(s)
    BY <2>0, <2>5 DEF Refuse, Retry, ReleaseInBackground, StopForDisconnect
  <2>6. CASE Disconnect(s)
    BY <2>6 DEF Disconnect
  <2>7. CASE LlmReturns(s)
    BY <2>7 DEF LlmReturns
  <2>8. CASE Poll(s)
    <3>1. waited[s] \in 0 .. TimeLimit
      BY <2>0, <2>8 DEF Poll, TimedOut
    <3> QED BY <2>0, <2>8, <3>1 DEF Poll
  <2>9. CASE StoreAnswer(s)
    <3>1. stored' \in [Stream -> SUBSET Agent]
      BY <2>3, <2>9 DEF StoreAnswer, At
    <3> QED BY <2>0, <2>9, <3>1 DEF StoreAnswer
  <2>10. CASE Start(s) \/ Done(s) \/ SendChunk(s) \/ AgentDone(s)
    <3>1. sent' \in [Stream -> Seq(Event)]
      BY <2>2, <2>3, <2>10, SendOne DEF Start, Done, SendChunk, AgentDone, At
    <3> QED BY <2>0, <2>10, <3>1 DEF Start, Done, SendChunk, AgentDone
  <2>11. CASE StartAgent(s)
    <3>1. sent' \in [Stream -> Seq(Event)]
      BY <2>2, <2>3, <2>11, SendOne DEF StartAgent, At
    <3>2. waited' \in [Stream -> 0 .. TimeLimit + 1]
      BY <2>0, <2>11 DEF StartAgent
    <3>3. llm' \in [Stream -> {"none", "running", "answered", "busy", "failed"}]
      BY <2>11 DEF StartAgent
    <3> QED BY <2>0, <2>11, <3>1, <3>2, <3>3 DEF StartAgent
  <2>12. CASE Timeout(s) \/ ServerBusy(s) \/ Fatal(s) \/ AgentFails(s)
    <3>1. sent' \in [Stream -> Seq(Event)]
      BY <2>2, <2>3, <2>12, SendTwo DEF Timeout, ServerBusy, Fatal, AgentFails, At
    <3> QED BY <2>0, <2>12, <3>1 DEF Timeout, ServerBusy, Fatal, AgentFails
  <2> QED
    BY <2>4, <2>5, <2>6, <2>7, <2>8, <2>9, <2>10, <2>11, <2>12 DEF Request, Generate
<1> QED BY <1>1, <1>2, GenCorrect, PTL DEF Spec

-----------------------------------------------------------------------------
(* A stream's invariant: what has been sent, stored and waited, against    *)
(* where its generator is.                                                 *)

Said(s, ev, j) == Events(s, ev, j) # {}
Early == {"request", "refused", "open", "agent"}
Over(s) == gen[s].pc \in {"closed", "gone"}

\* The stream's own events.
EndInv(s) ==
  /\ \A n \in Events(s, "done", None) : n = Len(sent[s])
  /\ Said(s, "done", None) \/ Said(s, "error", None) => Over(s)
  /\ Over(s) /\ s \in online => Said(s, "done", None)
  /\ Said(s, "done", None) /\ ~ Said(s, "error", None) => gen[s].i > NAgents
  /\ gen[s].pc = "end" => gen[s].i > NAgents

\* The agents before the one whose turn it is are done, the later ones have
\* not begun.
TurnInv(s) ==
  /\ \A j \in Agent : OfAgent(s, j) # {} => j <= gen[s].i
  /\ \A j \in Agent : Said(s, "error", j) => j < gen[s].i
  /\ gen[s].pc \in Early => OfAgent(s, gen[s].i) = {}
  /\ \A j \in Agent : Said(s, "agent_done", j) <=> j < gen[s].i
  /\ \A j \in Agent : \A n \in OfAgent(s, j) :
       /\ \A k \in 1 .. j - 1 : \E m \in Events(s, "agent_done", k) : m < n
       /\ \A m \in Events(s, "agent_done", j) : n <= m

\* The answers in the table, and the chunks of them.
StoredInv(s) ==
  /\ stored[s] \subseteq Agent
  /\ \A j \in stored[s] : j <= gen[s].i
  /\ gen[s].pc \in Early \cup {"wait"} => gen[s].i \notin stored[s]
  /\ gen[s].pc = "chunks" => gen[s].i \in stored[s]
  /\ \A j \in Agent : Said(s, "chunk", j) => j \in stored[s]
  /\ \A j \in Agent : j < gen[s].i => (j \in stored[s] <=> ~ Said(s, "error", j))

\* The turns of the polling loop so far, by where the generator is.
AgeInv(s) ==
  LET L == TimeLimit + 1
      before == (gen[s].i - 1) * L
  IN  /\ gen[s].pc \in {"request", "refused", "open"} => age[s] = 0
      /\ gen[s].pc = "agent" => age[s] <= before
      /\ gen[s].pc = "wait" => age[s] <= before + waited[s] /\ waited[s] <= L
      /\ gen[s].pc = "chunks" => age[s] <= before + L
      /\ age[s] <= NAgents * L

StreamInv(s) == EndInv(s) /\ TurnInv(s) /\ StoredInv(s) /\ (TimeLimit > 0 => AgeInv(s))

Kind == {"status", "chunk", "error", "agent_done", "done"}

\* The positions of a stream's events after a step that sends one or two more.
LEMMA SaidOne ==
  ASSUME sent \in [Stream -> Seq(Event)], NEW s \in Stream,
         NEW e \in Kind, NEW i \in Agent \cup {None}, Send(s, <<Ev(e, i)>>)
  PROVE  /\ Len(sent[s]) \in Nat /\ Len(sent'[s]) = Len(sent[s]) + 1
         /\ \A ev, j : Events(s, ev, j) \subseteq 1 .. Len(sent[s])
         /\ \A ev, j : ev # e \/ j # i => Events(s, ev, j)' = Events(s, ev, j)
         /\ Events(s, e, i)' = Events(s, e, i) \cup {Len(sent[s]) + 1}
         /\ \A j : OfAgent(s, j) \subseteq 1 .. Len(sent[s])
         /\ \A j : j # i => OfAgent(s, j)' = OfAgent(s, j)
         /\ OfAgent(s, i)' = OfAgent(s, i) \cup {Len(sent[s]) + 1}
<1> DEFINE n == Len(sent[s])
<1>0. Ev(e, i) \in Event
  BY DEF Ev, Event, Kind
<1>1. /\ n \in Nat /\ Len(sent'[s]) = n + 1
      /\ DOMAIN sent[s] = 1 .. n /\ DOMAIN sent'[s] = 1 .. n + 1
      /\ \A m \in 1 .. n : sent'[s][m] = sent[s][m]
      /\ sent'[s][n + 1] = Ev(e, i)
  BY <1>0, SendOne
<1>2. 1 .. n + 1 = 1 .. n \cup {n + 1}
  BY <1>1
<1>3. /\ \A ev, j : Ev(e, i) = Ev(ev, j) <=> ev = e /\ j = i
      /\ Ev(e, i).agent = i
  BY DEF Ev
<1> HIDE DEF n
<1>4. /\ \A ev, j : Events(s, ev, j) \subseteq 1 .. n
      /\ \A ev, j : ev # e \/ j # i => Events(s, ev, j)' = Events(s, ev, j)
      /\ Events(s, e, i)' = Events(s, e, i) \cup {n + 1}
  BY <1>1, <1>2, <1>3 DEF Events
<1>5. /\ \A j : OfAgent(s, j) \subseteq 1 .. n
      /\ \A j : j # i => OfAgent(s, j)' = OfAgent(s, j)
      /\ OfAgent(s, i)' = OfAgent(s, i) \cup {n + 1}
  BY <1>1, <1>2, <1>3 DEF OfAgent
<1> QED BY <1>1, <1>4, <1>5 DEF n

LEMMA SaidTwo ==
  ASSUME sent \in [Stream -> Seq(Event)], NEW s \in Stream,
         NEW e \in Kind, NEW f \in Kind, e # f, NEW i \in Agent \cup {None},
         Send(s, <<Ev(e, i), Ev(f, i)>>)
  PROVE  /\ Len(sent[s]) \in Nat /\ Len(sent'[s]) = Len(sent[s]) + 2
         /\ \A ev, j : Events(s, ev, j) \subseteq 1 .. Len(sent[s])
         /\ \A ev, j : ev \notin {e, f} \/ j # i => Events(s, ev, j)' = Events(s, ev, j)
         /\ Events(s, e, i)' = Events(s, e, i) \cup {Len(sent[s]) + 1}
         /\ Events(s, f, i)' = Events(s, f, i) \cup {Len(sent[s]) + 2}
         /\ \A j : OfAgent(s, j) \subseteq 1 .. Len(sent[s])
         /\ \A j : j # i => OfAgent(s, j)' = OfAgent(s, j)
         /\ OfAgent(s, i)' = OfAgent(s, i) \cup {Len(sent[s]) + 1, Len(sent[s]) + 2}
<1> DEFINE n == Len(sent[s])
<1>0. Ev(e, i) \in Event /\ Ev(f, i) \in Event
  BY DEF Ev, Event, Kind
<1>1. /\ n \in Nat /\ Len(sent'[s]) = n + 2
      /\ DOMAIN sent[s] = 1 .. n /\ DOMAIN sent'[s] = 1 .. n + 2
      /\ \A m \in 1 .. n : sent'[s][m] = sent[s][m]
      /\ sent'[s][n + 1] = Ev(e, i) /\ sent'[s][n + 2] = Ev(f, i)
  BY <1>0, SendTwo
<1>2. 1 .. n + 2 = 1 .. n \cup {n + 1, n + 2}
  BY <1>1
<1>3. /\ \A ev, j : Ev(e, i) = Ev(ev, j) <=> ev = e /\ j = i
      /\ \A ev, j : Ev(f, i) = Ev(ev, j) <=> ev = f /\ j = i
      /\ Ev(e, i).agent = i /\ Ev(f, i).agent = i
  BY DEF Ev
<1> HIDE DEF n
<1>4. /\ \A ev, j : Events(s, ev, j) \subseteq 1 .. n
      /\ \A ev, j : ev \notin {e, f} \/ j # i => Events(s, ev, j)' = Events(s, ev, j)
      /\ Events(s, e, i)' = Events(s, e, i) \cup {n + 1}
      /\ Events(s, f, i)' = Events(s, f, i) \cup {n + 2}
  BY <1>1, <1>2, <1>3 DEF Events
<1>5. /\ \A j : OfAgent(s, j) \subseteq 1 .. n
      /\ \A j : j # i => OfAgent(s, j)' = OfAgent(s, j)
      /\ OfAgent(s, i)' = OfAgent(s, i) \cup {n + 1, n + 2}
  BY <1>1, <1>2, <1>3 DEF OfAgent
<1> QED BY <1>1, <1>4, <1>5 DEF n

\* A step that changes nothing of a stream but whether its client is there.
LEMMA Elsewhere ==
  ASSUME NEW v \in Stream, StreamInv(v),
         gen'[v].pc = gen[v].pc, gen'[v].i = gen[v].i, sent'[v] = sent[v],
         stored'[v] = stored[v], age'[v] = age[v], waited'[v] = waited[v], online' \subseteq online
  PROVE  StreamInv(v)'
<1>1. /\ \A ev, j : Events(v, ev, j)' = Events(v, ev, j)
      /\ \A j : OfAgent(v, j)' = OfAgent(v, j)
  BY DEF Events, OfAgent
<1>2. EndInv(v)'
  BY <1>1 DEF StreamInv, EndInv, Said, Over
<1>3. TurnInv(v)'
  BY <1>1 DEF StreamInv, TurnInv, Said
<1>4. StoredInv(v)'
  BY <1>1 DEF StreamInv, StoredInv, Said
<1>5. AgeInv(v) => AgeInv(v)'
  BY DEF AgeInv
<1> QED BY <1>2, <1>3, <1>4, <1>5 DEF StreamInv

\* A step in front of the gate or after the end, or for a client that left.
LEMMA QuietStep ==
  ASSUME NEW s \in Stream, StreamInv(s),
         sent'[s] = sent[s], stored'[s] = stored[s], age'[s] = age[s], waited'[s] = waited[s],
         online' \subseteq online, gen'[s].i = gen[s].i,
         \/ gen'[s].pc \in {"request", "refused", "open"} /\ gen[s].pc \in {"request", "refused"}
         \/ gen'[s].pc = "gone" /\ gen[s].pc = "closed"
         \/ gen'[s].pc = "closed" /\ Running(s) /\ s \notin online
  PROVE  StreamInv(s)'
<1>1. /\ \A ev, j : Events(s, ev, j)' = Events(s, ev, j)
      /\ \A j : OfAgent(s, j)' = OfAgent(s, j)
  BY DEF Events, OfAgent
<1>2. EndInv(s)'
  BY <1>1 DEF StreamInv, EndInv, Said, Over, Running
<1>3. TurnInv(s)'
  BY <1>1 DEF StreamInv, TurnInv, Said, Early
<1>4. StoredInv(s)'
  BY <1>1 DEF StreamInv, StoredInv, Said, Early
<1>5. AgeInv(s) => AgeInv(s)'
  BY DEF AgeInv
<1> QED BY <1>2, <1>3, <1>4, <1>5 DEF StreamInv

\* The wait of one agent more, and of the agents so far.
LEMMA Waits ==
  ASSUME NEW i \in Nat, NEW n \in Nat, NEW l \in Nat
  PROVE  /\ (i - 1) * l \in Int /\ n * l \in Nat
         /\ ((i + 1) - 1) * l = (i - 1) * l + l
         /\ i <= n => (i - 1) * l + l <= n * l
         /\ (1 - 1) * l = 0
<1>1. ((i + 1) - 1) * l = (i - 1) * l + l
  OBVIOUS
<1>2. ASSUME i <= n PROVE (i - 1) * l + l <= n * l
  <2>1. PICK d \in Nat : n = i + d
    BY <1>2
  <2>2. n * l = i * l + d * l /\ d * l >= 0
    BY <2>1
  <2> QED BY <1>1, <2>2
<1> QED BY <1>1, <1>2

\* The same of an agent's wait and of a stream's, in ticks of the time limit.
LEMMA WaitsOfAgent ==
  ASSUME TypeOK, NEW s \in Stream, NEW i \in Nat
  PROVE  /\ age[s] \in Nat /\ waited[s] \in Nat
         /\ (i - 1) * (TimeLimit + 1) \in Int /\ NAgents * (TimeLimit + 1) \in Nat
         /\ i <= NAgents => (i - 1) * (TimeLimit + 1) + (TimeLimit + 1)
                             <= NAgents * (TimeLimit + 1)
<1>1. age[s] \in Nat /\ waited[s] \in 0 .. TimeLimit + 1
  BY DEF TypeOK
<1>2. NAgents \in Nat /\ TimeLimit \in Nat
  BY LimitsAreNaturals
<1>3. PICK l \in Nat : l = TimeLimit + 1
  BY <1>2
<1>4. (i - 1) * l \in Int /\ NAgents * l \in Nat
  BY <1>2, Waits
<1>5. i <= NAgents => (i - 1) * l + l <= NAgents * l
  BY <1>2, Waits
<1> QED BY <1>1, <1>3, <1>4, <1>5

\* The steps of a generator, of the stream whose generator it is.
LEMMA StartStep ==
  ASSUME TypeOK, GenInv, NEW s \in Stream, StreamInv(s), Start(s)
  PROVE  StreamInv(s)'
<1> USE LimitsAreNaturals
<1>1. /\ gen[s].pc = "open" /\ gen[s].i = 1
      /\ gen'[s].i = 1 /\ gen'[s].pc = IF NAgents = 0 THEN "end" ELSE "agent"
      /\ Send(s, <<Ev("status", None)>>)
      /\ UNCHANGED <<stored, online, waited, age>>
  BY DEF Start, At, GenInv, Gen
<1>0. /\ "status" \in Kind /\ None \in Agent \cup {None}
      /\ sent \in [Stream -> Seq(Event)]
  BY DEF TypeOK, Kind
<1>2. /\ \A ev, j : ev # "status" => Events(s, ev, j)' = Events(s, ev, j)
      /\ \A j : j # None => OfAgent(s, j)' = OfAgent(s, j)
      /\ \A ev, j : Events(s, ev, j) \subseteq 1 .. Len(sent[s])
      /\ Len(sent[s]) \in Nat /\ Len(sent'[s]) = Len(sent[s]) + 1
  BY <1>0, <1>1, SaidOne
<1>3. None \notin Agent /\ 1 # None /\ (NAgents = 0 => Agent = {})
  BY DEF None, Agent
<1>4. EndInv(s)'
  BY <1>1, <1>2, <1>3 DEF StreamInv, EndInv, Said, Over
<1>5. TurnInv(s)'
  <2>1. OfAgent(s, gen[s].i)' = {}
    <3>1. OfAgent(s, 1) = {}
      BY <1>1 DEF StreamInv, TurnInv, Early
    <3>2. OfAgent(s, 1)' = {}
      BY <1>2, <1>3, <3>1
    <3> QED BY <1>1, <3>2 DEF OfAgent
  <2>2. \A j \in Agent : OfAgent(s, j)' = OfAgent(s, j)
    BY <1>2, <1>3
  <2> QED BY <1>1, <1>2, <2>1, <2>2 DEF StreamInv, TurnInv, Said
<1>6. StoredInv(s)'
  BY <1>1, <1>2, <1>3 DEF StreamInv, StoredInv, Said, Early
<1>7. ASSUME TimeLimit > 0, AgeInv(s) PROVE AgeInv(s)'
  BY <1>1, <1>7, Waits DEF AgeInv
<1> QED BY <1>1, <1>4, <1>5, <1>6, <1>7 DEF StreamInv

LEMMA StartAgentStep ==
  ASSUME TypeOK, GenInv, NEW s \in Stream, StreamInv(s), StartAgent(s)
  PROVE  StreamInv(s)'
<1> USE LimitsAreNaturals
<1>0. PICK i \in Agent : i = gen[s].i
  BY DEF StartAgent, At, GenInv
<1>1. /\ gen[s].pc = "agent" /\ i \in Agent
      /\ gen'[s].i = i /\ gen'[s].pc = "wait"
      /\ Send(s, <<Ev("status", i)>>)
      /\ waited'[s] = 0
      /\ UNCHANGED <<stored, online, age>>
  BY <1>0 DEF StartAgent, At, Goto, TypeOK
<1>2. /\ \A ev, j : ev # "status" => Events(s, ev, j)' = Events(s, ev, j)
      /\ \A j : j # i => OfAgent(s, j)' = OfAgent(s, j)
      /\ OfAgent(s, i)' = OfAgent(s, i) \cup {Len(sent[s]) + 1}
      /\ \A ev, j : Events(s, ev, j) \subseteq 1 .. Len(sent[s])
      /\ Len(sent[s]) \in Nat /\ Len(sent'[s]) = Len(sent[s]) + 1
  BY <1>1, SaidOne DEF TypeOK, Kind
<1>3. i = gen[s].i /\ Agent \subseteq Nat \ {0} /\ i \in Nat
  BY <1>0 DEF Agent
<1>4. EndInv(s)'
  BY <1>1, <1>2, <1>3 DEF StreamInv, EndInv, Said, Over
<1>5. TurnInv(s)'
  <2>1. \A j \in 1 .. i - 1 : Events(s, "agent_done", j) # {} /\ j \in Agent
    BY <1>1, <1>3 DEF StreamInv, TurnInv, Said, Agent
  <2>2. Events(s, "agent_done", i) = {}
    BY <1>1, <1>3 DEF StreamInv, TurnInv, Said
  <2>3. \A n \in OfAgent(s, i)' :
          /\ \A k \in 1 .. i - 1 : \E m \in Events(s, "agent_done", k) : m < n
          /\ \A m \in Events(s, "agent_done", i) : n <= m
    <3>1. OfAgent(s, i) = {}
      BY <1>1, <1>3 DEF StreamInv, TurnInv, Early
    <3> QED BY <1>2, <2>1, <2>2, <3>1
  <2>4. \A j \in Agent \ {i} : \A n \in OfAgent(s, j)' :
          /\ \A k \in 1 .. j - 1 : \E m \in Events(s, "agent_done", k) : m < n
          /\ \A m \in Events(s, "agent_done", j) : n <= m
    BY <1>2 DEF StreamInv, TurnInv
  <2>5. \A ev, j : ev # "status" => Events(s, ev, j)' = Events(s, ev, j)
    BY <1>2
  <2>6. \A j \in Agent : OfAgent(s, j)' # {} => j <= gen'[s].i
    BY <1>1, <1>2, <1>3 DEF StreamInv, TurnInv
  <2>7. \A j \in Agent : /\ Said(s, "error", j)' => j < gen'[s].i
                         /\ Said(s, "agent_done", j)' <=> j < gen'[s].i
    BY <1>1, <1>3, <2>5 DEF StreamInv, TurnInv, Said
  <2>8. gen'[s].pc \notin Early
    BY <1>1 DEF Early
  <2> QED BY <2>3, <2>4, <2>5, <2>6, <2>7, <2>8 DEF TurnInv
<1>6. StoredInv(s)'
  BY <1>1, <1>2, <1>3 DEF StreamInv, StoredInv, Said, Early
<1>7. ASSUME TimeLimit > 0, AgeInv(s) PROVE AgeInv(s)'
  BY <1>1, <1>3, <1>7, Waits DEF AgeInv
<1> QED BY <1>1, <1>4, <1>5, <1>6, <1>7 DEF StreamInv

\* One event of the agent whose turn it is, after others of it: a chunk, or the
\* end of its answer.
LEMMA AnswerStep ==
  ASSUME TypeOK, GenInv, NEW s \in Stream, StreamInv(s), SendChunk(s) \/ AgentDone(s)
  PROVE  StreamInv(s)'
<1> USE LimitsAreNaturals
<1>0. PICK i \in Agent, ev \in Kind :
        /\ i = gen[s].i
        /\ \/ ev = "chunk" /\ SendChunk(s)
           \/ ev = "agent_done" /\ AgentDone(s)
  BY DEF SendChunk, AgentDone, At, GenInv, Kind
<1>1. /\ gen[s].pc = "chunks" /\ i \in Agent
      /\ Send(s, <<Ev(ev, i)>>)
      /\ UNCHANGED <<stored, online, waited, age>>
  BY <1>0 DEF SendChunk, AgentDone, At
<1>2. \/ ev = "chunk" /\ gen'[s].pc = "chunks" /\ gen'[s].i = i
      \/ /\ ev = "agent_done" /\ gen'[s].i = i + 1
         /\ gen'[s].pc = IF i = NAgents THEN "end" ELSE "agent"
  <2> gen \in [Stream -> Gen]
    BY DEF TypeOK
  <2>1. CASE ev = "chunk" /\ SendChunk(s)
    BY <1>0, <2>1 DEF SendChunk, At, Gen
  <2>2. CASE ev = "agent_done" /\ AgentDone(s)
    BY <1>0, <2>2 DEF AgentDone, NextAgent
  <2> QED BY <1>0, <2>1, <2>2
<1>3. i = gen[s].i /\ Agent \subseteq Nat \ {0} /\ i \in Nat /\ i <= NAgents
  BY <1>0 DEF Agent
<1>4. /\ \A e, j : e # ev \/ j # i => Events(s, e, j)' = Events(s, e, j)
      /\ Events(s, ev, i)' = Events(s, ev, i) \cup {Len(sent[s]) + 1}
      /\ \A j : j # i => OfAgent(s, j)' = OfAgent(s, j)
      /\ OfAgent(s, i)' = OfAgent(s, i) \cup {Len(sent[s]) + 1}
      /\ OfAgent(s, i) \subseteq 1 .. Len(sent[s])
      /\ \A e, j : Events(s, e, j) \subseteq 1 .. Len(sent[s])
      /\ Len(sent[s]) \in Nat /\ Len(sent'[s]) = Len(sent[s]) + 1
  BY <1>1, SaidOne DEF TypeOK
<1>5. None \notin Agent
  BY <1>3 DEF None
<1>6. EndInv(s)'
  BY <1>1, <1>2, <1>3, <1>4, <1>5 DEF StreamInv, EndInv, Said, Over
<1>7. TurnInv(s)'
  <2>1. \A j \in 1 .. i - 1 : Events(s, "agent_done", j) # {} /\ j \in Agent
    BY <1>1, <1>3 DEF StreamInv, TurnInv, Said, Agent
  <2>2. Events(s, "agent_done", i) = {}
    BY <1>1, <1>3 DEF StreamInv, TurnInv, Said
  <2>3. \A n \in OfAgent(s, i)' :
          /\ \A k \in 1 .. i - 1 : \E m \in Events(s, "agent_done", k)' : m < n
          /\ \A m \in Events(s, "agent_done", i)' : n <= m
    <3>1. \A n \in OfAgent(s, i) : \A k \in 1 .. i - 1 :
            \E m \in Events(s, "agent_done", k) : m < n
      BY <1>1, <1>3 DEF StreamInv, TurnInv
    <3>2. \A k \in 1 .. i - 1 : Events(s, "agent_done", k)' = Events(s, "agent_done", k)
      BY <1>3, <1>4
    <3>3. \A k \in 1 .. i - 1 : \E m \in Events(s, "agent_done", k) : m < Len(sent[s]) + 1
      BY <1>4, <2>1
    <3>4. \A n \in OfAgent(s, i)' : n <= Len(sent[s]) + 1
      BY <1>4
    <3>5. Events(s, "agent_done", i)' \subseteq {Len(sent[s]) + 1}
      BY <1>2, <1>4, <2>2
    <3> QED BY <1>4, <3>1, <3>2, <3>3, <3>4, <3>5
  <2>4. \A j \in Agent \ {i} : \A n \in OfAgent(s, j)' :
          /\ \A k \in 1 .. j - 1 : \E m \in Events(s, "agent_done", k)' : m < n
          /\ \A m \in Events(s, "agent_done", j)' : n <= m
    <3>1. \A j \in Agent \ {i} : \A n \in OfAgent(s, j) :
          /\ \A k \in 1 .. j - 1 : \E m \in Events(s, "agent_done", k) : m < n
          /\ \A m \in Events(s, "agent_done", j) : n <= m
      BY DEF StreamInv, TurnInv
    <3>2. \A k : Events(s, "agent_done", k) \subseteq Events(s, "agent_done", k)'
      BY <1>4
    <3> QED BY <1>4, <3>1, <3>2
  <2>5. \A j \in Agent : OfAgent(s, j) # {} => j <= i
    BY <1>3 DEF StreamInv, TurnInv
  <2>6. \A j \in Agent : OfAgent(s, j)' # {} => j <= gen'[s].i
    BY <1>2, <1>3, <1>4, <2>5
  <2>7. gen'[s].pc \in Early => OfAgent(s, gen[s].i)' = {}
    <3>1. CASE gen'[s].pc \notin Early
      BY <3>1
    <3>2. CASE gen'[s].pc \in Early
      <4>1. gen'[s].i = i + 1 /\ i + 1 \in Agent
        BY <1>2, <1>3, <3>2 DEF Early, Agent
      <4>2. OfAgent(s, i + 1)' = {}
        BY <1>3, <1>4, <2>5, <4>1
      <4> QED BY <4>1, <4>2 DEF OfAgent
    <3> QED BY <3>1, <3>2
  <2>8. \A j \in Agent : Said(s, "error", j)' => j < gen'[s].i
    <3>1. \A j \in Agent : Events(s, "error", j)' # {} => j < i
      BY <1>2, <1>3, <1>4 DEF StreamInv, TurnInv, Said
    <3>2. gen'[s].i = i \/ gen'[s].i = i + 1
      BY <1>2
    <3> QED BY <1>3, <3>1, <3>2 DEF Said
  <2>9. \A j \in Agent : Said(s, "agent_done", j)' <=> j < gen'[s].i
    <3>1. \A j \in Agent : Events(s, "agent_done", j) # {} <=> j < i
      BY <1>3 DEF StreamInv, TurnInv, Said
    <3>2. CASE ev = "chunk"
      BY <1>2, <1>3, <1>4, <3>1, <3>2 DEF Said
    <3>3. CASE ev = "agent_done"
      <4>1. ASSUME NEW j \in Agent, j # i PROVE (j < i) <=> (j < i + 1)
        <5>1. j \in Nat /\ i \in Nat
          BY <1>3
        <5> QED BY <4>1, <5>1
      <4>2. i < i + 1 /\ gen'[s].i = i + 1
        BY <1>2, <1>3, <3>3
      <4>3. Events(s, "agent_done", i)' # {}
        BY <1>4, <3>3
      <4> QED BY <1>4, <3>1, <4>1, <4>2, <4>3 DEF Said
    <3> QED BY <1>2, <3>2, <3>3
  <2> QED BY <2>3, <2>4, <2>6, <2>7, <2>8, <2>9 DEF TurnInv
<1>8. StoredInv(s)'
  <2>1. /\ i \in stored[s] /\ stored[s] \subseteq Agent
        /\ \A j \in stored[s] : j <= i
        /\ \A j \in Agent : Events(s, "chunk", j) # {} => j \in stored[s]
        /\ \A j \in Agent : j < i => (j \in stored[s] <=> Events(s, "error", j) = {})
        /\ Events(s, "error", i) = {}
    BY <1>1, <1>3 DEF StreamInv, StoredInv, TurnInv, Said
  <2>2. \A j \in Agent : Events(s, "error", j)' = Events(s, "error", j)
    BY <1>2, <1>4
  <2>3. \A j \in Agent : Events(s, "chunk", j)' # {} => j \in stored[s]
    BY <1>4, <2>1
  <2>4. gen'[s].pc \in Early \cup {"wait"} => gen'[s].i \notin stored[s]
    BY <1>2, <1>3, <2>1 DEF Early
  <2>5. \A j \in Agent : j < gen'[s].i => (j \in stored[s] <=> Events(s, "error", j) = {})
    <3>1. \A j \in Agent : j < i + 1 => j < i \/ j = i
      BY <1>3
    <3> QED BY <1>2, <1>3, <2>1, <3>1
  <2>6. gen'[s].pc = "chunks" => gen'[s].i \in stored[s]
    BY <1>2, <2>1
  <2>7. \A j \in stored[s] : j <= gen'[s].i
    <3>1. \A j \in Agent : j <= i => j <= i + 1
      BY <1>3
    <3> QED BY <1>2, <2>1, <3>1
  <2> QED BY <1>1, <2>1, <2>2, <2>3, <2>4, <2>5, <2>6, <2>7 DEF StoredInv, Said
<1>9. ASSUME TimeLimit > 0, AgeInv(s) PROVE AgeInv(s)'
  BY <1>1, <1>2, <1>3, <1>9, Waits DEF AgeInv
<1> QED BY <1>6, <1>7, <1>8, <1>9 DEF StreamInv

\* An agent that failed: its error and its end are sent, none of its answer is.
LEMMA FailStep ==
  ASSUME TypeOK, GenInv, NEW s \in Stream, StreamInv(s), AgentFails(s)
  PROVE  StreamInv(s)'
<1> USE LimitsAreNaturals
<1>0. PICK i \in Agent : i = gen[s].i
  BY DEF AgentFails, At, GenInv
<1>1. /\ gen[s].pc = "wait"
      /\ gen'[s].i = i + 1 /\ gen'[s].pc = IF i = NAgents THEN "end" ELSE "agent"
      /\ Send(s, <<Ev("error", i), Ev("agent_done", i)>>)
      /\ UNCHANGED <<stored, online, waited, age>>
  BY <1>0 DEF AgentFails, At, NextAgent, TypeOK
<1>2. /\ "error" \in Kind /\ "agent_done" \in Kind /\ "error" # "agent_done"
      /\ i \in Agent \cup {None}
      /\ sent \in [Stream -> Seq(Event)]
  BY DEF TypeOK, Kind
<1>3. i = gen[s].i /\ Agent \subseteq Nat \ {0} /\ i \in Nat /\ i <= NAgents
  BY <1>0 DEF Agent
<1>4. /\ \A e, j : e \notin {"error", "agent_done"} \/ j # i
                 => Events(s, e, j)' = Events(s, e, j)
      /\ Events(s, "error", i)' = Events(s, "error", i) \cup {Len(sent[s]) + 1}
      /\ Events(s, "agent_done", i)' = Events(s, "agent_done", i) \cup {Len(sent[s]) + 2}
      /\ \A j : j # i => OfAgent(s, j)' = OfAgent(s, j)
      /\ OfAgent(s, i)' = OfAgent(s, i) \cup {Len(sent[s]) + 1, Len(sent[s]) + 2}
      /\ OfAgent(s, i) \subseteq 1 .. Len(sent[s])
      /\ \A e, j : Events(s, e, j) \subseteq 1 .. Len(sent[s])
      /\ Len(sent[s]) \in Nat /\ Len(sent'[s]) = Len(sent[s]) + 2
  BY ONLY <1>1, <1>2, SaidTwo
<1>5. None \notin Agent /\ i # None
  BY <1>3 DEF None
<1>6. EndInv(s)'
  <2>1. \A e \in {"done", "error"} : Events(s, e, None)' = Events(s, e, None)
    BY <1>4, <1>5
  <2>2. Events(s, "done", None) = {} /\ Events(s, "error", None) = {}
    BY <1>1 DEF StreamInv, EndInv, Said, Over
  <2> QED BY <1>1, <1>3, <2>1, <2>2 DEF EndInv, Said, Over
<1>7. TurnInv(s)'
  <2>1. \A j \in 1 .. i - 1 : Events(s, "agent_done", j) # {} /\ j \in Agent
    BY <1>1, <1>3 DEF StreamInv, TurnInv, Said, Agent
  <2>2. Events(s, "agent_done", i) = {}
    BY <1>1, <1>3 DEF StreamInv, TurnInv, Said
  <2>3. \A n \in OfAgent(s, i)' :
          /\ \A k \in 1 .. i - 1 : \E m \in Events(s, "agent_done", k)' : m < n
          /\ \A m \in Events(s, "agent_done", i)' : n <= m
    <3>1. \A n \in OfAgent(s, i) : \A k \in 1 .. i - 1 :
            \E m \in Events(s, "agent_done", k) : m < n
      BY <1>1, <1>3 DEF StreamInv, TurnInv
    <3>2. \A k \in 1 .. i - 1 : Events(s, "agent_done", k)' = Events(s, "agent_done", k)
      BY <1>3, <1>4
    <3>3. \A k \in 1 .. i - 1 : \E m \in Events(s, "agent_done", k) :
            m < Len(sent[s]) + 1 /\ m < Len(sent[s]) + 2
      BY <1>4, <2>1
    <3>4. \A n \in OfAgent(s, i)' : n <= Len(sent[s]) + 2
      BY <1>4
    <3>5. Events(s, "agent_done", i)' = {Len(sent[s]) + 2}
      BY <1>4, <2>2
    <3> QED BY <1>4, <3>1, <3>2, <3>3, <3>4, <3>5
  <2>4. \A j \in Agent \ {i} : \A n \in OfAgent(s, j)' :
          /\ \A k \in 1 .. j - 1 : \E m \in Events(s, "agent_done", k)' : m < n
          /\ \A m \in Events(s, "agent_done", j)' : n <= m
    <3>1. \A j \in Agent \ {i} : \A n \in OfAgent(s, j) :
          /\ \A k \in 1 .. j - 1 : \E m \in Events(s, "agent_done", k) : m < n
          /\ \A m \in Events(s, "agent_done", j) : n <= m
      BY DEF StreamInv, TurnInv
    <3>2. \A k : Events(s, "agent_done", k) \subseteq Events(s, "agent_done", k)'
      BY <1>4
    <3> QED BY <1>4, <3>1, <3>2
  <2>5. \A j \in Agent : OfAgent(s, j) # {} => j <= i
    BY <1>3 DEF StreamInv, TurnInv
  <2>6. \A j \in Agent : OfAgent(s, j)' # {} => j <= gen'[s].i
    BY <1>1, <1>3, <1>4, <2>5
  <2>7. gen'[s].pc \in Early => OfAgent(s, gen[s].i)' = {}
    <3>1. CASE i = NAgents
      BY <1>1, <3>1 DEF Early
    <3>2. CASE i # NAgents
      <4>1. i + 1 \in Agent
        BY <1>3, <3>2 DEF Agent
      <4>2. OfAgent(s, i + 1)' = {}
        BY <1>3, <1>4, <2>5, <4>1
      <4> QED BY <1>1, <4>2 DEF OfAgent
    <3> QED BY <3>1, <3>2
  <2>8. \A j \in Agent : j < i + 1 <=> j < i \/ j = i
    BY <1>3
  <2>9. \A j \in Agent : Said(s, "error", j)' => j < gen'[s].i
    <3>1. \A j \in Agent : Events(s, "error", j) # {} => j < i
      BY <1>3 DEF StreamInv, TurnInv, Said
    <3> QED BY <1>1, <1>4, <2>8, <3>1 DEF Said
  <2>10. \A j \in Agent : Said(s, "agent_done", j)' <=> j < gen'[s].i
    <3>1. \A j \in Agent : Events(s, "agent_done", j) # {} <=> j < i
      BY <1>3 DEF StreamInv, TurnInv, Said
    <3> QED BY <1>1, <1>4, <2>8, <3>1 DEF Said
  <2> QED BY <2>3, <2>4, <2>6, <2>7, <2>9, <2>10 DEF TurnInv
<1>8. StoredInv(s)'
  <2>1. /\ i \notin stored[s] /\ stored[s] \subseteq Agent
        /\ \A j \in stored[s] : j <= i
        /\ \A j \in Agent : Events(s, "chunk", j) # {} => j \in stored[s]
        /\ \A j \in Agent : j < i => (j \in stored[s] <=> Events(s, "error", j) = {})
    BY <1>1, <1>3 DEF StreamInv, StoredInv, Said
  <2>2. \A j \in Agent : Events(s, "chunk", j)' = Events(s, "chunk", j)
    BY <1>4
  <2>3. \A j \in Agent : j < i + 1 => (j \in stored[s] <=> Events(s, "error", j)' = {})
    <3>1. \A j \in Agent : j < i + 1 => j < i \/ j = i
      BY <1>3
    <3>2. Events(s, "error", i)' # {}
      BY <1>4
    <3> QED BY <1>4, <2>1, <3>1, <3>2
  <2>4. i + 1 \notin stored[s] /\ \A j \in stored[s] : j <= i + 1
    <3>1. ~ (i + 1 <= i) /\ \A j \in Agent : j <= i => j <= i + 1
      BY <1>3
    <3> QED BY <2>1, <3>1
  <2> QED BY <1>1, <2>1, <2>2, <2>3, <2>4 DEF StoredInv, Said
<1>9. ASSUME TimeLimit > 0, AgeInv(s) PROVE AgeInv(s)'
  <2>1. age[s] \in Nat /\ waited[s] \in Nat
    BY DEF TypeOK
  <2>2. ((i + 1) - 1) * (TimeLimit + 1) = (i - 1) * (TimeLimit + 1) + (TimeLimit + 1)
        /\ (i - 1) * (TimeLimit + 1) \in Int
    BY <1>3, Waits
  <2>3. /\ age[s] <= (i - 1) * (TimeLimit + 1) + waited[s] /\ waited[s] <= TimeLimit + 1
        /\ age[s] <= NAgents * (TimeLimit + 1)
    BY <1>1, <1>3, <1>9 DEF AgeInv
  <2>4. age[s] <= ((i + 1) - 1) * (TimeLimit + 1)
    BY <2>1, <2>2, <2>3
  <2> QED BY <1>1, <2>3, <2>4 DEF AgeInv
<1> QED BY <1>6, <1>7, <1>8, <1>9 DEF StreamInv

\* The last events of a stream: "done", after an error of the stream as a whole
\* unless every agent has had its turn.
LEMMA EndStep ==
  ASSUME TypeOK, GenInv, NEW s \in Stream, StreamInv(s),
         Timeout(s) \/ ServerBusy(s) \/ Fatal(s) \/ Done(s)
  PROVE  StreamInv(s)'
<1> USE LimitsAreNaturals
<1>1. /\ gen[s].pc \in {"agent", "wait", "end"}
      /\ gen'[s].i = gen[s].i /\ gen'[s].pc = "closed"
      /\ UNCHANGED <<stored, online, waited, age>>
      /\ sent \in [Stream -> Seq(Event)]
  BY DEF Timeout, ServerBusy, Fatal, Done, Goto, At, TypeOK, Gen
<1>2. None \notin Agent /\ {"error", "done"} \subseteq Kind /\ None \in Agent \cup {None}
  BY DEF None, Agent, Kind
<1>3. Events(s, "done", None) = {} /\ Events(s, "error", None) = {}
  BY <1>1 DEF StreamInv, EndInv, Said, Over
<1>4. /\ \A e, j : j # None => Events(s, e, j)' = Events(s, e, j)
      /\ \A j : j # None => OfAgent(s, j)' = OfAgent(s, j)
      /\ Events(s, "done", None)' = {Len(sent'[s])}
      /\ Events(s, "error", None)' # {} \/ gen[s].pc = "end"
  <2>1. CASE Done(s)
    <3>1. Send(s, <<Ev("done", None)>>) /\ gen[s].pc = "end"
      BY <2>1 DEF Done, At
    <3> QED BY <1>1, <1>2, <1>3, <3>1, SaidOne
  <2>2. CASE Timeout(s) \/ ServerBusy(s) \/ Fatal(s)
    <3>1. Send(s, <<Ev("error", None), Ev("done", None)>>)
      BY <2>2 DEF Timeout, ServerBusy, Fatal
    <3>2. "error" \in Kind /\ "done" \in Kind /\ "error" # "done"
      BY <1>2
    <3>3. /\ \A e, j : e \notin {"error", "done"} \/ j # None
                      => Events(s, e, j)' = Events(s, e, j)
          /\ Events(s, "error", None)' = Events(s, "error", None) \cup {Len(sent[s]) + 1}
          /\ Events(s, "done", None)' = Events(s, "done", None) \cup {Len(sent[s]) + 2}
          /\ \A j : j # None => OfAgent(s, j)' = OfAgent(s, j)
          /\ Len(sent'[s]) = Len(sent[s]) + 2
      BY <1>1, <1>2, <3>1, <3>2, SaidTwo
    <3> QED BY <1>3, <3>3
  <2> QED BY <2>1, <2>2
<1>5. EndInv(s)'
  BY <1>1, <1>3, <1>4 DEF StreamInv, EndInv, Said, Over
<1>6. /\ \A e : \A j \in Agent : Events(s, e, j)' = Events(s, e, j)
      /\ \A j \in Agent : OfAgent(s, j)' = OfAgent(s, j)
  BY <1>2, <1>4
<1>7. TurnInv(s)'
  <2>1. \A j \in Agent : \A n \in OfAgent(s, j) :
          /\ \A k \in 1 .. j - 1 : \E m \in Events(s, "agent_done", k)' : m < n
          /\ \A m \in Events(s, "agent_done", j) : n <= m
    <3>1. \A j \in Agent : \A k \in 1 .. j - 1 : k \in Agent
      BY DEF Agent
    <3> QED BY <1>6, <3>1 DEF StreamInv, TurnInv
  <2> QED BY <1>1, <1>6, <2>1 DEF StreamInv, TurnInv, Said, Early
<1>8. StoredInv(s)'
  BY <1>1, <1>6 DEF StreamInv, StoredInv, Said, Early
<1>9. ASSUME AgeInv(s) PROVE AgeInv(s)'
  BY <1>1, <1>9 DEF AgeInv
<1> QED BY <1>5, <1>7, <1>8, <1>9 DEF StreamInv

\* An agent's answer in table messages, before any of it is sent.
LEMMA StoreStep ==
  ASSUME TypeOK, GenInv, NEW s \in Stream, StreamInv(s), StoreAnswer(s)
  PROVE  StreamInv(s)'
<1> USE LimitsAreNaturals
<1>0. PICK i \in Agent : i = gen[s].i
  BY DEF StoreAnswer, At, GenInv
<1>1. /\ gen[s].pc = "wait" /\ gen'[s].i = i /\ gen'[s].pc = "chunks"
      /\ stored'[s] = stored[s] \cup {i}
      /\ UNCHANGED <<sent, online, waited, age>>
  BY <1>0 DEF StoreAnswer, At, TypeOK, Gen
<1>2. i = gen[s].i /\ Agent \subseteq Nat \ {0} /\ i \in Nat
  BY <1>0 DEF Agent
<1>3. /\ \A ev, j : Events(s, ev, j)' = Events(s, ev, j)
      /\ \A j : OfAgent(s, j)' = OfAgent(s, j)
  BY <1>1 DEF Events, OfAgent
<1>4. EndInv(s)'
  BY <1>1, <1>3 DEF StreamInv, EndInv, Said, Over
<1>5. TurnInv(s)'
  BY <1>1, <1>2, <1>3 DEF StreamInv, TurnInv, Said, Early
<1>6. StoredInv(s)'
  <2>1. /\ stored[s] \subseteq Agent
        /\ \A j \in stored[s] : j <= i
        /\ \A j \in Agent : Events(s, "chunk", j) # {} => j \in stored[s]
        /\ \A j \in Agent : j < i => (j \in stored[s] <=> Events(s, "error", j) = {})
    BY <1>2 DEF StreamInv, StoredInv, Said
  <2>2. i <= i /\ ~ (i < i)
    BY <1>2
  <2>3. gen'[s].pc \notin Early \cup {"wait"}
    BY <1>1 DEF Early
  <2> QED BY <1>1, <1>3, <2>1, <2>2, <2>3 DEF StoredInv, Said
<1>7. ASSUME TimeLimit > 0, AgeInv(s) PROVE AgeInv(s)'
  <2>1. age[s] \in Nat /\ waited[s] \in Nat /\ (i - 1) * (TimeLimit + 1) \in Int
    BY <1>2, WaitsOfAgent
  <2>2. /\ age[s] <= (i - 1) * (TimeLimit + 1) + waited[s] /\ waited[s] <= TimeLimit + 1
        /\ age[s] <= NAgents * (TimeLimit + 1)
    BY <1>1, <1>2, <1>7 DEF AgeInv
  <2>3. age[s] <= (i - 1) * (TimeLimit + 1) + (TimeLimit + 1)
    BY <2>1, <2>2
  <2> QED BY <1>1, <2>2, <2>3 DEF AgeInv
<1> QED BY <1>4, <1>5, <1>6, <1>7 DEF StreamInv

\* One turn more of the polling loop, which does not begin after the limit.
LEMMA PollStep ==
  ASSUME TypeOK, GenInv, NEW s \in Stream, StreamInv(s), Poll(s)
  PROVE  StreamInv(s)'
<1> USE LimitsAreNaturals
<1>0. PICK i \in Agent : i = gen[s].i
  BY DEF Poll, At, GenInv
<1>1. /\ gen[s].pc = "wait" /\ TimeLimit > 0 /\ ~ (waited[s] > TimeLimit)
      /\ waited'[s] = waited[s] + 1 /\ age'[s] = age[s] + 1
      /\ UNCHANGED <<gen, sent, stored, online>>
  BY DEF Poll, At, TimedOut, TypeOK
<1>2. i = gen[s].i /\ i \in Nat /\ i <= NAgents
  BY <1>0 DEF Agent
<1>3. /\ \A ev, j : Events(s, ev, j)' = Events(s, ev, j)
      /\ \A j : OfAgent(s, j)' = OfAgent(s, j)
  BY <1>1 DEF Events, OfAgent
<1>4. EndInv(s)'
  BY <1>1, <1>3 DEF StreamInv, EndInv, Said, Over
<1>5. TurnInv(s)'
  BY <1>1, <1>3 DEF StreamInv, TurnInv, Said, Early
<1>6. StoredInv(s)'
  BY <1>1, <1>3 DEF StreamInv, StoredInv, Said, Early
<1>7. ASSUME AgeInv(s) PROVE AgeInv(s)'
  <2>1. /\ age[s] \in Nat /\ waited[s] \in Nat
        /\ (i - 1) * (TimeLimit + 1) \in Int /\ NAgents * (TimeLimit + 1) \in Nat
        /\ (i - 1) * (TimeLimit + 1) + (TimeLimit + 1) <= NAgents * (TimeLimit + 1)
    BY <1>2, WaitsOfAgent
  <2>2. age[s] <= (i - 1) * (TimeLimit + 1) + waited[s]
    BY <1>1, <1>2, <1>7 DEF AgeInv
  <2>3. /\ age[s] + 1 <= (i - 1) * (TimeLimit + 1) + (waited[s] + 1)
        /\ waited[s] + 1 <= TimeLimit + 1
        /\ age[s] + 1 <= NAgents * (TimeLimit + 1)
    BY <1>1, <2>1, <2>2
  <2> QED BY <1>1, <1>2, <2>3 DEF AgeInv
<1> QED BY <1>4, <1>5, <1>6, <1>7 DEF StreamInv

\* What is sent, stored and waited of every stream keeps step with its generator.
THEOREM StreamsCorrect == Spec => [](\A s \in Stream : StreamInv(s))
<1>1. Init => \A s \in Stream : StreamInv(s)
  <2> SUFFICES ASSUME Init, NEW s \in Stream PROVE StreamInv(s)
    OBVIOUS
  <2> USE LimitsAreNaturals
  <2>1. /\ gen[s].pc = "request" /\ gen[s].i = 1 /\ stored[s] = {} /\ age[s] = 0
        /\ sent[s] = << >>
    BY DEF Init
  <2>2. /\ \A ev, j : Events(s, ev, j) = {}
        /\ \A j : OfAgent(s, j) = {}
    BY <2>1 DEF Events, OfAgent
  <2>3. EndInv(s)
    BY <2>1, <2>2 DEF EndInv, Said, Over
  <2>4. TurnInv(s) /\ StoredInv(s)
    BY <2>1, <2>2 DEF TurnInv, StoredInv, Said, Early, Agent
  <2>5. AgeInv(s)
    <3>1. 0 <= NAgents * (TimeLimit + 1)
      BY Waits
    <3> QED BY <2>1, <3>1 DEF AgeInv
  <2> QED BY <2>3, <2>4, <2>5 DEF StreamInv
<1>2. TypeOK /\ GenInv /\ (\A s \in Stream : StreamInv(s)) /\ [Next]_vars
        => (\A s \in Stream : StreamInv(s))'
  <2> SUFFICES ASSUME TypeOK, GenInv, \A v \in Stream : StreamInv(v), [Next]_vars,
                      NEW v \in Stream
               PROVE  StreamInv(v)'
    OBVIOUS
  <2>0. StreamInv(v)
    OBVIOUS
  <2>1. CASE UNCHANGED vars
    BY <2>0, <2>1, Elsewhere DEF vars
  <2> SUFFICES ASSUME NEW s \in Stream,
                      Request(s) \/ Generate(s) \/ LlmReturns(s) \/ Disconnect(s)
                        \/ ReleaseInBackground(s)
               PROVE  StreamInv(v)'
    BY <2>1 DEF Next
  <2>2. CASE v # s
    <3>1. /\ gen'[v] = gen[v] /\ sent'[v] = sent[v] /\ stored'[v] = stored[v]
          /\ age'[v] = age[v] /\ waited'[v] = waited[v] /\ online' \subseteq online
      BY <2>2 DEF Request, Generate, Acquire, Refuse, Retry, ReleaseInBackground, Start,
                  StartAgent, LlmReturns, Poll, Timeout, ServerBusy, AgentFails,
                  StoreAnswer, SendChunk, AgentDone, Done, Fatal, Disconnect,
                  StopForDisconnect, NextAgent, Goto, Send, TypeOK
    <3> QED BY <2>0, <3>1, Elsewhere
  <2>3. CASE v = s
    <3>1. CASE LlmReturns(s) \/ Disconnect(s)
      <4>1. UNCHANGED <<gen, sent, stored, age, waited>> /\ online' \subseteq online
        BY <3>1 DEF LlmReturns, Disconnect
      <4> QED BY <2>0, <4>1, Elsewhere
    <3>2. CASE Request(s) \/ ReleaseInBackground(s) \/ StopForDisconnect(s)
      <4>1. /\ UNCHANGED <<sent, stored, age, waited, online>>
            /\ gen'[s].i = gen[s].i
            /\ \/ gen'[s].pc \in {"request", "refused", "open"}
                  /\ gen[s].pc \in {"request", "refused"}
               \/ gen'[s].pc = "gone" /\ gen[s].pc = "closed"
               \/ gen'[s].pc = "closed" /\ Running(s) /\ s \notin online
        BY <3>2 DEF Request, Acquire, Refuse, Retry, ReleaseInBackground,
                    StopForDisconnect, Goto, At, TypeOK, Gen
      <4> QED BY <2>0, <2>3, <4>1, QuietStep
    <3>3. CASE Start(s)
      BY <2>0, <2>3, <3>3, StartStep
    <3>4. CASE StartAgent(s)
      BY <2>0, <2>3, <3>4, StartAgentStep
    <3>5. CASE Poll(s)
      BY <2>0, <2>3, <3>5, PollStep
    <3>6. CASE Timeout(s) \/ ServerBusy(s) \/ Fatal(s) \/ Done(s)
      BY <2>0, <2>3, <3>6, EndStep
    <3>7. CASE AgentFails(s)
      BY <2>0, <2>3, <3>7, FailStep
    <3>8. CASE StoreAnswer(s)
      BY <2>0, <2>3, <3>8, StoreStep
    <3>9. CASE SendChunk(s) \/ AgentDone(s)
      BY <2>0, <2>3, <3>9, AnswerStep
    <3> QED
      BY <3>1, <3>2, <3>3, <3>4, <3>5, <3>6, <3>7, <3>8, <3>9 DEF Generate
  <2> QED BY <2>2, <2>3
<1> QED BY <1>1, <1>2, TypeCorrect, GenCorrect, PTL DEF Spec

\* stream_generator sends "done" once, as its last event, unless the client left.
THEOREM DoneIsLast == Spec => []DoneEndsStream
<1>1. (\A s \in Stream : StreamInv(s)) => DoneEndsStream
  BY DEF DoneEndsStream, StreamInv, EndInv, Said, Over
<1> QED BY <1>1, StreamsCorrect, PTL

\* stream_generator's loop over the agents sends nothing of one before the
\* "agent_done" of those before it, and nothing of it after its own.
THEOREM TurnsAreKept == Spec => []AgentsTakeTurns
<1>1. (\A s \in Stream : StreamInv(s)) => AgentsTakeTurns
  BY DEF AgentsTakeTurns, StreamInv, TurnInv
<1> QED BY <1>1, StreamsCorrect, PTL

\* stream_generator commits an answer before it sends any of it, and a stream
\* it ends without an error has stored or failed every agent.
THEOREM ChunksAreStored == Spec => []SentIsStored
<1>1. GenInv /\ (\A s \in Stream : StreamInv(s)) => SentIsStored
  <2> SUFFICES ASSUME GenInv, NEW s \in Stream, StreamInv(s)
               PROVE  /\ \A i \in Agent : Events(s, "chunk", i) # {} => i \in stored[s]
                      /\ Events(s, "done", None) # {} /\ Events(s, "error", None) = {}
                           => \A i \in Agent : i \in stored[s] <=> Events(s, "error", i) = {}
    BY DEF SentIsStored
  <2>1. gen[s].i > NAgents => \A i \in Agent : i < gen[s].i
    BY LimitsAreNaturals DEF Agent, GenInv, Gen
  <2> QED BY <2>1 DEF StreamInv, EndInv, StoredInv, Said
<1> QED BY <1>1, StreamsCorrect, GenCorrect, PTL

\* The polling loop gives each agent at most MAX_STREAM_SECONDS and one turn.
THEOREM AgesAreBounded == Spec => []AgeBounded
<1>1. (\A s \in Stream : StreamInv(s)) => AgeBounded
  BY DEF AgeBounded, StreamInv, AgeInv
<1> QED BY <1>1, StreamsCorrect, PTL
=============================================================================
