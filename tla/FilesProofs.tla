----------------------------- MODULE FilesProofs -----------------------------
(* Proofs about Files and the agents it is about, for every set of workers *)
(* and core agents and every bound on the rows and requests.               *)
EXTENDS Files, FiniteSetTheorems, SequenceTheorems, WellFoundedInduction, TLAPS

AnyRequest == AgentRequest \cup BoardRequest \cup Upload \cup Decision

\* A request at ensure_core_agents, whatever for.
Board == [pc : {"board", "unset"}, then : Purpose \cup {"link", "approve"}, todo : SUBSET Core,
          seen : [Core -> Nat], upto : Nat, file : Nat]

Put == [pc : {"put"}, src : Nat, targets : SUBSET Nat, old : SUBSET Nat]

UploadPc == {"event", "link", "request", "extract", "broken", "attach", "shelf", "no shelf",
             "announce", "answer"}
FilePc == UploadPc \cup {"approve", "reject"}

ForFile(r) == r.pc \in FilePc \/ (r.pc \in {"board", "unset"} /\ r.then \in {"link", "approve"})

LEMMA Requests ==
  /\ Idle \in AnyRequest /\ ~ForFile(Idle)
  /\ Board \subseteq AnyRequest
  /\ \A pc \in FilePc \cup {"create"}, f \in Nat : [pc |-> pc, file |-> f] \in AnyRequest
  /\ \A r \in AnyRequest :
       /\ r.pc \in {"board", "unset"} => r \in Board
       /\ r.pc \in FilePc \cup {"create"} => r = [pc |-> r.pc, file |-> r.file] /\ r.file \in Nat
       /\ r.pc = "put" => r \in Put
  /\ Put \subseteq AnyRequest
<1> USE DEF BoardRequest, Upload, Decision, Purpose, UploadPc, FilePc
<1>1. Idle \in AnyRequest /\ ~ForFile(Idle)
  BY DEF AnyRequest, AgentRequest, Idle, ForFile
<1>2. ASSUME NEW r \in Board PROVE r \in AnyRequest
  BY DEF AnyRequest, AgentRequest, Board
<1>3. ASSUME NEW pc \in FilePc \cup {"create"}, NEW f \in Nat
      PROVE  [pc |-> pc, file |-> f] \in AnyRequest
  BY DEF AnyRequest, AgentRequest
<1> DEFINE Boards == [pc : {"board", "unset"}, then : Purpose, todo : SUBSET Core,
                      seen : [Core -> Nat], upto : Nat, file : Nat]
<1>4. ASSUME NEW r \in AnyRequest
      PROVE  \/ r = Idle \/ r \in Put \/ r \in Boards \/ r \in BoardRequest
             \/ r \in [pc : {"create"}, file : Nat] \/ r \in Upload \/ r \in Decision
  <2> HIDE DEF Boards
  <2>1. AgentRequest = {Idle} \cup Boards \cup [pc : {"create"}, file : Nat] \cup Put
    BY DEF AgentRequest, Boards, Put
  <2> QED BY <2>1 DEF AnyRequest
<1>5. ASSUME NEW r \in AnyRequest, r.pc \in {"board", "unset"} PROVE r \in Board
  <2>1. /\ r # Idle /\ r \notin Put /\ r \notin [pc : {"create"}, file : Nat]
        /\ r \notin Upload /\ r \notin Decision
    <3>1. r # Idle
      BY <1>5 DEF Idle
    <3>2. r \notin Put
      BY <1>5 DEF Put
    <3>3. r \notin [pc : {"create"}, file : Nat]
      BY <1>5
    <3>4. r \notin Upload /\ r \notin Decision
      BY <1>5
    <3> QED BY <3>1, <3>2, <3>3, <3>4
  <2> HIDE DEF Boards, BoardRequest, Upload, Decision
  <2>2. r \in Boards \/ r \in BoardRequest
    BY <1>4, <2>1
  <2> USE DEF Boards, BoardRequest
  <2> QED BY <2>2 DEF Board
<1>6. ASSUME NEW r \in AnyRequest, r.pc \in FilePc \cup {"create"}
      PROVE  r = [pc |-> r.pc, file |-> r.file] /\ r.file \in Nat
  <2>1. r # Idle /\ r \notin Put /\ r \notin Boards /\ r \notin BoardRequest
    <3>1. r # Idle
      <4>1. r.pc # "idle"
        BY <1>6
      <4>2. Idle.pc = "idle"
        BY DEF Idle
      <4> QED BY <4>1, <4>2
    <3>2. r \notin Put
      BY <1>6 DEF Put
    <3>3. r \notin Boards
      BY <1>6
    <3>4. r \notin BoardRequest
      BY <1>6
    <3> QED BY <3>1, <3>2, <3>3, <3>4
  <2> HIDE DEF Boards, BoardRequest, Upload, Decision
  <2>2. r \in [pc : {"create"}, file : Nat] \/ r \in Upload \/ r \in Decision
    BY <1>4, <2>1
  <2> USE DEF Upload, Decision
  <2> QED BY <2>2
<1>7. ASSUME NEW r \in AnyRequest, r.pc = "put" PROVE r \in Put
  <2>1. r # Idle
    BY <1>7 DEF Idle
  <2>2. r \notin Boards /\ r \notin BoardRequest
    BY <1>7
  <2>3. r \notin [pc : {"create"}, file : Nat] /\ r \notin Upload /\ r \notin Decision
    BY <1>7
  <2> HIDE DEF Boards, BoardRequest, Upload, Decision
  <2> QED BY <1>4, <2>1, <2>2, <2>3
<1>8. Put \subseteq AnyRequest
  BY DEF AnyRequest, AgentRequest, Put
<1> QED BY <1>1, <1>2, <1>3, <1>5, <1>6, <1>7, <1>8

ReqInv ==
  /\ req \in [Worker -> AnyRequest]
  /\ \A w \in Worker : /\ ForFile(req[w]) => req[w].file \in FileId
                       /\ At(w, "put") => IsFiniteSet(req[w].targets)

TypeInv ==
  /\ agent \in Seq(Agent) /\ indexed \in BOOLEAN
  /\ link \subseteq Link /\ IsFiniteSet(link)
  /\ file \in Seq(File) /\ shelves \in Nat /\ torn \subseteq FileId
  /\ served \in Nat
  /\ ReqInv
-----------------------------------------------------------------------------
(* Rows.                                                                   *)

LEMMA AgentRows ==
  ASSUME agent \in Seq(Agent)
  PROVE  /\ Len(agent) \in Nat /\ DOMAIN agent = AgentId
         /\ \A a \in AgentId : agent[a] \in Agent
  BY LenProperties, ElementOfSeq DEF AgentId

\* The newest agent of a name is a number.
LEMMA NewestIsNat ==
  ASSUME agent \in Seq(Agent), NEW n
  PROVE  Newest(n) \in Nat
<1> DEFINE rows == {a \in Live : agent[a].name = n}
<1>1. rows \subseteq 1 .. Len(agent) /\ Len(agent) \in Nat
  BY AgentRows DEF Live, AgentId
<1>2. CASE rows = {}
  BY <1>2 DEF Newest, None
<1>3. CASE rows # {}
  <2> DEFINE ages == {Len(agent) - a : a \in rows}
  <2>1. ages \subseteq Nat /\ ages # {}
    BY <1>1, <1>3
  <2>2. PICK x \in ages : \A y \in ages : <<y, x>> \notin OpToRel(<, Nat)
    <3> HIDE DEF ages
    <3> QED BY <2>1, NatLessThanWellFounded, WFMin
  <2>3. PICK a \in rows : x = Len(agent) - a
    BY <2>2
  <2>4. \A b \in rows : b <= a
    <3> SUFFICES ASSUME NEW b \in rows PROVE b <= a
      OBVIOUS
    <3>1. Len(agent) - b \in ages
      OBVIOUS
    <3>2. PICK y : y = Len(agent) - b
      OBVIOUS
    <3>3. ~(y < x) /\ x \in Nat /\ y \in Nat
      BY <2>1, <2>2, <3>1, <3>2 DEF OpToRel
    <3> QED BY <1>1, <2>3, <3>2, <3>3
  <2>5. PICK c : c = CHOOSE d \in rows : \A b \in rows : b <= d
    OBVIOUS
  <2>6. c \in rows
    BY <2>4, <2>5
  <2>7. Newest(n) = c
    BY <1>3, <2>5 DEF Newest
  <2> HIDE DEF rows
  <2> QED BY <1>1, <2>6, <2>7
<1> QED BY <1>2, <1>3

LEMMA NewRow ==
  ASSUME NEW rows \in Seq(Agent), NEW n \in Name, NEW default \in BOOLEAN,
         agent' = WithRow(rows, n, default)
  PROVE  /\ agent' \in Seq(Agent)
         /\ Len(rows) \in Nat /\ Len(agent') = Len(rows) + 1
         /\ agent'[Len(rows) + 1].default = default
         /\ \A a \in 1 .. Len(rows) : agent'[a] = rows[a]
<1> DEFINE row == [name |-> n, default |-> default, live |-> TRUE]
<1>1. row \in Agent /\ row.default = default
  BY DEF Agent
<1>2. agent' = Append(rows, row)
  BY DEF WithRow
<1> HIDE DEF row
<1> QED BY <1>1, <1>2, LenProperties, AppendProperties

\* The rows an UPDATE of the defaults leaves.
LEMMA Unset ==
  ASSUME agent \in Seq(Agent), NEW upto, NEW rows, rows = UnsetDefaults(upto)
  PROVE  /\ rows \in Seq(Agent) /\ Len(rows) = Len(agent)
         /\ \A a \in AgentId : /\ rows[a].live = agent[a].live
                               /\ rows[a].default <=> agent[a].default /\ a > upto
<1>1. /\ Len(agent) \in Nat /\ \A a \in AgentId : agent[a] \in Agent
  BY AgentRows
<1>2. rows = [a \in AgentId |-> [agent[a] EXCEPT !.default = @ /\ a > upto]]
  BY DEF UnsetDefaults
<1>3. \A a \in AgentId : /\ rows[a] \in Agent /\ rows[a].live = agent[a].live
                         /\ rows[a].default <=> agent[a].default /\ a > upto
  <2> SUFFICES ASSUME NEW a \in AgentId
               PROVE  /\ rows[a] \in Agent /\ rows[a].live = agent[a].live
                      /\ rows[a].default <=> agent[a].default /\ a > upto
    OBVIOUS
  <2>1. PICK d \in BOOLEAN : d <=> agent[a].default /\ a > upto
    OBVIOUS
  <2>2. rows[a] = [agent[a] EXCEPT !.default = (agent[a].default /\ a > upto)]
    BY <1>2
  <2>3. (agent[a].default /\ a > upto) = d
    BY <1>1, <2>1 DEF Agent
  <2>4. rows[a] = [agent[a] EXCEPT !.default = d]
    BY <2>2, <2>3
  <2> QED BY <1>1, <2>1, <2>4 DEF Agent
<1>4. rows \in [1 .. Len(agent) -> Agent]
  BY <1>2, <1>3 DEF AgentId
<1> QED BY <1>1, <1>3, <1>4, SeqDef, LenProperties

\* Which action touches which rows.
LEMMA WhoWrites ==
  ASSUME NEW w \in Worker, Begin(w) \/ Serve(w)
  PROVE  /\ indexed' = indexed /\ contested \subseteq contested'
         /\ \/ agent' = agent
            \/ \E n \in Name : CreateAgent(w, n)
            \/ \E n \in Core : InsertCore(w, n)
            \/ InsertHost(w)
         /\ link' = link \/ CommitPut(w)
<1> USE DEF agentVars, fileVars
<1>1. ASSUME NEW then, NEW f, EnterBoard(w, then, f) PROVE contested \subseteq contested'
  BY <1>1 DEF EnterBoard
<1>2. CASE Begin(w)
  <2>1. CASE ListAgents(w) \/ StartCreate(w)
    BY <1>1, <2>1 DEF ListAgents, StartCreate
  <2>2. CASE \E src \in AgentId, wanted \in SUBSET AgentId : StartPut(w, src, wanted)
    BY <2>2 DEF StartPut
  <2>3. CASE \/ \E intent \in Intent, wished \in BOOLEAN : StartUpload(w, intent, wished)
             \/ StartAdminUpload(w)
    BY <2>3 DEF StartUpload, StartAdminUpload
  <2>4. CASE \E f \in FileId : StartApproval(w, f) \/ StartRejection(w, f)
    BY <1>1, <2>4 DEF StartApproval, StartRejection
  <2> QED BY <1>2, <2>1, <2>2, <2>3, <2>4 DEF Begin
<1>3. CASE Serve(w)
  <2>1. ASSUME NEW n \in Name, CreateAgent(w, n)
        PROVE  UNCHANGED <<link, indexed, contested>>
    BY <2>1 DEF CreateAgent
  <2>2. CASE CommitPut(w)
    BY <2>2 DEF CommitPut
  <2>3. CASE BeginUnset(w) \/ BoardFails(w)
    BY <2>3 DEF BeginUnset, BoardFails, RowGone
  <2>4. CASE Upsert(w)
    <3>1. CASE InsertHost(w)
      BY <3>1 DEF InsertHost
    <3>2. CASE \E n \in Core : InsertCore(w, n)
      BY <3>2 DEF InsertCore
    <3>3. CASE \E n \in Core : Backfill(w, n)
      BY <3>3 DEF Backfill
    <3> QED BY <2>4, <3>1, <3>2, <3>3 DEF Upsert
  <2>5. CASE Approve(w) \/ Reject(w)
    BY <2>5 DEF Approve, Reject
  <2>6. CASE PostEvent(w)
    BY <1>1, <2>6 DEF PostEvent
  <2>7. CASE LinkAgents(w) \/ MakeRequest(w) \/ StepFails(w) \/ Extract(w)
    BY <2>7 DEF LinkAgents, MakeRequest, StepFails, Extract
  <2>8. CASE \/ FindShelf(w) \/ MakeShelf(w) \/ Announce(w) \/ NotAnnounced(w)
             \/ Attach(w) \/ Answer(w) \/ GiveUp(w)
    BY <2>8 DEF FindShelf, MakeShelf, Announce, NotAnnounced, Attach, Answer, GiveUp
  <2> QED BY <1>3, <2>1, <2>2, <2>3, <2>4, <2>5, <2>6, <2>7, <2>8 DEF Serve
<1> QED BY <1>2, <1>3

\* The table of agents keeps its type, and only the insert of the host makes a
\* default.
LEMMA AgentsStay ==
  ASSUME TypeInv, [Next]_vars
  PROVE  /\ agent' \in Seq(Agent) /\ indexed' \in BOOLEAN
         /\ contested \subseteq contested'
         /\ AgentChange \/ UNCHANGED vars => Defaults' \subseteq Defaults
         /\ \A w \in Worker : Begin(w) \/ Serve(w) => Defaults' \subseteq Defaults \/ InsertHost(w)
<1> USE DEF agentVars
<1>0. /\ agent \in Seq(Agent) /\ indexed \in BOOLEAN
      /\ Len(agent) \in Nat /\ DOMAIN agent = 1 .. Len(agent)
      /\ \A a \in 1 .. Len(agent) : agent[a] \in Agent
  BY AgentRows DEF TypeInv, AgentId
<1>1. ASSUME UNCHANGED agent PROVE agent' \in Seq(Agent) /\ Defaults' = Defaults
  BY <1>0, <1>1 DEF Defaults, Live, AgentId
\* A new row that is no default.
<1>2. ASSUME NEW n \in Name, agent' = WithRow(agent, n, FALSE)
      PROVE  agent' \in Seq(Agent) /\ Defaults' \subseteq Defaults
  <2>1. /\ agent' \in Seq(Agent) /\ Len(agent') = Len(agent) + 1
        /\ ~agent'[Len(agent) + 1].default
        /\ \A a \in 1 .. Len(agent) : agent'[a] = agent[a]
    BY <1>0, <1>2, NewRow
  <2>2. ASSUME NEW a \in Defaults' PROVE a \in Defaults
    <3>1. a \in 1 .. Len(agent) + 1 /\ agent'[a].default /\ agent'[a].live
      BY <2>1, <2>2 DEF Defaults, Live, AgentId
    <3>2. a \in 1 .. Len(agent)
      BY <1>0, <2>1, <3>1
    <3> QED BY <2>1, <3>1, <3>2 DEF Defaults, Live, AgentId
  <2> QED BY <2>1, <2>2
<1>3. CASE UNCHANGED vars
  BY <1>0, <1>1, <1>3 DEF vars
<1>4. CASE AgentChange
  <2>1. /\ UNCHANGED <<indexed, contested>>
        /\ \E a \in 1 .. Len(agent), r \in Agent :
             /\ agent' = [agent EXCEPT ![a] = r]
             /\ agent[a].live /\ (r.default => agent[a].default)
    <3>1. ASSUME NEW a \in AgentId, NEW n \in Name, NEW default \in BOOLEAN,
                 UpdateAgent(a, n, default)
          PROVE  /\ UNCHANGED <<indexed, contested>>
                 /\ \E r \in Agent : /\ agent' = [agent EXCEPT ![a] = r]
                                     /\ agent[a].live /\ (r.default => agent[a].default)
      <4> DEFINE r == [[agent[a] EXCEPT !.name = n] EXCEPT !.default = default]
      <4>1. agent[a] \in Agent
        BY <1>0 DEF AgentId
      <4>2. r \in Agent /\ r.default = default
        BY <4>1 DEF Agent
      <4>3. /\ UNCHANGED <<indexed, contested>>
            /\ agent' = [agent EXCEPT ![a] = r] /\ agent[a].live /\ (default => agent[a].default)
        BY <1>0, <3>1, <4>1 DEF UpdateAgent, Live, AgentId
      <4> QED BY <4>2, <4>3
    <3>2. ASSUME NEW a \in AgentId, DeleteAgent(a)
          PROVE  /\ UNCHANGED <<indexed, contested>>
                 /\ \E r \in Agent : /\ agent' = [agent EXCEPT ![a] = r]
                                     /\ agent[a].live /\ (r.default => agent[a].default)
      <4> DEFINE r == [[agent[a] EXCEPT !.live = FALSE] EXCEPT !.default = FALSE]
      <4>1. agent[a] \in Agent
        BY <1>0 DEF AgentId
      <4>2. r \in Agent /\ ~r.default
        BY <4>1 DEF Agent
      <4>3. /\ UNCHANGED <<indexed, contested>>
            /\ agent' = [agent EXCEPT ![a] = r] /\ agent[a].live
        BY <1>0, <3>2, <4>1 DEF DeleteAgent, Live, AgentId
      <4> QED BY <4>2, <4>3
    <3> QED BY <1>4, <3>1, <3>2 DEF AgentChange, AgentId
  <2>2. PICK a \in 1 .. Len(agent), r \in Agent :
          /\ agent' = [agent EXCEPT ![a] = r]
          /\ agent[a].live /\ (r.default => agent[a].default)
    BY <2>1
  <2>3. agent' \in Seq(Agent) /\ Len(agent') = Len(agent)
    BY <1>0, <2>2, ExceptSeq
  <2>4. Defaults' \subseteq Defaults
    BY <1>0, <2>2, <2>3 DEF Defaults, Live, AgentId
  <2> QED BY <1>0, <2>1, <2>3, <2>4
<1>5. ASSUME NEW w \in Worker, Begin(w) \/ Serve(w)
      PROVE  /\ agent' \in Seq(Agent) /\ indexed' = indexed
             /\ contested \subseteq contested'
             /\ Defaults' \subseteq Defaults \/ InsertHost(w)
  <2>1. CASE agent' = agent
    BY <1>1, <1>5, <2>1, WhoWrites
  <2>2. CASE (\E n \in Name : CreateAgent(w, n)) \/ \E n \in Core : InsertCore(w, n)
    <3>1. \E n \in Name : agent' = WithRow(agent, n, FALSE)
      BY <2>2 DEF CreateAgent, InsertCore, Name
    <3> QED BY <1>2, <1>5, <3>1, WhoWrites
  <2>3. CASE InsertHost(w)
    <3>1. PICK rows : rows = UnsetDefaults(req[w].upto)
      OBVIOUS
    <3>2. rows \in Seq(Agent) /\ Host \in Name
      BY <1>0, <3>1, Unset, HostIsCore DEF Name
    <3>3. agent' = WithRow(rows, Host, TRUE)
      BY <2>3, <3>1 DEF InsertHost
    <3>4. agent' \in Seq(Agent)
      BY <3>2, <3>3, NewRow
    <3> QED BY <1>5, <2>3, <3>4, WhoWrites
  <2> QED BY <1>5, <2>1, <2>2, <2>3, WhoWrites
<1> QED BY <1>0, <1>3, <1>4, <1>5 DEF Next

\* The rows of the links keep their type.
LEMMA LinksStay ==
  ASSUME TypeInv, [Next]_vars
  PROVE  link' \subseteq Link /\ IsFiniteSet(link')
<1> USE DEF agentVars
<1>1. link \subseteq Link /\ IsFiniteSet(link)
  BY DEF TypeInv
<1>2. CASE link' = link
  BY <1>1, <1>2
<1>3. ASSUME NEW w \in Worker, CommitPut(w), link' # link
      PROVE  link' \subseteq Link /\ IsFiniteSet(link')
  <2>1. PICK r, n : r = req[w] /\ n = Cardinality(link)
    OBVIOUS
  <2>2. r \in Put /\ IsFiniteSet(r.targets)
    BY <1>3, <2>1, Requests DEF CommitPut, At, TypeInv, ReqInv
  <2>3. n \in Nat
    BY <1>1, <2>1, FS_CardinalityType
  <2>4. PICK D : D = Disabled(r.src, r.old)
    OBVIOUS
  <2>5. PICK N : N = NewRows(r)
    OBVIOUS
  <2>6. link' = D \cup N
    BY <1>3, <2>1, <2>4, <2>5 DEF CommitPut
  <2>7. D \subseteq Link /\ IsFiniteSet(D)
    <3> DEFINE old == [l \in link |-> IF l.src = r.src /\ l.put \in r.old
                                      THEN [l EXCEPT !.enabled = FALSE] ELSE l]
    <3>1. D = {old[l] : l \in link}
      BY <2>4 DEF Disabled
    <3>2. \A l \in link : old[l] \in Link
      BY <1>1 DEF Link
    <3>3. old \in Surjection(link, D)
      BY <3>1 DEF Surjection
    <3> QED BY <1>1, <3>1, <3>2, <3>3, FS_Surjection
  <2>8. N \subseteq Link /\ IsFiniteSet(N)
    <3> DEFINE row == [t \in r.targets |->
                         [src |-> r.src, tgt |-> t, enabled |-> TRUE, put |-> n]]
    <3>1. N = [src : {r.src}, tgt : r.targets, enabled : {TRUE}, put : {n}]
      BY <2>1, <2>5 DEF NewRows
    <3>2. N = {row[t] : t \in r.targets}
      <4>1. PICK b : b = TRUE
        OBVIOUS
      <4>2. N = [src : {r.src}, tgt : r.targets, enabled : {b}, put : {n}]
        BY <3>1, <4>1
      <4>3. \A t \in r.targets :
              row[t] = [src |-> r.src, tgt |-> t, enabled |-> b, put |-> n]
        BY <4>1
      <4>4. \A t \in r.targets : row[t] \in N
        BY <4>2, <4>3
      <4>5. \A x \in N : /\ x.tgt \in r.targets
                         /\ x = [src |-> r.src, tgt |-> x.tgt, enabled |-> b, put |-> n]
        BY <4>2
      <4> HIDE DEF row
      <4> QED BY <4>3, <4>4, <4>5
    <3>3. \A t \in r.targets : row[t] \in Link
      BY <2>2, <2>3 DEF Link, Put
    <3>4. row \in Surjection(r.targets, N)
      BY <3>2 DEF Surjection
    <3> QED BY <2>2, <3>2, <3>3, <3>4, FS_Surjection
  <2> QED BY <2>6, <2>7, <2>8, FS_Union
<1>4. ASSUME NEW w \in Worker, Begin(w) \/ Serve(w) PROVE link' = link \/ CommitPut(w)
  BY <1>4, WhoWrites
<1>5. CASE AgentChange
  BY <1>2, <1>5 DEF AgentChange, UpdateAgent, DeleteAgent
<1> QED BY <1>2, <1>3, <1>4, <1>5 DEF Next, vars

-----------------------------------------------------------------------------
(* Files.                                                                  *)

LEMMA FileRows ==
  ASSUME file \in Seq(File)
  PROVE  /\ Len(file) \in Nat /\ DOMAIN file = FileId
         /\ \A f \in FileId : file[f] \in File
  BY LenProperties, ElementOfSeq DEF FileId

\* What is never taken back of a file.
Grown(p, q) ==
  /\ q.intent = p.intent /\ q.wished = p.wished
  /\ p.event => q.event
  /\ p.inst => q.inst
  /\ p.request # "none" => q.request # "none"

LEMMA OneFile ==
  ASSUME file \in Seq(File), NEW f \in FileId, NEW r \in File,
         file' = [file EXCEPT ![f] = r]
  PROVE  /\ file' \in Seq(File) /\ Len(file') = Len(file) /\ file'[f] = r
         /\ \A g \in FileId \ {f} : file'[g] = file[g]
  BY FileRows, ExceptSeq DEF FileId

LEMMA NewFile ==
  ASSUME file \in Seq(File), NEW intent \in Intent, NEW wished \in BOOLEAN,
         file' = Append(file, Stored(intent, wished))
  PROVE  /\ file' \in Seq(File) /\ Len(file') = Len(file) + 1
         /\ \A f \in FileId : file'[f] = file[f]
         /\ LET q == file'[Len(file) + 1]
            IN  /\ q.intent = intent /\ q.wished = wished /\ q.request = "none" /\ q.said = "nothing"
                /\ q.inst <=> intent \in {"institutional", "admin"}
<1>1. PICK inst \in BOOLEAN : inst <=> intent \in {"institutional", "admin"}
  OBVIOUS
<1>2. PICK q : q = [intent |-> intent, wished |-> wished, inst |-> inst,
                    event |-> FALSE, text |-> "none", request |-> "none", said |-> "nothing"]
  OBVIOUS
<1>3. Stored(intent, wished) = q
  <2>1. (intent \in {"institutional", "admin"}) = inst
    BY <1>1
  <2> QED BY <1>2, <2>1 DEF Stored
<1>4. q \in File
  BY <1>2 DEF File, Status
<1>5. /\ file' \in Seq(File) /\ Len(file') = Len(file) + 1 /\ file'[Len(file) + 1] = q
      /\ \A f \in FileId : file'[f] = file[f]
  BY <1>3, <1>4, LenProperties, AppendProperties DEF FileId
<1>6. /\ q.intent = intent /\ q.wished = wished /\ q.request = "none" /\ q.said = "nothing"
      /\ q.inst = inst
  BY <1>2
<1> QED BY <1>1, <1>5, <1>6

\* An upload goes on with its file.
Onward(w) ==
  \/ LinkAgents(w) \/ MakeRequest(w) \/ Extract(w) \/ Attach(w)
  \/ FindShelf(w) \/ MakeShelf(w) \/ Announce(w) \/ NotAnnounced(w)

LEMMA OnwardSteps ==
  ASSUME NEW w \in Worker, Onward(w)
  PROVE  /\ req[w].pc \in {"link", "request", "extract", "broken", "attach", "shelf",
                           "no shelf", "announce"}
         /\ \E pc \in {"request", "extract", "attach", "no shelf", "shelf", "announce",
                        "answer"} : Step(w, pc)
         /\ \E pc \in UploadPc : Step(w, pc)
<1>1. CASE LinkAgents(w) \/ MakeRequest(w)
  BY <1>1 DEF LinkAgents, MakeRequest, At, UploadPc
<1>2. CASE Extract(w)
  <2>1. PICK pc \in {"attach", "shelf", "answer"} : Step(w, pc)
    BY <1>2 DEF Extract
  <2> QED BY <1>2, <2>1 DEF Extract, At, UploadPc
<1>3. CASE Attach(w) \/ Announce(w) \/ NotAnnounced(w)
  BY <1>3 DEF Attach, Announce, NotAnnounced, At, UploadPc
<1>4. CASE FindShelf(w) \/ MakeShelf(w)
  <2>1. PICK pc \in {"no shelf", "announce"} : Step(w, pc)
    BY <1>4 DEF FindShelf, MakeShelf
  <2> QED BY <1>4, <2>1 DEF FindShelf, MakeShelf, At, UploadPc
<1> QED BY <1>1, <1>2, <1>3, <1>4 DEF Onward

\* What the step of worker w makes of file f.
Kept(f, r, w) ==
  /\ Grown(file[f], r)
  /\ \/ r.text = file[f].text
     \/ r.text = "failed"
     \/ req[w].pc = "extract" /\ req[w].file = f
  /\ r.said = file[f].said \/ (req[w].pc \in {"attach", "answer"} /\ req[w].file = f)
  /\ \/ r.inst = file[f].inst /\ r.request = file[f].request
     \/ Upsert(w) \/ MakeRequest(w) \/ Approve(w) \/ Reject(w)

\* A step makes nothing of the files, a new one, or another row for one of
\* them, in which nothing is taken back.
LEMMA FileSteps ==
  ASSUME TypeInv, NEW w \in Worker, Begin(w) \/ Serve(w)
  PROVE  \/ file' = file
         \/ \E intent \in Intent, wished \in BOOLEAN :
              StartUpload(w, intent, wished) \/ (intent = "admin" /\ ~wished /\ StartAdminUpload(w))
         \/ \E f \in FileId, r \in File : file' = [file EXCEPT ![f] = r] /\ Kept(f, r, w)
<1> USE DEF agentVars, fileVars
<1>0. file \in Seq(File) /\ \A f \in FileId : file[f] \in File
  BY FileRows DEF TypeInv
<1>1. ForFile(req[w]) => req[w].file \in FileId
  BY DEF TypeInv, ReqInv
\* One field of a file set.
<1>2. ASSUME NEW f \in FileId, NEW r,
             \/ r = [file[f] EXCEPT !["event"] = TRUE]
             \/ Upsert(w) /\ r = [file[f] EXCEPT !["inst"] = TRUE]
             \/ /\ req[w].pc \in {"attach", "answer"} /\ req[w].file = f
                /\ \E s \in {"attached", "stored"} : r = [file[f] EXCEPT !["said"] = s]
             \/ /\ req[w].pc \in {"extract", "broken"} /\ req[w].file = f
                /\ \E t \in {"stored", "failed"} :
                     /\ req[w].pc = "broken" => t = "failed"
                     /\ r = [file[f] EXCEPT !["text"] = t]
             \/ /\ MakeRequest(w) \/ Approve(w) \/ Reject(w)
                /\ \E s \in {"pending", "approved", "rejected"} :
                     r = [file[f] EXCEPT !["request"] = s]
      PROVE  r \in File /\ Kept(f, r, w)
  <2>0. file[f] \in File
    BY <1>0
  <2> HIDE DEF agentVars, fileVars
  <2>1. CASE r = [file[f] EXCEPT !["event"] = TRUE]
    <3>1. /\ r \in File /\ Grown(file[f], r) /\ r.said = file[f].said /\ r.text = file[f].text
          /\ r.inst = file[f].inst /\ r.request = file[f].request
      BY <2>0, <2>1 DEF File, Grown
    <3> QED BY <3>1 DEF Kept
  <2>2. CASE Upsert(w) /\ r = [file[f] EXCEPT !["inst"] = TRUE]
    <3>1. r \in File /\ Grown(file[f], r) /\ r.said = file[f].said /\ r.text = file[f].text
      BY <2>0, <2>2 DEF File, Grown
    <3> QED BY <2>2, <3>1 DEF Kept
  <2>3. CASE /\ req[w].pc \in {"attach", "answer"} /\ req[w].file = f
             /\ \E s \in {"attached", "stored"} : r = [file[f] EXCEPT !["said"] = s]
    <3>1. /\ r \in File /\ Grown(file[f], r) /\ r.inst = file[f].inst /\ r.request = file[f].request
          /\ r.text = file[f].text
      BY <2>0, <2>3 DEF File, Grown
    <3> QED BY <2>3, <3>1 DEF Kept
  <2>5. CASE /\ req[w].pc \in {"extract", "broken"} /\ req[w].file = f
             /\ \E t \in {"stored", "failed"} :
                  /\ req[w].pc = "broken" => t = "failed"
                  /\ r = [file[f] EXCEPT !["text"] = t]
    <3>1. /\ r \in File /\ Grown(file[f], r) /\ r.inst = file[f].inst /\ r.request = file[f].request
          /\ r.said = file[f].said /\ (req[w].pc = "broken" => r.text = "failed")
      BY <2>0, <2>5 DEF File, Grown
    <3> QED BY <2>5, <3>1 DEF Kept
  <2>4. CASE /\ MakeRequest(w) \/ Approve(w) \/ Reject(w)
             /\ \E s \in {"pending", "approved", "rejected"} : r = [file[f] EXCEPT !["request"] = s]
    <3>1. r \in File /\ Grown(file[f], r) /\ r.said = file[f].said /\ r.text = file[f].text
      BY <2>0, <2>4 DEF File, Status, Grown
    <3> QED BY <2>4, <3>1 DEF Kept
  <2> QED BY <1>2, <2>1, <2>2, <2>3, <2>4, <2>5
<1>3. CASE Begin(w)
  <2>1. CASE \E intent \in Intent, wished \in BOOLEAN : StartUpload(w, intent, wished)
    BY <2>1
  <2>2. CASE StartAdminUpload(w)
    BY <2>2 DEF Intent
  <2>3. CASE \E f \in FileId : StartApproval(w, f) \/ StartRejection(w, f)
    BY <2>3 DEF StartApproval, StartRejection
  <2> QED BY <1>3, <2>1, <2>2, <2>3 DEF Begin
<1>4. CASE Serve(w)
  <2> USE DEF At, ForFile, FilePc, UploadPc
  <2>1. CASE Upsert(w)
    <3>1. OnBoard(w)
      BY <2>1 DEF Upsert, InsertHost, Backfill, InsertCore, Upserts, OnBoard
    <3>2. CASE req[w].then = "approve"
      <4>1. PICK f \in FileId : f = req[w].file
        BY <1>1, <3>1, <3>2 DEF OnBoard
      <4>2. PICK r : r = [file[f] EXCEPT !["inst"] = TRUE]
        OBVIOUS
      <4>3. file' = [file EXCEPT ![f] = r]
        BY <2>1, <3>2, <4>1, <4>2 DEF Upsert, CarriesFile, Mark
      <4> QED BY <1>2, <2>1, <4>2, <4>3
    <3> QED BY <2>1, <3>2 DEF Upsert, CarriesFile
  <2>2. CASE Approve(w) \/ Reject(w)
    <3>1. PICK f \in FileId : f = req[w].file
      BY <1>1, <2>2 DEF Approve, Reject
    <3>2. PICK s \in {"approved", "rejected"} :
            file' = [file EXCEPT ![f] = [file[f] EXCEPT !["request"] = s]]
      BY <2>2, <3>1 DEF Approve, Reject, Mark
    <3>3. PICK r : r = [file[f] EXCEPT !["request"] = s]
      OBVIOUS
    <3>4. r \in File /\ Kept(f, r, w)
      BY <1>2, <2>2, <3>3
    <3> QED BY <3>2, <3>3, <3>4
  <2>3. CASE PostEvent(w)
    <3>1. PICK f \in FileId : f = req[w].file
      BY <1>1, <2>3 DEF PostEvent
    <3>2. PICK r : r = [file[f] EXCEPT !["event"] = TRUE]
      OBVIOUS
    <3>3. file' = [file EXCEPT ![f] = r] \/ file' = file
      BY <2>3, <3>1, <3>2 DEF PostEvent, Mark
    <3> QED BY <1>2, <3>2, <3>3
  <2>4. CASE MakeRequest(w)
    <3>1. PICK f \in FileId : f = req[w].file
      BY <1>1, <2>4 DEF MakeRequest
    <3>2. PICK r : r = [file[f] EXCEPT !["request"] = "pending"]
      OBVIOUS
    <3>3. file' = [file EXCEPT ![f] = r] \/ file' = file
      BY <2>4, <3>1, <3>2 DEF MakeRequest, Mark
    <3>4. r \in File /\ Kept(f, r, w)
      BY <1>2, <2>4, <3>2
    <3> QED BY <3>3, <3>4
  <2>5. CASE Extract(w)
    <3>1. PICK text \in {"stored", "failed"} :
            (At(w, "broken") => text = "failed") /\ Mark(req[w].file, "text", text)
      BY <2>5 DEF Extract
    <3>2. PICK f \in FileId : f = req[w].file
      BY <1>1, <2>5 DEF Extract
    <3>3. PICK r : r = [file[f] EXCEPT !["text"] = text]
      OBVIOUS
    <3>4. file' = [file EXCEPT ![f] = r]
      BY <3>1, <3>2, <3>3 DEF Mark
    <3>5. r \in File /\ Kept(f, r, w)
      BY <1>2, <2>5, <3>1, <3>2, <3>3 DEF Extract
    <3> QED BY <3>4, <3>5
  <2>6. CASE Announce(w)
    <3>1. PICK f \in FileId : f = req[w].file
      BY <1>1, <2>6 DEF Announce
    <3>2. PICK r : r = [file[f] EXCEPT !["event"] = TRUE]
      OBVIOUS
    <3>3. file' = [file EXCEPT ![f] = r]
      BY <2>6, <3>1, <3>2 DEF Announce, Mark
    <3> QED BY <1>2, <3>1, <3>2, <3>3
  <2>7. CASE Attach(w) \/ Answer(w)
    <3>1. PICK f \in FileId : f = req[w].file
      BY <1>1, <2>7 DEF Attach, Answer
    <3>2. PICK s \in {"attached", "stored"} : Mark(f, "said", s) \/ file' = file
      BY <2>7, <3>1 DEF Attach, Answer
    <3>3. PICK r : r = [file[f] EXCEPT !["said"] = s]
      OBVIOUS
    <3>4. file' = [file EXCEPT ![f] = r] \/ file' = file
      BY <3>2, <3>3 DEF Mark
    <3>5. r \in File /\ Kept(f, r, w)
      BY <1>2, <2>7, <3>1, <3>3 DEF Attach, Answer
    <3> QED BY <3>4, <3>5
  <2>8. CASE UNCHANGED fileVars
    BY <2>8
  <2>9. CASE \/ BoardFails(w) \/ LinkAgents(w) \/ StepFails(w) \/ FindShelf(w)
             \/ MakeShelf(w) \/ NotAnnounced(w) \/ GiveUp(w)
    BY <2>9 DEF BoardFails, LinkAgents, StepFails, FindShelf, MakeShelf, NotAnnounced, GiveUp
  <2> QED BY <1>4, <2>1, <2>2, <2>3, <2>4, <2>5, <2>6, <2>7, <2>8, <2>9 DEF Serve
<1> QED BY <1>3, <1>4

\* The files keep their type, and what is never taken back.
LEMMA FilesStay ==
  ASSUME TypeInv, [Next]_vars
  PROVE  /\ file' \in Seq(File) /\ FileId \subseteq FileId'
         /\ \A f \in FileId : Grown(file[f], file'[f])
<1>0. file \in Seq(File)
  BY DEF TypeInv
<1>1. Len(file) \in Nat /\ \A f \in FileId : Grown(file[f], file[f])
  BY <1>0, FileRows DEF Grown
<1>2. CASE file' = file
  BY <1>0, <1>1, <1>2 DEF FileId
<1>3. ASSUME NEW intent \in Intent, NEW wished \in BOOLEAN,
             file' = Append(file, Stored(intent, wished))
      PROVE  /\ file' \in Seq(File) /\ FileId \subseteq FileId'
             /\ \A f \in FileId : Grown(file[f], file'[f])
  BY <1>0, <1>1, <1>3, NewFile DEF FileId
<1>4. ASSUME NEW f \in FileId, NEW r \in File,
             file' = [file EXCEPT ![f] = r], Grown(file[f], r)
      PROVE  /\ file' \in Seq(File) /\ FileId \subseteq FileId'
             /\ \A g \in FileId : Grown(file[g], file'[g])
  BY <1>0, <1>1, <1>4, OneFile DEF FileId
<1>5. ASSUME NEW w \in Worker, Begin(w) \/ Serve(w)
      PROVE  /\ file' \in Seq(File) /\ FileId \subseteq FileId'
             /\ \A f \in FileId : Grown(file[f], file'[f])
  <2>1. ASSUME NEW intent \in Intent, NEW wished \in BOOLEAN,
               StartUpload(w, intent, wished)
                  \/ (intent = "admin" /\ ~wished /\ StartAdminUpload(w))
        PROVE  \E i \in Intent, b \in BOOLEAN : file' = Append(file, Stored(i, b))
    BY <2>1 DEF StartUpload, StartAdminUpload
  <2>2. ASSUME NEW f \in FileId, NEW r \in File, Kept(f, r, w) PROVE Grown(file[f], r)
    BY <2>2 DEF Kept
  <2> QED BY <1>2, <1>3, <1>4, <1>5, <2>1, <2>2, FileSteps
<1>6. CASE AgentChange
  BY <1>2, <1>6 DEF AgentChange, fileVars
<1>7. CASE UNCHANGED vars
  BY <1>2, <1>7 DEF vars, fileVars
<1> QED BY <1>5, <1>6, <1>7 DEF Next

\* Which approvals are torn is remembered.
LEMMA TornStays ==
  ASSUME TypeInv, [Next]_vars
  PROVE  torn \subseteq torn' /\ torn' \subseteq FileId' /\ shelves' \in Nat
<1> USE DEF agentVars, fileVars
<1>1. torn \subseteq FileId /\ shelves \in Nat /\ FileId \subseteq FileId'
  BY FilesStay DEF TypeInv
<1>2. ASSUME torn \subseteq torn', torn' \subseteq FileId, shelves' \in {shelves, shelves + 1}
      PROVE  torn \subseteq torn' /\ torn' \subseteq FileId' /\ shelves' \in Nat
  BY <1>1, <1>2
<1>3. CASE UNCHANGED <<torn, shelves>>
  BY <1>1, <1>2, <1>3
<1>4. ASSUME NEW w \in Worker, Begin(w)
      PROVE  torn \subseteq torn' /\ torn' \subseteq FileId /\ shelves' = shelves
  <2>1. CASE \E f \in FileId : StartApproval(w, f) \/ StartRejection(w, f)
    BY <1>1, <2>1 DEF StartApproval, StartRejection
  <2>2. CASE \/ \E intent \in Intent, wished \in BOOLEAN : StartUpload(w, intent, wished)
             \/ StartAdminUpload(w)
    BY <1>1, <2>2 DEF StartUpload, StartAdminUpload
  <2>3. CASE UNCHANGED fileVars
    BY <1>1, <2>3
  <2> QED BY <1>4, <2>1, <2>2, <2>3 DEF Begin
<1>5. ASSUME NEW w \in Worker, Serve(w)
      PROVE  torn \subseteq torn' /\ torn' \subseteq FileId /\ shelves' \in {shelves, shelves + 1}
  <2>1. CASE BoardFails(w) \/ GiveUp(w)
    BY <1>1, <2>1 DEF BoardFails, GiveUp, TornBy
  <2>2. CASE UNCHANGED fileVars
    BY <1>1, <2>2
  <2>3. CASE Upsert(w) \/ Approve(w) \/ Reject(w) \/ PostEvent(w) \/ LinkAgents(w)
    BY <1>1, <2>3 DEF Upsert, Approve, Reject, PostEvent, LinkAgents
  <2>4. CASE MakeRequest(w) \/ StepFails(w) \/ Extract(w) \/ FindShelf(w)
    BY <1>1, <2>4 DEF MakeRequest, StepFails, Extract, FindShelf
  <2>5. CASE MakeShelf(w) \/ Announce(w) \/ NotAnnounced(w) \/ Attach(w) \/ Answer(w)
    BY <1>1, <2>5 DEF MakeShelf, Announce, NotAnnounced, Attach, Answer
  <2> QED BY <1>5, <2>1, <2>2, <2>3, <2>4, <2>5 DEF Serve
<1>6. CASE AgentChange
  BY <1>3, <1>6 DEF AgentChange
<1> QED BY <1>2, <1>3, <1>4, <1>5, <1>6 DEF Next, vars
-----------------------------------------------------------------------------
(* Requests.                                                               *)

LEMMA BoardMade ==
  ASSUME agent \in Seq(Agent), NEW then \in Purpose \cup {"link", "approve"}, NEW f \in Nat,
         NEW r, r = BoardOf(then, f)
  PROVE  /\ r \in Board /\ r.pc = "board" /\ r.then = then /\ r.file = f
         /\ r.todo = Core /\ r.seen[Host] = Newest(Host)
<1> DEFINE seen == [n \in Core |-> Newest(n)]
<1>1. seen \in [Core -> Nat] /\ seen[Host] = Newest(Host)
  BY NewestIsNat, HostIsCore
<1>2. r = [pc |-> "board", then |-> then, todo |-> Core, seen |-> seen, upto |-> 0, file |-> f]
  BY DEF BoardOf
<1> HIDE DEF seen
<1> QED BY <1>1, <1>2 DEF Board

LEMMA AfterBoard ==
  ASSUME NEW r \in Board, NEW n, NEW q, q = AfterUpsert(r, n)
  PROVE  /\ q \in AnyRequest
         /\ \/ q = Idle /\ r.then = "list"
            \/ r.then \in {"create", "link", "approve"} /\ q = [pc |-> r.then, file |-> r.file]
            \/ /\ q \in Board /\ q.pc = "board" /\ q.then = r.then /\ q.file = r.file
               /\ q.todo = r.todo \ {n} /\ q.seen = r.seen
<1>1. CASE r.todo = {n} /\ r.then = "list"
  BY <1>1, Requests DEF AfterUpsert
<1>2. CASE r.todo = {n} /\ r.then # "list"
  <2>1. r.then \in {"create", "link", "approve"} /\ r.file \in Nat
    BY <1>2 DEF Board, Purpose
  <2>2. q = [pc |-> r.then, file |-> r.file]
    BY <1>2 DEF AfterUpsert
  <2>3. r.then \in FilePc \cup {"create"}
    BY <2>1 DEF FilePc, UploadPc
  <2>4. q \in AnyRequest
    BY <2>1, <2>2, <2>3, Requests
  <2> QED BY <2>1, <2>2, <2>4
<1>3. CASE r.todo # {n}
  <2>1. q = [r EXCEPT !.pc = "board", !.todo = r.todo \ {n}]
    BY <1>3 DEF AfterUpsert
  <2>2. /\ q \in Board /\ q.pc = "board" /\ q.then = r.then /\ q.file = r.file
        /\ q.todo = r.todo \ {n} /\ q.seen = r.seen
    BY <2>1 DEF Board
  <2> QED BY <2>2, Requests
<1> QED BY <1>1, <1>2, <1>3

\* A worker's step is one of its request's.
LEMMA OneRequest ==
  ASSUME TypeInv, [Next]_vars, NEW w \in Worker, Begin(w) \/ Serve(w)
  PROVE  \E r \in AnyRequest : /\ req' = [req EXCEPT ![w] = r]
                               /\ (ForFile(r) => r.file \in FileId')
                               /\ (r.pc = "put" => IsFiniteSet(r.targets))
<1> USE DEF agentVars, fileVars
<1>0. /\ agent \in Seq(Agent) /\ link \subseteq Link /\ file \in Seq(File) /\ Len(file) \in Nat
      /\ req[w] \in AnyRequest /\ (ForFile(req[w]) => req[w].file \in FileId)
      /\ FileId \subseteq FileId' /\ FileId \subseteq Nat
  BY FilesStay, FileRows DEF TypeInv, ReqInv, FileId
<1> DEFINE Fits(r) == /\ r \in AnyRequest /\ (ForFile(r) => r.file \in FileId')
                      /\ (r.pc = "put" => IsFiniteSet(r.targets))
<1> SUFFICES \E r : req' = [req EXCEPT ![w] = r] /\ Fits(r)
  OBVIOUS
<1>1. Fits(Idle)
  BY Requests DEF Idle, ForFile, FilePc, UploadPc
<1>2. ASSUME NEW pc \in FilePc, NEW f \in FileId' PROVE Fits([pc |-> pc, file |-> f])
  <2>1. f \in Nat
    BY DEF FileId
  <2>2. pc # "put"
    BY DEF FilePc, UploadPc
  <2> QED BY <2>1, <2>2, Requests
<1>3. ASSUME NEW r \in Board, r.then \in {"link", "approve"} => r.file \in FileId' PROVE Fits(r)
  BY <1>3, Requests DEF Board, ForFile, FilePc, UploadPc
<1>4. ASSUME NEW then \in Purpose \cup {"link", "approve"}, NEW f \in Nat, EnterBoard(w, then, f),
             then \in {"link", "approve"} => f \in FileId
      PROVE  \E r : req' = [req EXCEPT ![w] = r] /\ Fits(r)
  <2>1. PICK r : r = BoardOf(then, f)
    OBVIOUS
  <2>2. r \in Board /\ r.then = then /\ r.file = f
    BY <1>0, <2>1, BoardMade DEF Purpose
  <2>3. Fits(r)
    BY <1>0, <1>3, <1>4, <2>2
  <2> HIDE DEF Fits
  <2>4. req' = [req EXCEPT ![w] = r]
    BY <1>4, <2>1 DEF EnterBoard, Goto
  <2> QED BY <2>3, <2>4
<1>5. ASSUME NEW pc \in FilePc, req' = [req EXCEPT ![w] = [req[w] EXCEPT !.pc = pc]],
             req[w].pc \in FilePc
      PROVE  \E r : req' = [req EXCEPT ![w] = r] /\ Fits(r)
  <2>1. PICK q : q = req[w]
    OBVIOUS
  <2>2. q = [pc |-> q.pc, file |-> q.file] /\ q.file \in FileId'
    BY <1>0, <1>5, <2>1, Requests DEF ForFile
  <2>3. [q EXCEPT !.pc = pc] = [pc |-> pc, file |-> q.file]
    BY <2>2
  <2>4. Fits([pc |-> pc, file |-> q.file])
    BY <1>2, <2>2
  <2> HIDE DEF Fits
  <2> QED BY <1>5, <2>1, <2>3, <2>4
<1>6. ASSUME req' = [req EXCEPT ![w] = Idle]
      PROVE  \E r : req' = [req EXCEPT ![w] = r] /\ Fits(r)
  BY <1>1, <1>6
<1>7. ASSUME NEW pc \in FilePc, NEW f \in FileId',
             req' = [req EXCEPT ![w] = [pc |-> pc, file |-> f]]
      PROVE  \E r : req' = [req EXCEPT ![w] = r] /\ Fits(r)
  <2> HIDE DEF Fits
  <2> QED BY <1>2, <1>7
<1> HIDE DEF Fits
<1>8. CASE Begin(w)
  <2>1. CASE ListAgents(w) \/ StartCreate(w)
    BY <1>4, <2>1 DEF ListAgents, StartCreate, Purpose, None
  <2>2. ASSUME NEW src \in AgentId, NEW wanted \in SUBSET AgentId, StartPut(w, src, wanted)
        PROVE  \E r : req' = [req EXCEPT ![w] = r] /\ Fits(r)
    <3>1. PICK targets : targets = (wanted \cap Live) \ {src}
      OBVIOUS
    <3>2. PICK old : old = {l.put : l \in RowsFrom(src)}
      OBVIOUS
    <3>3. PICK r : r = [pc |-> "put", src |-> src, targets |-> targets, old |-> old]
      OBVIOUS
    <3>4. req' = [req EXCEPT ![w] = r]
      BY <2>2, <3>1, <3>2, <3>3 DEF StartPut, Goto
    <3>5. AgentId \subseteq Nat /\ IsFiniteSet(AgentId)
      <4>1. PICK n \in Nat : AgentId = 1 .. n
        BY <1>0, AgentRows DEF AgentId
      <4>2. IsFiniteSet(1 .. n)
        BY FS_Interval
      <4> QED BY <4>1, <4>2
    <3>6. targets \in SUBSET AgentId
      BY <3>1 DEF Live
    <3>7. IsFiniteSet(targets)
      BY <3>5, <3>6, FS_Subset
    <3>8. old \subseteq Nat
      BY <1>0, <3>2 DEF RowsFrom, Link
    <3>9. r \in Put
      BY <3>3, <3>5, <3>6, <3>8 DEF Put
    <3>10. Fits(r)
      BY <3>3, <3>7, <3>9, Requests DEF Fits, ForFile, FilePc, UploadPc
    <3> QED BY <3>4, <3>10
  <2>3. CASE \/ \E intent \in Intent, wished \in BOOLEAN : StartUpload(w, intent, wished)
             \/ StartAdminUpload(w)
    <3>1. PICK intent \in Intent, wished \in BOOLEAN, pc \in FilePc :
            /\ file' = Append(file, Stored(intent, wished))
            /\ req' = [req EXCEPT ![w] = [pc |-> pc, file |-> Len(file) + 1]]
      BY <2>3 DEF StartUpload, StartAdminUpload, Goto, Intent, FilePc, UploadPc
    <3>2. Len(file) + 1 \in FileId'
      BY <1>0, <3>1, NewFile DEF FileId
    <3> QED BY <1>7, <3>1, <3>2
  <2>4. ASSUME NEW f \in FileId, StartApproval(w, f)
        PROVE  \E r : req' = [req EXCEPT ![w] = r] /\ Fits(r)
    BY <1>0, <1>4, <2>4 DEF StartApproval
  <2>5. ASSUME NEW f \in FileId, StartRejection(w, f)
        PROVE  \E r : req' = [req EXCEPT ![w] = r] /\ Fits(r)
    BY <1>0, <1>7, <2>5 DEF StartRejection, Goto, FilePc
  <2> QED BY <1>8, <2>1, <2>2, <2>3, <2>4, <2>5 DEF Begin
<1>9. CASE Serve(w)
  <2>1. CASE (\E n \in Name : CreateAgent(w, n)) \/ CommitPut(w)
    BY <1>6, <2>1 DEF CreateAgent, CommitPut, Goto
  <2>2. CASE BeginUnset(w) \/ Upsert(w)
    <3>1. PICK q : q = req[w]
      OBVIOUS
    <3>2. q \in Board
      BY <1>0, <2>2, <3>1, Requests DEF BeginUnset, Upsert, InsertHost,
          Backfill, InsertCore, Upserts, At
    <3>3. q.then \in {"link", "approve"} => q.file \in FileId'
      BY <1>0, <3>1, <3>2 DEF Board, ForFile
    <3>4. CASE BeginUnset(w)
      <4>1. PICK r : r = [q EXCEPT !.pc = "unset", !.upto = Len(agent)]
        OBVIOUS
      <4>2. Len(agent) \in Nat
        BY <1>0, AgentRows
      <4>3. r \in Board /\ r.then = q.then /\ r.file = q.file
        BY <3>2, <4>1, <4>2 DEF Board
      <4>4. req' = [req EXCEPT ![w] = r]
        BY <3>1, <3>4, <4>1 DEF BeginUnset, Goto
      <4> QED BY <1>3, <3>3, <4>3, <4>4
    <3>5. CASE Upsert(w)
      <4>1. PICK n, r : r = AfterUpsert(q, n) /\ req' = [req EXCEPT ![w] = r]
        BY <3>1, <3>5 DEF Upsert, InsertHost, Backfill, InsertCore, Goto
      <4>2. r \in AnyRequest
        BY <3>2, <4>1, AfterBoard
      <4>3. CASE r = Idle
        BY <1>6, <4>1, <4>3
      <4>4. CASE q.then \in {"create", "link", "approve"} /\ r = [pc |-> q.then, file |-> q.file]
        <5>1. CASE q.then = "create"
          <6>1. r.pc = "create"
            BY <4>4, <5>1
          <6>2. ~ForFile(r) /\ r.pc # "put"
            BY <6>1 DEF ForFile, FilePc, UploadPc
          <6> QED BY <4>1, <4>2, <6>2 DEF Fits
        <5>2. CASE q.then \in {"link", "approve"}
          BY <1>2, <3>3, <4>1, <4>4, <5>2 DEF FilePc, UploadPc
        <5> QED BY <4>4, <5>1, <5>2
      <4>5. CASE r \in Board /\ r.then = q.then /\ r.file = q.file
        BY <1>3, <3>3, <4>1, <4>5
      <4>6. \/ r = Idle
            \/ q.then \in {"create", "link", "approve"} /\ r = [pc |-> q.then, file |-> q.file]
            \/ r \in Board /\ r.then = q.then /\ r.file = q.file
        BY <3>2, <4>1, AfterBoard
      <4> QED BY <4>3, <4>4, <4>5, <4>6
    <3> QED BY <2>2, <3>4, <3>5
  <2>3. CASE BoardFails(w)
    <3>1. \/ req' = [req EXCEPT ![w] = Idle]
          \/ /\ req[w].then = "link"
             /\ \E pc \in {"request", "broken"} :
                  req' = [req EXCEPT ![w] = [pc |-> pc, file |-> req[w].file]]
      BY <2>3 DEF BoardFails, Goto, Fail
    <3>2. req[w].then = "link" => req[w].file \in FileId
      BY <1>0, <2>3 DEF BoardFails, RowGone, Upserts, At, ForFile
    <3> QED BY <1>0, <1>6, <1>7, <3>1, <3>2 DEF FilePc, UploadPc
  <2>4. CASE Approve(w) \/ Reject(w) \/ Answer(w) \/ GiveUp(w)
    BY <1>6, <2>4 DEF Approve, Reject, Answer, GiveUp, Goto
  <2>5. CASE PostEvent(w) \/ Onward(w)
    <3>1. req[w].pc \in FilePc /\ req[w].file \in FileId
      BY <1>0, <2>5, OnwardSteps DEF PostEvent, At, ForFile, FilePc, UploadPc
    <3>2. CASE PostEvent(w)
      <4>1. EnterBoard(w, "link", req[w].file) \/ Step(w, "link")
        BY <3>2 DEF PostEvent
      <4>2. CASE EnterBoard(w, "link", req[w].file)
        BY <1>0, <1>4, <3>1, <4>2
      <4>3. CASE Step(w, "link")
        BY <1>5, <3>1, <4>3 DEF Step, Goto, FilePc, UploadPc
      <4> QED BY <4>1, <4>2, <4>3
    <3>3. CASE Onward(w)
      <4>1. \E pc \in FilePc : req' = [req EXCEPT ![w] = [req[w] EXCEPT !.pc = pc]]
        BY <3>3, OnwardSteps DEF Step, Goto, FilePc, UploadPc
      <4> QED BY <1>5, <3>1, <4>1
    <3> QED BY <2>5, <3>2, <3>3
  <2>6. CASE StepFails(w)
    <3>1. req[w].file \in FileId
      BY <1>0, <2>6 DEF StepFails, At, ForFile, FilePc, UploadPc
    <3>2. req' = [req EXCEPT ![w] = [pc |-> "broken", file |-> req[w].file]]
      BY <2>6 DEF StepFails, Fail, Goto
    <3> QED BY <1>0, <1>7, <3>1, <3>2 DEF FilePc, UploadPc
  <2> QED BY <1>9, <2>1, <2>2, <2>3, <2>4, <2>5, <2>6 DEF Serve, Onward
<1> QED BY <1>8, <1>9

\* A request that is not the worker's own is left alone.
LEMMA OthersStay ==
  ASSUME TypeInv, [Next]_vars, NEW w \in Worker, Begin(w) \/ Serve(w)
  PROVE  /\ req' \in [Worker -> AnyRequest]
         /\ \A v \in Worker \ {w} : req'[v] = req[v]
  BY OneRequest DEF TypeInv, ReqInv

\* The tables keep their rows' form and grow; a request about a file is about
\* one that is there.
THEOREM TypesCorrect == Spec => []TypeInv
<1>1. Init => TypeInv
  <2> SUFFICES ASSUME Init PROVE TypeInv
    OBVIOUS
  <2>1. agent \in Seq(Agent) /\ file \in Seq(File)
    BY DEF Init
  <2>2. IsFiniteSet(link)
    BY FS_EmptySet DEF Init
  <2>3. ReqInv
    BY Requests DEF Init, ReqInv, At, Idle
  <2> QED BY <2>1, <2>2, <2>3 DEF Init, TypeInv
<1>2. TypeInv /\ [Next]_vars => TypeInv'
  <2> SUFFICES ASSUME TypeInv, [Next]_vars PROVE TypeInv'
    OBVIOUS
  <2>1. /\ agent' \in Seq(Agent) /\ indexed' \in BOOLEAN
        /\ link' \subseteq Link /\ IsFiniteSet(link')
        /\ file' \in Seq(File) /\ FileId \subseteq FileId'
        /\ torn' \subseteq FileId' /\ shelves' \in Nat
    BY AgentsStay, LinksStay, FilesStay, TornStays
  <2>2. served' \in Nat
    BY DEF TypeInv, Next, vars
  <2>3. ReqInv'
    <3>1. CASE req' = req
      BY <2>1, <3>1 DEF TypeInv, ReqInv, At
    <3>2. ASSUME NEW w \in Worker, Begin(w) \/ Serve(w) PROVE ReqInv'
      BY <2>1, <3>2, OneRequest DEF TypeInv, ReqInv, At
    <3>3. CASE AgentChange
      BY <3>1, <3>3 DEF AgentChange, UpdateAgent, DeleteAgent
    <3> QED BY <3>1, <3>2, <3>3 DEF Next, vars
  <2> QED BY <2>1, <2>2, <2>3 DEF TypeInv
<1> QED BY <1>1, <1>2, PTL DEF Spec

\* Every state of the agents' and the files' endpoints has the types of TypeOK.
THEOREM TypeCorrect == Spec => []TypeOK
<1>1. TypeInv => TypeOK
  BY DEF TypeInv, ReqInv, TypeOK, AnyRequest
<1> QED BY <1>1, TypesCorrect, PTL
-----------------------------------------------------------------------------
(* The default agent.                                                      *)

\* The request r is to make the host, having found none.
Making(r) == r.pc \in {"board", "unset"} /\ Host \in r.todo /\ r.seen[Host] = None

\* Only such a request unsets the defaults; unless two fought for it there is
\* one, no default has come since it began, and there are no two defaults.
HostInv ==
  /\ \A w \in Worker : At(w, "unset") => Making(req[w])
  /\ Orkio \notin contested =>
       /\ \A v, w \in Worker : Making(req[v]) /\ Making(req[w]) => v = w
       /\ \A w \in Worker : At(w, "unset") => \A a \in Defaults : a <= req[w].upto
       /\ \A a, b \in Defaults : a = b

\* How a step takes a request to or through ensure_core_agents, or to the
\* links of an agent.
LEMMA BoardSteps ==
  ASSUME TypeInv, [Next]_vars, NEW w \in Worker, Begin(w) \/ Serve(w)
  PROVE  \/ req'[w].pc \notin {"board", "unset", "put"}
         \/ \E src \in AgentId, wanted \in SUBSET AgentId : StartPut(w, src, wanted)
         \/ \E then \in Purpose \cup {"link", "approve"}, f \in Nat : EnterBoard(w, then, f)
         \/ BeginUnset(w) \/ InsertHost(w)
         \/ \E n \in Core : Backfill(w, n) \/ InsertCore(w, n)
<1>0. /\ req \in [Worker -> AnyRequest] /\ (ForFile(req[w]) => req[w].file \in FileId)
      /\ FileId \subseteq Nat
  BY DEF TypeInv, ReqInv, FileId
<1>1. ASSUME NEW r, Goto(w, r), r.pc \notin {"board", "unset", "put"}
      PROVE  req'[w].pc \notin {"board", "unset", "put"}
  BY <1>0, <1>1 DEF Goto
<1>2. CASE Begin(w)
  <2>1. CASE ListAgents(w) \/ StartCreate(w)
    BY <2>1 DEF ListAgents, StartCreate, Purpose, None
  <2>2. CASE \/ \E intent \in Intent, wished \in BOOLEAN : StartUpload(w, intent, wished)
             \/ StartAdminUpload(w)
    BY <1>1, <2>2 DEF StartUpload, StartAdminUpload
  <2>3. ASSUME NEW f \in FileId, StartApproval(w, f) PROVE EnterBoard(w, "approve", f) /\ f \in Nat
    BY <1>0, <2>3 DEF StartApproval
  <2>4. CASE \E f \in FileId : StartRejection(w, f)
    BY <1>1, <2>4 DEF StartRejection
  <2> QED BY <1>2, <2>1, <2>2, <2>3, <2>4 DEF Begin
<1>3. CASE Serve(w)
  <2>0. Idle.pc = "idle"
    BY DEF Idle
  <2>1. CASE (\E n \in Name : CreateAgent(w, n)) \/ CommitPut(w)
    BY <1>1, <2>0, <2>1 DEF CreateAgent, CommitPut
  <2>2. CASE BeginUnset(w) \/ Upsert(w)
    BY <2>2 DEF Upsert
  <2>3. CASE BoardFails(w) \/ StepFails(w)
    BY <1>1, <2>0, <2>3 DEF BoardFails, StepFails, Fail
  <2>4. CASE Approve(w) \/ Reject(w) \/ Answer(w) \/ GiveUp(w)
    BY <1>1, <2>0, <2>4 DEF Approve, Reject, Answer, GiveUp
  <2>5. CASE PostEvent(w) \/ Onward(w)
    <3>1. req[w].pc \in FilePc
      BY <2>5, OnwardSteps DEF PostEvent, At, FilePc, UploadPc
    <3>2. \A pc : [req[w] EXCEPT !.pc = pc].pc = pc
      <4>1. PICK q : q = req[w] /\ q = [pc |-> q.pc, file |-> q.file]
        BY <1>0, <3>1, Requests
      <4>2. \A pc : [q EXCEPT !.pc = pc].pc = pc
        BY <4>1
      <4> QED BY <4>1, <4>2
    <3>3. CASE PostEvent(w)
      <4>1. req[w].file \in Nat
        BY <1>0, <3>1 DEF ForFile
      <4>2. CASE EnterBoard(w, "link", req[w].file)
        BY <4>1, <4>2
      <4>3. CASE Step(w, "link")
        BY <1>1, <3>2, <4>3 DEF Step
      <4> QED BY <3>3, <4>2, <4>3 DEF PostEvent
    <3>4. CASE Onward(w)
      <4>1. \E pc \in UploadPc : Step(w, pc)
        BY <3>4, OnwardSteps
      <4> QED BY <1>1, <3>2, <4>1 DEF Step, UploadPc
    <3> QED BY <2>5, <3>3, <3>4
  <2> QED BY <1>3, <2>1, <2>2, <2>3, <2>4, <2>5 DEF Serve, Onward
<1> QED BY <1>2, <1>3

\* A step that makes no default and gives no request the host to make.
LEMMA HostQuiet ==
  ASSUME HostInv, contested \subseteq contested', Defaults' \subseteq Defaults,
         \A v \in Worker : Making(req'[v]) => Making(req[v]),
         \A v \in Worker : req'[v].pc = "unset" =>
           Making(req'[v]) /\ req[v].pc = "unset" /\ req'[v].upto = req[v].upto
  PROVE  HostInv'
BY DEF HostInv, At

\* A request comes to ensure_core_agents.
LEMMA HostEnter ==
  ASSUME TypeInv, HostInv, NEW w \in Worker, NEW then \in Purpose \cup {"link", "approve"},
         NEW f \in Nat, EnterBoard(w, then, f), contested \subseteq contested',
         Defaults' \subseteq Defaults
  PROVE  HostInv'
<1>1. PICK r : r = BoardOf(then, f)
  OBVIOUS
<1>2. r.pc = "board" /\ (Making(r) => Newest(Host) = None)
  <2>1. r.pc = "board" /\ r.seen[Host] = Newest(Host)
    BY <1>1, BoardMade DEF TypeInv, Purpose
  <2> QED BY <2>1 DEF Making
<1>3. req' = [req EXCEPT ![w] = r] /\ req \in [Worker -> AnyRequest]
  BY <1>1 DEF EnterBoard, Goto, TypeInv, ReqInv
<1>4. \A v \in Worker \ {w} : req'[v] = req[v] /\ (MakesHost(v) <=> Making(req[v]))
  BY <1>3 DEF MakesHost, OnBoard, At, Making
<1>5. CASE Making(r)
  <2>1. CASE \E v \in Worker \ {w} : MakesHost(v)
    <3>1. Orkio \in contested'
      BY <1>2, <1>5, <2>1 DEF EnterBoard
    <3> QED BY <1>2, <1>3, <1>4, <3>1 DEF HostInv, At
  <2>2. CASE ~ \E v \in Worker \ {w} : MakesHost(v)
    <3>1. \A v \in Worker : Making(req'[v]) => v = w
      BY <1>4, <2>2
    <3>2. \A v \in Worker : req'[v].pc = "unset" => v # w /\ req[v] = req'[v]
      BY <1>2, <1>3
    <3> QED BY <3>1, <3>2 DEF HostInv, At
  <2> QED BY <2>1, <2>2
<1>6. CASE ~Making(r)
  <2>1. \A v \in Worker : Making(req'[v]) => Making(req[v])
    BY <1>3, <1>6
  <2>2. \A v \in Worker : req'[v].pc = "unset" => v # w /\ req[v] = req'[v]
    BY <1>2, <1>3
  <2> QED BY <2>1, <2>2 DEF HostInv, At
<1> QED BY <1>5, <1>6

\* It begins to unset the defaults: all there are.
LEMMA HostUnset ==
  ASSUME TypeInv, HostInv, NEW w \in Worker, BeginUnset(w)
  PROVE  HostInv'
<1>1. PICK q, n : q = req[w] /\ n = Len(agent)
  OBVIOUS
<1>2. q \in Board /\ n \in Nat
  BY <1>1, Requests, AgentRows DEF BeginUnset, Upserts, At, TypeInv, ReqInv
<1>3. PICK r : r = [q EXCEPT !.pc = "unset", !.upto = n]
  OBVIOUS
<1>4. r.pc = "unset" /\ r.upto = n /\ r.todo = q.todo /\ r.seen = q.seen
  BY <1>2, <1>3 DEF Board
<1>5. req' = [req EXCEPT ![w] = r] /\ req \in [Worker -> AnyRequest]
  BY <1>1, <1>3 DEF BeginUnset, Goto, TypeInv, ReqInv
<1>6. Making(q) /\ Making(r)
  BY <1>1, <1>2, <1>4 DEF BeginUnset, Upserts, At, Making
<1>7. \A v \in Worker : Making(req'[v]) => Making(req[v])
  BY <1>1, <1>5, <1>6
<1>8. UNCHANGED <<agent, contested>> /\ Defaults' = Defaults /\ \A a \in Defaults : a <= n
  BY <1>1, <1>2 DEF BeginUnset, agentVars, Defaults, Live, AgentId
<1>9. \A v \in Worker : req'[v].pc = "unset" =>
        \/ v = w /\ Making(req'[v]) /\ req'[v].upto = n
        \/ req'[v] = req[v]
  BY <1>4, <1>5, <1>6
<1> QED BY <1>7, <1>8, <1>9 DEF HostInv, At

\* It makes the host, the only default now.
LEMMA HostInsert ==
  ASSUME TypeInv, HostInv, NEW w \in Worker, InsertHost(w)
  PROVE  HostInv'
<1>1. PICK q, upto, n : q = req[w] /\ upto = req[w].upto /\ n = Len(agent) + 1
  OBVIOUS
<1>2. q \in Board /\ At(w, "unset") /\ Making(q)
  BY <1>1, Requests DEF InsertHost, At, TypeInv, ReqInv, HostInv
<1>3. PICK r : r = AfterUpsert(q, Host)
  OBVIOUS
<1>4. req' = [req EXCEPT ![w] = r] /\ req \in [Worker -> AnyRequest]
  BY <1>1, <1>3 DEF InsertHost, Goto, TypeInv, ReqInv
<1>5. r.pc # "unset" /\ ~Making(r)
  <2>1. CASE r = Idle
    BY <2>1 DEF Idle, Making
  <2>2. CASE q.then \in {"create", "link", "approve"} /\ r = [pc |-> q.then, file |-> q.file]
    <3>1. r.pc \in {"create", "link", "approve"}
      BY <2>2
    <3> QED BY <3>1 DEF Making
  <2>3. CASE r.pc = "board" /\ r.todo = q.todo \ {Host}
    BY <2>3 DEF Making
  <2> QED BY <1>2, <1>3, <2>1, <2>2, <2>3, AfterBoard
<1>6. /\ \A v \in Worker : Making(req'[v]) => v # w /\ Making(req[v])
      /\ \A v \in Worker : req'[v].pc = "unset" => v # w /\ req'[v] = req[v]
  BY <1>4, <1>5
<1>7. contested' = contested
  BY DEF InsertHost
<1>8. Orkio \notin contested => \A a \in Defaults' : a = n
  <2> SUFFICES ASSUME Orkio \notin contested, NEW a \in Defaults' PROVE a = n
    OBVIOUS
  <2>1. PICK rows : rows = UnsetDefaults(upto)
    OBVIOUS
  <2>2. /\ Len(agent) \in Nat /\ rows \in Seq(Agent) /\ Len(rows) = Len(agent)
        /\ \A b \in AgentId : /\ rows[b].live = agent[b].live
                              /\ rows[b].default <=> agent[b].default /\ b > upto
    BY <2>1, Unset, AgentRows DEF TypeInv
  <2>3. agent' = WithRow(rows, Host, TRUE) /\ Host \in Name
    BY <1>1, <2>1, HostIsCore DEF InsertHost, Name
  <2>4. Len(agent') = n /\ \A b \in AgentId : agent'[b] = rows[b]
    BY <1>1, <2>2, <2>3, NewRow DEF AgentId
  <2>5. a \in 1 .. n /\ agent'[a].live /\ agent'[a].default
    BY <2>4 DEF Defaults, Live, AgentId
  <2>6. ASSUME a # n PROVE FALSE
    <3>1. a \in AgentId
      BY <1>1, <2>2, <2>5, <2>6 DEF AgentId
    <3>2. agent[a].live /\ agent[a].default /\ a > upto
      <4>1. rows[a].live /\ rows[a].default
        BY <2>4, <2>5, <3>1
      <4>2. rows[a].live = agent[a].live
        BY <2>2, <3>1
      <4>3. rows[a].default <=> agent[a].default /\ a > upto
        BY <2>2, <3>1
      <4> QED BY <4>1, <4>2, <4>3
    <3>3. a \in Defaults
      BY <3>1, <3>2 DEF Defaults, Live
    <3>4. a <= upto
      BY <1>1, <1>2, <3>3 DEF HostInv
    <3>5. a \in Nat /\ upto \in Nat
      BY <1>1, <1>2, <2>5 DEF Board
    <3> QED BY <3>2, <3>4, <3>5
  <2> QED BY <2>6
<1>9. Orkio \notin contested => \A v \in Worker : ~Making(req'[v])
  BY <1>1, <1>2, <1>6 DEF HostInv
<1>10. \A v \in Worker : req'[v].pc = "unset" => Making(req'[v])
  BY <1>6 DEF HostInv, At
<1> QED BY <1>7, <1>8, <1>9, <1>10 DEF HostInv, At

\* It upserts another core agent, or finds the host.
LEMMA HostUpsert ==
  ASSUME TypeInv, HostInv, NEW w \in Worker, NEW n, Goto(w, AfterUpsert(req[w], n)),
         Upserts(w, n), contested \subseteq contested', Defaults' \subseteq Defaults
  PROVE  HostInv'
<1>1. PICK q, r : q = req[w] /\ r = AfterUpsert(q, n)
  OBVIOUS
<1>2. q \in Board /\ req \in [Worker -> AnyRequest] /\ req' = [req EXCEPT ![w] = r]
  BY <1>1, Requests DEF Upserts, At, Goto, TypeInv, ReqInv
<1>3. r.pc # "unset" /\ (Making(r) => Making(q))
  <2>1. CASE r = Idle
    BY <2>1 DEF Idle, Making
  <2>2. CASE q.then \in {"create", "link", "approve"} /\ r = [pc |-> q.then, file |-> q.file]
    <3>1. r.pc \in {"create", "link", "approve"}
      BY <2>2
    <3> QED BY <3>1 DEF Making
  <2>3. CASE r.pc = "board" /\ r.todo = q.todo \ {n} /\ r.seen = q.seen
    BY <1>2, <2>3 DEF Making, Board
  <2> QED BY <1>1, <1>2, <2>1, <2>2, <2>3, AfterBoard
<1>4. \A v \in Worker : Making(req'[v]) => Making(req[v])
  BY <1>1, <1>2, <1>3
<1>5. \A v \in Worker : req'[v].pc = "unset" => req'[v] = req[v]
  BY <1>2, <1>3
<1> QED BY <1>4, <1>5, HostQuiet DEF HostInv, At

\* What is known of the requests that make the host holds in every state.
THEOREM HostCorrect == Spec => []HostInv
<1>1. Init => HostInv
  BY DEF Init, HostInv, At, Idle, Making, Defaults, Live, AgentId
<1>2. TypeInv /\ HostInv /\ [Next]_vars => HostInv'
  <2> SUFFICES ASSUME TypeInv, HostInv, [Next]_vars PROVE HostInv'
    OBVIOUS
  <2>1. /\ contested \subseteq contested'
        /\ AgentChange \/ UNCHANGED vars => Defaults' \subseteq Defaults
        /\ \A w \in Worker : Begin(w) \/ Serve(w) => Defaults' \subseteq Defaults \/ InsertHost(w)
    BY AgentsStay
  <2>2. CASE AgentChange \/ UNCHANGED vars
    <3>1. req' = req
      BY <2>2 DEF AgentChange, UpdateAgent, DeleteAgent, vars
    <3> QED BY <2>1, <2>2, <3>1, HostQuiet DEF HostInv, At
  <2>3. ASSUME NEW w \in Worker, Begin(w) \/ Serve(w), Defaults' \subseteq Defaults
        PROVE  HostInv'
    <3>0. ASSUME NEW src, NEW wanted, StartPut(w, src, wanted) PROVE req'[w].pc = "put"
      BY <3>0 DEF StartPut, Goto, TypeInv, ReqInv
    <3>1. CASE req'[w].pc \notin {"board", "unset"}
      <4>1. \A v \in Worker \ {w} : req'[v] = req[v]
        BY <2>3, OthersStay
      <4>2. ~Making(req'[w]) /\ req'[w].pc # "unset"
        BY <3>1 DEF Making
      <4>3. \A v \in Worker : Making(req'[v]) => Making(req[v])
        BY <4>1, <4>2
      <4>4. \A v \in Worker : req'[v].pc = "unset" => req'[v] = req[v]
        BY <4>1, <4>2
      <4> QED BY <2>1, <2>3, <4>3, <4>4, HostQuiet DEF HostInv, At
    <3>2. ASSUME NEW then \in Purpose \cup {"link", "approve"}, NEW f \in Nat,
                 EnterBoard(w, then, f)
          PROVE  HostInv'
      BY <2>1, <2>3, <3>2, HostEnter
    <3>3. CASE BeginUnset(w)
      BY <3>3, HostUnset
    <3>4. CASE InsertHost(w)
      BY <3>4, HostInsert
    <3>5. ASSUME NEW n \in Core, Backfill(w, n) \/ InsertCore(w, n) PROVE HostInv'
      <4>1. Goto(w, AfterUpsert(req[w], n)) /\ Upserts(w, n)
        BY <3>5 DEF Backfill, InsertCore
      <4> QED BY <2>1, <2>3, <4>1, HostUpsert
    <3> QED BY <2>3, <3>0, <3>1, <3>2, <3>3, <3>4, <3>5, BoardSteps
  <2>4. ASSUME NEW w \in Worker, Begin(w) \/ Serve(w) PROVE HostInv'
    BY <2>1, <2>3, <2>4, HostInsert
  <2> QED BY <2>2, <2>4 DEF Next
<1> QED BY <1>1, <1>2, TypesCorrect, PTL DEF Spec

\* There are never two default agents, unless two requests made the host at a
\* time (ensure_core_agents, _select_target_agents).
THEOREM DefaultIsOne == Spec => []OneDefault
<1>1. HostInv => OneDefault
  <2> SUFFICES ASSUME HostInv, Orkio \notin contested PROVE Cardinality(Defaults) <= 1
    BY DEF OneDefault
  <2>1. \A a, b \in Defaults : a = b
    BY DEF HostInv
  <2>2. CASE Defaults = {}
    <3>1. Cardinality(Defaults) = 0
      BY <2>2, FS_EmptySet
    <3> QED BY <3>1
  <2>3. ASSUME NEW a \in Defaults PROVE Cardinality(Defaults) <= 1
    <3>1. Defaults = {a}
      BY <2>1
    <3>2. Cardinality({a}) = 1
      BY FS_Singleton
    <3>3. Cardinality(Defaults) = 1
      BY <3>1, <3>2
    <3> QED BY <3>3
  <2> QED BY <2>2, <2>3
<1> QED BY <1>1, HostCorrect, PTL
-----------------------------------------------------------------------------
(* The links of an agent.                                                  *)

\* Unless two requests overlapped, one is under way for an agent, and it has
\* read every row there is.
PutInv ==
  \A w \in Worker : At(w, "put") /\ req[w].src \notin contested =>
    /\ \A l \in RowsFrom(req[w].src) : l.put \in req[w].old
    /\ \A v \in Worker : At(v, "put") /\ req[v].src = req[w].src => v = w

\* Nothing but its own start brings a request to the links.
LEMMA NoPut ==
  ASSUME TypeInv, [Next]_vars, NEW w \in Worker, Begin(w) \/ Serve(w)
  PROVE  \/ req'[w].pc # "put"
         \/ \E src \in AgentId, wanted \in SUBSET AgentId : StartPut(w, src, wanted)
<1>0. req \in [Worker -> AnyRequest] /\ agent \in Seq(Agent) /\ Len(agent) \in Nat
  BY AgentRows DEF TypeInv, ReqInv
<1>1. ASSUME NEW then \in Purpose \cup {"link", "approve"}, NEW f \in Nat, EnterBoard(w, then, f)
      PROVE  req'[w].pc # "put"
  BY <1>0, <1>1 DEF EnterBoard, Goto, BoardOf
<1>2. CASE BeginUnset(w)
  <2>1. PICK q : q = req[w] /\ q \in Board
    BY <1>0, <1>2, Requests DEF BeginUnset, Upserts, At
  <2>2. [q EXCEPT !.pc = "unset", !.upto = Len(agent)].pc = "unset"
    BY <1>0, <2>1 DEF Board
  <2> QED BY <1>0, <1>2, <2>1, <2>2 DEF BeginUnset, Goto
<1>3. ASSUME NEW n, Goto(w, AfterUpsert(req[w], n)), At(w, "board") \/ At(w, "unset")
      PROVE  req'[w].pc # "put"
  <2>1. PICK q, r : q = req[w] /\ q \in Board /\ r = AfterUpsert(q, n)
    BY <1>0, <1>3, Requests DEF At
  <2>2. r.pc # "put"
    <3>1. CASE q.then \in {"create", "link", "approve"} /\ r = [pc |-> q.then, file |-> q.file]
      BY <3>1
    <3>2. CASE r = Idle
      BY <3>2 DEF Idle
    <3>3. CASE r.pc = "board"
      BY <3>3
    <3> QED BY <2>1, <3>1, <3>2, <3>3, AfterBoard
  <2> QED BY <1>0, <1>3, <2>1, <2>2 DEF Goto
<1>4. CASE InsertHost(w) \/ \E n \in Core : Backfill(w, n) \/ InsertCore(w, n)
  BY <1>3, <1>4 DEF InsertHost, Backfill, InsertCore, Upserts
<1> QED BY <1>1, <1>2, <1>4, BoardSteps

LEMMA PutQuiet ==
  ASSUME PutInv, LinksAreOnePut, link' = link, contested \subseteq contested',
         \A v \in Worker : req'[v].pc = "put" => req'[v] = req[v]
  PROVE  PutInv' /\ LinksAreOnePut'
<1>1. LinksAreOnePut'
  BY DEF LinksAreOnePut
<1>2. PutInv'
  BY DEF PutInv, At, RowsFrom
<1> QED BY <1>1, <1>2

\* A request reads the rows there are.
LEMMA PutBegins ==
  ASSUME TypeInv, PutInv, LinksAreOnePut, NEW w \in Worker, NEW src, NEW wanted,
         StartPut(w, src, wanted), contested \subseteq contested'
  PROVE  PutInv' /\ LinksAreOnePut'
<1>1. LinksAreOnePut'
  BY DEF LinksAreOnePut, StartPut
<1>2. PICK r : /\ r.pc = "put" /\ r.src = src /\ r.old = {l.put : l \in RowsFrom(src)}
               /\ req' = [req EXCEPT ![w] = r]
  BY DEF StartPut, Goto
<1>3. req'[w] = r /\ \A v \in Worker \ {w} : req'[v] = req[v]
  BY <1>2 DEF TypeInv, ReqInv
<1>4. link' = link
  BY DEF StartPut
<1>5. \A v \in Worker \ {w} : At(v, "put") /\ req[v].src = src => src \in contested'
  BY DEF StartPut
<1>6. PutInv'
  <2> SUFFICES ASSUME NEW u \in Worker, req'[u].pc = "put", req'[u].src \notin contested'
               PROVE  /\ \A l \in link : l.src = req'[u].src => l.put \in req'[u].old
                      /\ \A v \in Worker : req'[v].pc = "put" /\ req'[v].src = req'[u].src => v = u
    BY <1>4 DEF PutInv, At, RowsFrom
  <2>1. CASE u = w
    BY <1>2, <1>3, <1>5, <2>1 DEF At, RowsFrom
  <2>2. CASE u # w
    <3>1. req'[u] = req[u] /\ req[u].src # src
      BY <1>3, <1>5, <2>2 DEF At
    <3>2. /\ \A l \in link : l.src = req[u].src => l.put \in req[u].old
          /\ \A v \in Worker : req[v].pc = "put" /\ req[v].src = req[u].src => v = u
      BY <3>1 DEF PutInv, At, RowsFrom
    <3> QED BY <1>2, <1>3, <3>1, <3>2
  <2> QED BY <2>1, <2>2
<1> QED BY <1>1, <1>6

\* It disables the rows it read and adds its own.
LEMMA PutEnds ==
  ASSUME TypeInv, PutInv, LinksAreOnePut, NEW w \in Worker, CommitPut(w)
  PROVE  PutInv' /\ LinksAreOnePut'
<1>1. PICK r, n : r = req[w] /\ n = Cardinality(link)
  OBVIOUS
<1>2. At(w, "put") /\ contested' = contested
  BY DEF CommitPut
<1>3. req'[w].pc # "put" /\ \A v \in Worker \ {w} : req'[v] = req[v]
  BY DEF CommitPut, Goto, Idle, TypeInv, ReqInv
<1>4. CASE link' = link
  <2>1. \A v \in Worker : req'[v].pc = "put" => req'[v] = req[v]
    BY <1>3
  <2> QED BY <1>2, <1>4, <2>1, PutQuiet
<1>5. CASE link' # link
  <2>1. link' = Disabled(r.src, r.old) \cup NewRows(r)
    BY <1>1, <1>5 DEF CommitPut
  <2>2. \A l \in NewRows(r) : l.src = r.src /\ l.put = n
    BY <1>1 DEF NewRows
  \* Every other row was there before, and is disabled if the request read it.
  <2>3. \A l \in Disabled(r.src, r.old) : \E m \in link :
          /\ l.src = m.src /\ l.put = m.put /\ (l.enabled => m.enabled)
          /\ m.src = r.src /\ m.put \in r.old => ~l.enabled
    <3> SUFFICES ASSUME NEW m \in link, NEW l,
                        l = IF m.src = r.src /\ m.put \in r.old
                              THEN [m EXCEPT !.enabled = FALSE] ELSE m
                 PROVE  /\ l.src = m.src /\ l.put = m.put /\ (l.enabled => m.enabled)
                        /\ m.src = r.src /\ m.put \in r.old => ~l.enabled
      BY DEF Disabled
    <3>1. m \in Link
      BY DEF TypeInv
    <3>2. CASE m.src = r.src /\ m.put \in r.old
      BY <3>1, <3>2 DEF Link
    <3>3. CASE ~(m.src = r.src /\ m.put \in r.old)
      BY <3>3
    <3> QED BY <3>2, <3>3
  <2>4. r.src \notin contested =>
          /\ \A m \in link : m.src = r.src => m.put \in r.old
          /\ \A v \in Worker : At(v, "put") /\ req[v].src = r.src => v = w
    BY <1>1, <1>2 DEF PutInv, RowsFrom
  <2>5. \A l \in link' : l.enabled /\ l.src \notin contested =>
          IF l.src = r.src THEN l.put = n
          ELSE \E m \in link : m.enabled /\ m.src = l.src /\ m.put = l.put
    <3> SUFFICES ASSUME NEW l \in link', l.enabled, l.src \notin contested
                 PROVE  IF l.src = r.src THEN l.put = n
                        ELSE \E m \in link : m.enabled /\ m.src = l.src /\ m.put = l.put
      OBVIOUS
    <3>1. CASE l \in NewRows(r)
      BY <2>2, <3>1
    <3>2. CASE l \in Disabled(r.src, r.old)
      <4>1. PICK m \in link : /\ l.src = m.src /\ l.put = m.put /\ (l.enabled => m.enabled)
                              /\ m.src = r.src /\ m.put \in r.old => ~l.enabled
        BY <2>3, <3>2
      <4> QED BY <2>4, <4>1
    <3> QED BY <2>1, <3>1, <3>2
  <2>6. LinksAreOnePut'
    <3> SUFFICES ASSUME NEW l \in link', NEW m \in link', l.enabled, m.enabled, l.src = m.src,
                        l.src \notin contested
                 PROVE  l.put = m.put
      BY <1>2 DEF LinksAreOnePut
    <3>1. CASE l.src = r.src
      BY <2>5, <3>1
    <3>2. CASE l.src # r.src
      <4>1. PICK x \in link : x.enabled /\ x.src = l.src /\ x.put = l.put
        BY <2>5, <3>2
      <4>2. PICK y \in link : y.enabled /\ y.src = m.src /\ y.put = m.put
        BY <2>5, <3>2
      <4> QED BY <4>1, <4>2 DEF LinksAreOnePut
    <3> QED BY <3>1, <3>2
  <2>7. PutInv'
    <3> SUFFICES ASSUME NEW u \in Worker, req'[u].pc = "put", req'[u].src \notin contested
                 PROVE  /\ \A l \in link' : l.src = req'[u].src => l.put \in req'[u].old
                        /\ \A v \in Worker :
                              req'[v].pc = "put" /\ req'[v].src = req'[u].src => v = u
      BY <1>2 DEF PutInv, At, RowsFrom
    <3>1. u # w /\ req'[u] = req[u] /\ At(u, "put")
      BY <1>3 DEF At
    <3>2. /\ \A l \in link : l.src = req[u].src => l.put \in req[u].old
          /\ \A v \in Worker : At(v, "put") /\ req[v].src = req[u].src => v = u
      BY <3>1 DEF PutInv, RowsFrom
    <3>3. req[u].src # r.src
      BY <1>1, <1>2, <3>1, <3>2
    <3>4. \A l \in link' : l.src = req[u].src => \E m \in link : m.src = l.src /\ m.put = l.put
      BY <2>1, <2>2, <2>3, <3>3
    <3>5. \A l \in link' : l.src = req[u].src => l.put \in req[u].old
      BY <3>2, <3>4
    <3>6. \A v \in Worker : req'[v].pc = "put" /\ req'[v].src = req[u].src => v = u
      BY <1>3, <3>2 DEF At
    <3> QED BY <3>1, <3>5, <3>6
  <2> QED BY <2>6, <2>7
<1> QED BY <1>4, <1>5

\* The links of an agent that count are those of one request, unless two
\* overlapped (admin_put_agent_links).
THEOREM LinksAreOne == Spec => []LinksAreOnePut
<1>1. Init => PutInv /\ LinksAreOnePut
  BY DEF Init, PutInv, LinksAreOnePut, At, Idle
<1>2. TypeInv /\ PutInv /\ LinksAreOnePut /\ [Next]_vars => PutInv' /\ LinksAreOnePut'
  <2> SUFFICES ASSUME TypeInv, PutInv, LinksAreOnePut, [Next]_vars
               PROVE  PutInv' /\ LinksAreOnePut'
    OBVIOUS
  <2>1. contested \subseteq contested'
    BY AgentsStay
  <2>2. CASE AgentChange \/ UNCHANGED vars
    <3>1. req' = req /\ link' = link
      BY <2>2 DEF AgentChange, UpdateAgent, DeleteAgent, vars, agentVars
    <3> QED BY <2>1, <3>1, PutQuiet
  <2>3. ASSUME NEW w \in Worker, Begin(w) \/ Serve(w) PROVE PutInv' /\ LinksAreOnePut'
    <3>1. CASE CommitPut(w)
      BY <3>1, PutEnds
    <3>2. CASE ~CommitPut(w)
      <4>1. link' = link
        BY <2>3, <3>2, WhoWrites
      <4>2. \A v \in Worker \ {w} : req'[v] = req[v]
        BY <2>3, OthersStay
      <4>3. CASE req'[w].pc # "put"
        <5>1. \A v \in Worker : req'[v].pc = "put" => req'[v] = req[v]
          BY <4>2, <4>3
        <5> QED BY <2>1, <4>1, <5>1, PutQuiet
      <4>4. CASE \E src \in AgentId, wanted \in SUBSET AgentId : StartPut(w, src, wanted)
        BY <2>1, <4>4, PutBegins
      <4> QED BY <2>3, <4>3, <4>4, NoPut
    <3> QED BY <3>1, <3>2
  <2> QED BY <2>2, <2>3 DEF Next
<1> QED BY <1>1, <1>2, TypesCorrect, PTL DEF Spec
-----------------------------------------------------------------------------
(* What an upload leaves behind.                                           *)

\* Nothing of file p was lost without a mark.
Whole(p) ==
  p.intent = "chat" /\ p.text # "failed" => p.event /\ (p.wished => p.request # "none")

\* The request r, at the files F: a chat file past its event has it, past its
\* request has that, past its text lacks neither without a mark, and is not
\* announced as an institutional one.
UploadFits(r, F) ==
  /\ r.pc \in {"attach", "answer"} => Whole(F[r.file])
  /\ r.pc \in {"link", "request", "extract"} /\ F[r.file].intent = "chat" => F[r.file].event
  /\ r.pc = "extract" /\ F[r.file].wished => F[r.file].request # "none"
  /\ r.pc \in {"board", "unset"} /\ r.then = "link" => F[r.file].intent # "chat"
  /\ r.pc \in {"shelf", "no shelf", "announce"} => F[r.file].intent # "chat"

UploadInv ==
  /\ \A w \in Worker : UploadFits(req[w], file)
  /\ SilentLossIsFlagged

\* What a request knows of its file is not undone.
LEMMA FitsStays ==
  ASSUME NEW r, NEW F, NEW G, UploadFits(r, F),
         ForFile(r) => Grown(F[r.file], G[r.file]) /\ (Whole(F[r.file]) => Whole(G[r.file]))
  PROVE  UploadFits(r, G)
<1>1. CASE ForFile(r)
  BY <1>1 DEF UploadFits, Grown
<1>2. CASE ~ForFile(r)
  BY <1>2 DEF UploadFits, ForFile, FilePc, UploadPc
<1> QED BY <1>1, <1>2

\* A step finds the file it is about whole, or leaves its text as it was, or
\* marks it.
LEMMA KeptWhole ==
  ASSUME TypeInv, NEW w \in Worker, UploadFits(req[w], file), NEW f \in FileId, NEW r \in File,
         Kept(f, r, w), Whole(file[f]) \/ (req[w].pc = "extract" /\ req[w].file = f)
  PROVE  Whole(r)
<1>1. CASE r.text = "failed"
  BY <1>1 DEF Whole
<1>2. CASE r.text = file[f].text /\ Whole(file[f])
  BY <1>2 DEF Kept, Grown, Whole
<1>3. CASE req[w].pc = "extract" /\ req[w].file = f
  <2>1. file[f].intent = "chat" => file[f].event /\ (file[f].wished => file[f].request # "none")
    BY <1>3 DEF UploadFits
  <2> QED BY <2>1 DEF Kept, Grown, Whole
<1> QED BY <1>1, <1>2, <1>3 DEF Kept

LEMMA WholeStays ==
  ASSUME TypeInv, NEW w \in Worker, Begin(w) \/ Serve(w), UploadFits(req[w], file),
         NEW g \in FileId, Whole(file[g])
  PROVE  Whole(file'[g])
<1>0. file \in Seq(File)
  BY DEF TypeInv
<1>1. CASE \E i \in Intent, b \in BOOLEAN : file' = Append(file, Stored(i, b))
  BY <1>0, <1>1, NewFile
<1>2. CASE \E f \in FileId, r \in File : file' = [file EXCEPT ![f] = r] /\ Kept(f, r, w)
  <2>1. PICK f \in FileId, r \in File : file' = [file EXCEPT ![f] = r] /\ Kept(f, r, w)
    BY <1>2
  <2>2. file'[f] = r /\ \A h \in FileId \ {f} : file'[h] = file[h]
    BY <1>0, <2>1, OneFile
  <2>3. f = g => Whole(r)
    BY <2>1, KeptWhole
  <2> QED BY <2>2, <2>3
<1>3. file' = file \/ (\E i \in Intent, b \in BOOLEAN : file' = Append(file, Stored(i, b)))
        \/ \E f \in FileId, r \in File : file' = [file EXCEPT ![f] = r] /\ Kept(f, r, w)
  BY FileSteps DEF StartUpload, StartAdminUpload
<1> QED BY <1>1, <1>2, <1>3

\* A step of a request leaves it with what it should know.
LEMMA UploadMoves ==
  ASSUME TypeInv, [Next]_vars, NEW w \in Worker, Begin(w) \/ Serve(w), UploadFits(req[w], file)
  PROVE  UploadFits(req'[w], file')
<1> USE DEF agentVars, fileVars
<1>1. PICK q, f : q = req[w] /\ f = req[w].file
  OBVIOUS
<1>2. /\ q \in AnyRequest /\ (ForFile(q) =>
                            f \in FileId /\ Grown(file[f], file'[f]) /\ file[f] \in File)
      /\ req \in [Worker -> AnyRequest]
  BY <1>1, FilesStay, FileRows DEF TypeInv, ReqInv
<1>3. UploadFits(q, file) /\ q.file = f
  BY <1>1
\* It comes to a step of no interest.
<1>4. ASSUME NEW r, Goto(w, r),
             r.pc \notin {"link", "request", "extract", "attach", "shelf", "no shelf",
                          "announce", "answer"},
             ~(r.pc \in {"board", "unset"} /\ r.then = "link")
      PROVE  UploadFits(req'[w], file')
  <2>1. req'[w] = r
    BY <1>2, <1>4 DEF Goto
  <2>2. UploadFits(r, file')
    BY <1>4 DEF UploadFits
  <2> QED BY <2>1, <2>2
\* It goes on with its file.
<1>5. ASSUME NEW pc \in {"link", "request", "extract", "attach", "shelf", "no shelf",
                        "announce", "answer"},
             Goto(w, [pc |-> pc, file |-> f]), ForFile(q),
             pc \in {"link", "request", "extract"} /\ file[f].intent = "chat" => file'[f].event,
             pc = "extract" /\ file[f].wished => file'[f].request # "none",
             pc \in {"shelf", "no shelf", "announce"} => file[f].intent # "chat",
             pc \in {"attach", "answer"} => Whole(file'[f])
      PROVE  UploadFits(req'[w], file')
  <2>1. PICK r : r = [pc |-> pc, file |-> f]
    OBVIOUS
  <2>2. r = req'[w]
    BY <1>2, <1>5, <2>1 DEF Goto
  <2>3. r.pc = pc /\ r.file = f
    BY <2>1
  <2>4. file'[f].intent = file[f].intent /\ file'[f].wished = file[f].wished
    BY <1>2, <1>5 DEF Grown
  <2>5. UploadFits(r, file')
    BY <1>5, <2>3, <2>4 DEF UploadFits
  <2> QED BY <2>2, <2>5
\* It comes to ensure_core_agents.
<1>6. ASSUME NEW then \in Purpose \cup {"link", "approve"}, NEW g \in Nat, EnterBoard(w, then, g),
             then = "link" => file'[g].intent # "chat"
      PROVE  UploadFits(req'[w], file')
  <2>1. PICK r : r = BoardOf(then, g)
    OBVIOUS
  <2>2. r.pc = "board" /\ r.then = then /\ r.file = g
    BY <2>1 DEF BoardOf
  <2>3. req'[w] = r
    BY <1>2, <1>6, <2>1 DEF EnterBoard, Goto
  <2>4. UploadFits(r, file')
    BY <1>6, <2>2 DEF UploadFits
  <2> QED BY <2>3, <2>4
<1>7. ASSUME NEW pc, q.pc \in FilePc, Step(w, pc) PROVE Goto(w, [pc |-> pc, file |-> f])
  <2>1. q = [pc |-> q.pc, file |-> f]
    BY <1>2, <1>3, <1>7, Requests
  <2>2. [q EXCEPT !.pc = pc] = [pc |-> pc, file |-> f]
    <3>1. PICK x : x = q.pc
      OBVIOUS
    <3>2. q = [pc |-> x, file |-> f]
      BY <2>1, <3>1
    <3> QED BY <3>2
  <2> QED BY <1>1, <1>7, <2>2 DEF Step
<1>8. ASSUME Goto(w, Idle) PROVE UploadFits(req'[w], file')
  BY <1>4, <1>8 DEF Idle
\* It goes on at ensure_core_agents.
<1>11. ASSUME NEW r, Goto(w, r), q.pc \in {"board", "unset"}, r.pc \in {"board", "unset"},
              r.then = q.then, r.file = f
       PROVE  UploadFits(req'[w], file')
  <2>1. req'[w] = r
    BY <1>2, <1>11 DEF Goto
  <2>2. q.then = "link" => file[f].intent # "chat" /\ file'[f].intent = file[f].intent
    BY <1>2, <1>3, <1>11 DEF ForFile, UploadFits, Grown
  <2>3. UploadFits(r, file')
    BY <1>11, <2>2 DEF UploadFits
  <2> QED BY <2>1, <2>3
<1>9. CASE Begin(w)
  <2>1. CASE ListAgents(w) \/ StartCreate(w)
    BY <1>6, <2>1 DEF ListAgents, StartCreate, Purpose, None
  <2>2. CASE \E src \in AgentId, wanted \in SUBSET AgentId : StartPut(w, src, wanted)
    BY <1>4, <2>2 DEF StartPut
  <2>3. CASE \E intent \in Intent, wished \in BOOLEAN : StartUpload(w, intent, wished)
    BY <1>4, <2>3 DEF StartUpload
  <2>4. CASE StartAdminUpload(w)
    <3>1. file' = Append(file, Stored("admin", FALSE))
           /\ Goto(w, [pc |-> "extract", file |-> Len(file) + 1])
      BY <2>4 DEF StartAdminUpload
    <3>2. /\ file'[Len(file) + 1].intent = "admin" /\ ~file'[Len(file) + 1].wished
      BY <3>1, NewFile DEF TypeInv, Intent
    <3>3. PICK r : r = req'[w]
      OBVIOUS
    <3>4. r.pc = "extract" /\ r.file = Len(file) + 1
      BY <1>2, <3>1, <3>3 DEF Goto
    <3>5. UploadFits(r, file')
      BY <3>2, <3>4 DEF UploadFits
    <3> QED BY <3>3, <3>5
  <2>5. ASSUME NEW g \in FileId, StartApproval(w, g) PROVE UploadFits(req'[w], file')
    <3>1. g \in Nat /\ EnterBoard(w, "approve", g)
      BY <2>5 DEF StartApproval, FileId
    <3> QED BY <1>6, <3>1 DEF Purpose
  <2>6. CASE \E g \in FileId : StartRejection(w, g)
    BY <1>4, <2>6 DEF StartRejection
  <2> QED BY <1>9, <2>1, <2>2, <2>3, <2>4, <2>5, <2>6 DEF Begin
<1>10. CASE Serve(w)
  <2>1. CASE (\E n \in Name : CreateAgent(w, n)) \/ CommitPut(w)
    BY <1>8, <2>1 DEF CreateAgent, CommitPut
  <2>2. CASE BeginUnset(w)
    <3>1. q \in Board /\ Len(agent) \in Nat
      BY <1>1, <1>2, <2>2, Requests, AgentRows DEF BeginUnset, Upserts, At, TypeInv
    <3>2. PICK r : r = [q EXCEPT !.pc = "unset", !.upto = Len(agent)]
      OBVIOUS
    <3>3. r.pc = "unset" /\ r.then = q.then /\ r.file = f
      BY <1>3, <3>1, <3>2 DEF Board
    <3>4. Goto(w, r)
      BY <1>1, <2>2, <3>2 DEF BeginUnset
    <3> QED BY <1>11, <3>1, <3>3, <3>4 DEF Board
  <2>3. CASE Upsert(w)
    <3>1. PICK n, r : r = AfterUpsert(q, n) /\ Goto(w, r)
      BY <1>1, <2>3 DEF Upsert, InsertHost, Backfill, InsertCore
    <3>2. q \in Board
      BY <1>1, <1>2, <2>3, Requests DEF Upsert, InsertHost, Backfill, InsertCore, Upserts, At
    <3>3. CASE r = Idle
      BY <1>8, <3>1, <3>3
    <3>4. CASE q.then \in {"create", "link", "approve"} /\ r = [pc |-> q.then, file |-> q.file]
      <4>1. r.pc = q.then
        BY <3>4
      <4>2. CASE q.then = "link"
        <5>1. ForFile(q) /\ file[f].intent # "chat"
          BY <1>3, <3>2, <4>2 DEF Board, ForFile, UploadFits
        <5>2. Goto(w, [pc |-> "link", file |-> f])
          BY <1>3, <3>1, <3>4, <4>2
        <5> QED BY <1>5, <5>1, <5>2
      <4>3. CASE q.then \in {"create", "approve"}
        BY <1>4, <3>1, <4>1, <4>3
      <4> QED BY <3>4, <4>2, <4>3
    <3>5. CASE r \in Board /\ r.then = q.then /\ r.file = q.file
      BY <1>3, <1>11, <3>1, <3>2, <3>5 DEF Board
    <3> QED BY <3>1, <3>2, <3>3, <3>4, <3>5, AfterBoard
  <2>4. CASE BoardFails(w)
    <3>1. q.pc = "board"
      BY <1>1, <2>4 DEF BoardFails, RowGone, Upserts, At
    <3>2. CASE Goto(w, Idle)
      BY <1>8, <3>2
    <3>3. CASE q.then = "link" /\ Goto(w, [pc |-> "request", file |-> f])
      <4>1. ForFile(q) /\ file[f].intent # "chat"
        BY <1>3, <3>1, <3>3 DEF ForFile, UploadFits
      <4> QED BY <1>5, <3>3, <4>1
    <3>4. CASE Fail(w)
      BY <1>4, <3>4 DEF Fail
    <3> QED BY <1>1, <2>4, <3>2, <3>3, <3>4 DEF BoardFails
  <2>5. CASE Approve(w) \/ Reject(w) \/ Answer(w) \/ GiveUp(w)
    BY <1>8, <2>5 DEF Approve, Reject, Answer, GiveUp
  <2>6. CASE PostEvent(w)
    <3>1. q.pc = "event" /\ ForFile(q) /\ f \in DOMAIN file /\ f \in Nat
      BY <1>1, <1>2, <2>6, FileRows DEF PostEvent, At, ForFile, FilePc, UploadPc, TypeInv, FileId
    <3>2. CASE Step(w, "link")
      <4>1. Goto(w, [pc |-> "link", file |-> f])
        BY <1>7, <3>1, <3>2 DEF FilePc, UploadPc
      <4>2. file[f].intent = "chat" => file'[f].event
        BY <1>1, <1>2, <2>6, <3>1 DEF PostEvent, Mark, File
      <4> QED BY <1>5, <3>1, <4>1, <4>2
    <3>3. CASE EnterBoard(w, "link", f) /\ file[f].intent = "institutional"
      <4>1. file'[f].intent # "chat"
        BY <1>2, <3>1, <3>3 DEF Grown
      <4> QED BY <1>6, <3>1, <3>3, <4>1
    <3> QED BY <1>1, <2>6, <3>2, <3>3 DEF PostEvent
  <2>7. CASE LinkAgents(w)
    <3>1. q.pc = "link" /\ ForFile(q)
      BY <1>1, <2>7 DEF LinkAgents, At, ForFile, FilePc, UploadPc
    <3>2. Goto(w, [pc |-> "request", file |-> f])
      BY <1>7, <2>7, <3>1 DEF LinkAgents, FilePc, UploadPc
    <3>3. file[f].intent = "chat" => file'[f].event
      BY <1>2, <1>3, <3>1 DEF UploadFits, Grown
    <3> QED BY <1>5, <3>1, <3>2, <3>3
  <2>8. CASE MakeRequest(w)
    <3>1. q.pc = "request" /\ ForFile(q)
      BY <1>1, <2>8 DEF MakeRequest, At, ForFile, FilePc, UploadPc
    <3>2. Goto(w, [pc |-> "extract", file |-> f])
      BY <1>7, <2>8, <3>1 DEF MakeRequest, FilePc, UploadPc
    <3>3. file[f].intent = "chat" => file'[f].event
      BY <1>2, <1>3, <3>1 DEF UploadFits, Grown
    <3>4. file[f].wished => file'[f].request # "none"
      <4>1. f \in DOMAIN file /\ file[f] \in File
        BY <1>2, <3>1, FileRows DEF TypeInv
      <4> QED BY <1>1, <2>8, <4>1 DEF MakeRequest, Mark, File
    <3> QED BY <1>5, <3>1, <3>2, <3>3, <3>4
  <2>9. CASE StepFails(w)
    BY <1>4, <2>9 DEF StepFails, Fail
  <2>10. CASE FindShelf(w) \/ MakeShelf(w)
    <3>1. q.pc \in {"shelf", "no shelf"} /\ ForFile(q)
      BY <1>1, <2>10 DEF FindShelf, MakeShelf, At, ForFile, FilePc, UploadPc
    <3>2. \E pc \in {"no shelf", "announce"} : Step(w, pc)
      BY <2>10 DEF FindShelf, MakeShelf
    <3>3. \E pc \in {"no shelf", "announce"} : Goto(w, [pc |-> pc, file |-> f])
      BY <1>7, <3>1, <3>2 DEF FilePc, UploadPc
    <3>4. file[f].intent # "chat"
      BY <1>3, <3>1 DEF UploadFits
    <3> QED BY <1>5, <3>1, <3>3, <3>4
  <2>11. CASE Announce(w) \/ NotAnnounced(w) \/ Attach(w)
    <3>1. q.pc \in {"shelf", "no shelf", "announce", "attach"} /\ ForFile(q) /\ Step(w, "answer")
      BY <1>1, <2>11 DEF Announce, NotAnnounced, Attach, At, ForFile, FilePc, UploadPc
    <3>2. Goto(w, [pc |-> "answer", file |-> f])
      BY <1>7, <3>1 DEF FilePc, UploadPc
    <3>3. Whole(file[f])
      BY <1>3, <3>1 DEF UploadFits, Whole
    <3>4. f \in FileId /\ UploadFits(req[w], file)
      BY <1>1, <1>2, <3>1
    <3>5. Whole(file'[f])
      BY <3>3, <3>4, WholeStays
    <3> QED BY <1>5, <3>1, <3>2, <3>5
  <2>12. CASE Extract(w)
    <3>1. PICK text \in {"stored", "failed"} :
            (q.pc = "broken" => text = "failed") /\ Mark(f, "text", text)
      BY <1>1, <2>12 DEF Extract, At
    <3>2. /\ q.pc \in {"extract", "broken"} /\ ForFile(q) /\ f \in FileId /\ file[f] \in File
          /\ f \in DOMAIN file
      BY <1>1, <1>2, <2>12, FileRows DEF Extract, At, ForFile, FilePc, UploadPc, TypeInv
    <3>3. PICK r : r = [file[f] EXCEPT !["text"] = text]
      OBVIOUS
    <3>4. file'[f] = r
      BY <3>1, <3>2, <3>3 DEF Mark
    <3>5. /\ r.text = text /\ r.intent = file[f].intent /\ r.wished = file[f].wished
          /\ r.event = file[f].event /\ r.request = file[f].request
      BY <3>2, <3>3 DEF File
    <3>6. q.pc = "extract" /\ file[f].intent = "chat" =>
            file[f].event /\ (file[f].wished => file[f].request # "none")
      BY <1>3 DEF UploadFits
    <3>7. Whole(r)
      BY <3>1, <3>2, <3>5, <3>6 DEF Whole
    <3>8. PICK pc \in {"attach", "shelf", "answer"} :
            Step(w, pc) /\ (pc = "shelf" => file[f].intent # "chat")
      BY <1>1, <2>12 DEF Extract
    <3>9. Goto(w, [pc |-> pc, file |-> f])
      BY <1>7, <3>2, <3>8 DEF FilePc, UploadPc
    <3> QED BY <1>5, <3>2, <3>4, <3>7, <3>8, <3>9
  <2> QED BY <1>10, <2>1, <2>2, <2>3, <2>4, <2>5, <2>6, <2>7, <2>8, <2>9, <2>10, <2>11, <2>12
          DEF Serve
<1> QED BY <1>9, <1>10

\* An answered file is as it was, or has what its request had to leave.
LEMMA AnsweredKeeps ==
  ASSUME TypeInv, UploadInv, NEW w \in Worker, Begin(w) \/ Serve(w)
  PROVE  SilentLossIsFlagged'
<1>0. /\ file \in Seq(File) /\ Len(file) \in Nat
      /\ UploadFits(req[w], file) /\ SilentLossIsFlagged
  BY FileRows DEF TypeInv, UploadInv
<1>1. CASE file' = file
  BY <1>0, <1>1 DEF SilentLossIsFlagged, FileId
<1>2. ASSUME NEW intent \in Intent, NEW wished \in BOOLEAN,
             StartUpload(w, intent, wished) \/ (intent = "admin" /\ ~wished /\ StartAdminUpload(w))
      PROVE  SilentLossIsFlagged'
  <2>1. \E i \in Intent, b \in BOOLEAN : file' = Append(file, Stored(i, b))
    BY <1>2 DEF StartUpload, StartAdminUpload
  <2>2. /\ Len(file') = Len(file) + 1 /\ file'[Len(file) + 1].said = "nothing"
        /\ \A f \in FileId : file'[f] = file[f]
    BY <1>0, <2>1, NewFile
  <2>3. \A f \in FileId' : f \in FileId \/ file'[f].said = "nothing"
    BY <1>0, <2>2 DEF FileId
  <2> QED BY <1>0, <2>2, <2>3 DEF SilentLossIsFlagged
<1>3. ASSUME NEW f \in FileId, NEW r \in File, file' = [file EXCEPT ![f] = r], Kept(f, r, w)
      PROVE  SilentLossIsFlagged'
  <2>1. /\ FileId' = FileId /\ file'[f] = r
        /\ \A g \in FileId \ {f} : file'[g] = file[g]
    BY <1>0, <1>3, OneFile DEF FileId
  <2>2. r.said # "nothing" => Whole(r)
    <3> SUFFICES ASSUME r.said # "nothing" PROVE Whole(r)
      OBVIOUS
    <3>1. CASE r.said = file[f].said
      <4>1. Whole(file[f])
        BY <1>0, <3>1 DEF SilentLossIsFlagged, Whole
      <4> QED BY <1>0, <1>3, <4>1, KeptWhole
    <3>2. CASE req[w].pc \in {"attach", "answer"} /\ req[w].file = f
      <4>1. Whole(file[f])
        BY <1>0, <3>2 DEF UploadFits
      <4> QED BY <1>0, <1>3, <4>1, KeptWhole
    <3> QED BY <1>3, <3>1, <3>2 DEF Kept
  <2> QED BY <1>0, <2>1, <2>2 DEF SilentLossIsFlagged, Whole
<1> QED BY <1>1, <1>2, <1>3, FileSteps

\* What a request knows of its upload, and what it says of it, is true.
THEOREM UploadsCorrect == Spec => []UploadInv
<1>1. Init => UploadInv
  <2> SUFFICES ASSUME Init PROVE UploadInv
    OBVIOUS
  <2>1. FileId = {}
    BY DEF Init, FileId
  <2>2. \A w \in Worker : UploadFits(req[w], file)
    BY DEF Init, Idle, UploadFits
  <2> QED BY <2>1, <2>2 DEF UploadInv, SilentLossIsFlagged
<1>2. TypeInv /\ UploadInv /\ [Next]_vars => UploadInv'
  <2> SUFFICES ASSUME TypeInv, UploadInv, [Next]_vars PROVE UploadInv'
    OBVIOUS
  <2>1. \A f \in FileId : Grown(file[f], file'[f])
    BY FilesStay
  <2>2. CASE AgentChange \/ UNCHANGED vars
    <3>1. req' = req /\ file' = file
      BY <2>2 DEF AgentChange, UpdateAgent, DeleteAgent, vars, fileVars
    <3> QED BY <3>1 DEF UploadInv, SilentLossIsFlagged, FileId
  <2>3. ASSUME NEW w \in Worker, Begin(w) \/ Serve(w) PROVE UploadInv'
    <3>1. SilentLossIsFlagged'
      BY <2>3, AnsweredKeeps
    <3>2. UploadFits(req'[w], file')
      BY <2>3, UploadMoves DEF UploadInv
    <3>3. ASSUME NEW v \in Worker, v # w PROVE UploadFits(req'[v], file')
      <4>1. req'[v] = req[v]
        BY <2>3, <3>3, OthersStay
      <4>2. ForFile(req[v]) => /\ Grown(file[req[v].file], file'[req[v].file])
                               /\ Whole(file[req[v].file]) => Whole(file'[req[v].file])
        <5>1. ForFile(req[v]) => req[v].file \in FileId
          BY DEF TypeInv, ReqInv
        <5>2. UploadFits(req[w], file)
          BY DEF UploadInv
        <5>3. ASSUME NEW g \in FileId, Whole(file[g]) PROVE Whole(file'[g])
          BY <2>3, <5>2, <5>3, WholeStays
        <5> QED BY <2>1, <5>1, <5>3
      <4>3. UploadFits(req[v], file)
        BY DEF UploadInv
      <4> QED BY <4>1, <4>2, <4>3, FitsStays
    <3> QED BY <3>1, <3>2, <3>3 DEF UploadInv
  <2> QED BY <2>2, <2>3 DEF Next
<1> QED BY <1>1, <1>2, TypesCorrect, PTL DEF Spec

\* No upload answered as stored lost its event in the thread or its request
\* without its file being marked as one without a text (upload).
THEOREM LossIsFlagged == Spec => []SilentLossIsFlagged
<1>1. UploadInv => SilentLossIsFlagged
  BY DEF UploadInv
<1> QED BY <1>1, UploadsCorrect, PTL
-----------------------------------------------------------------------------
(* What the admins decide.                                                 *)

\* The part request r has in what becomes of file f.
Uploads(r, f) ==
  /\ r.file = f
  /\ r.pc \in {"event", "link", "request"} \/ (r.pc \in {"board", "unset"} /\ r.then = "link")
Approves(r, f) ==
  /\ r.file = f
  /\ r.pc = "approve" \/ (r.pc \in {"board", "unset"} /\ r.then = "approve")
Rejects(r, f) == r.file = f /\ r.pc = "reject"

\* A request that is wished for is made once, by the upload; it is decided only
\* then; an approval has the file institutional before it says so, and nobody
\* rejects it meanwhile unless the approval is torn.
DecisionFits(f) ==
  /\ file[f].request = "approved" => file[f].inst
  /\ \A w \in Worker : At(w, "approve") /\ req[w].file = f => file[f].inst
  /\ \A w \in Worker :
       Approves(req[w], f) \/ Rejects(req[w], f) => file[f].request # "none"
  /\ file[f].wished =>
       \A w \in Worker :
         Uploads(req[w], f) => /\ file[f].request = "none"
                               /\ \A v \in Worker : Uploads(req[v], f) => v = w
  /\ f \notin torn =>
       \A w \in Worker :
         Rejects(req[w], f) => /\ file[f].request # "approved"
                               /\ \A v \in Worker : ~Approves(req[v], f)
  /\ f \notin torn /\ file[f].wished /\ file[f].inst =>
       file[f].request = "approved" \/ \E w \in Worker : Approves(req[w], f)

DecisionInv == \A f \in FileId : DecisionFits(f)

\* What the step of worker w is to file f.  It takes no new part in it:
Quiet(w, f) ==
  /\ file'[f].inst = file[f].inst /\ file'[f].request = file[f].request
  /\ Uploads(req'[w], f) => Uploads(req[w], f)
  /\ Approves(req'[w], f) => Approves(req[w], f)
  /\ Rejects(req'[w], f) => Rejects(req[w], f)
  /\ req'[w].pc = "approve" /\ req'[w].file = f => At(w, "approve") /\ req[w].file = f
  /\ Approves(req[w], f) => Approves(req'[w], f) \/ f \in torn'

\* it ends its part in it,
Leaves(w, f) ==
  ~Uploads(req'[w], f) /\ ~Approves(req'[w], f) /\ ~Rejects(req'[w], f)

\* making the request,
Makes(w, f) ==
  /\ file[f].wished /\ Uploads(req[w], f) /\ Leaves(w, f)
  /\ file'[f].inst = file[f].inst /\ file'[f].request = "pending"

\* approving it
ApprovesNow(w, f) ==
  /\ At(w, "approve") /\ req[w].file = f /\ Leaves(w, f)
  /\ file'[f].inst = file[f].inst /\ file'[f].request = "approved"

\* or rejecting it;
RejectsNow(w, f) ==
  /\ Rejects(req[w], f) /\ Leaves(w, f)
  /\ file'[f].inst = file[f].inst /\ file'[f].request = "rejected"

\* the file is made institutional,
Carries(w, f) ==
  /\ Approves(req[w], f) /\ Approves(req'[w], f)
  /\ ~Uploads(req'[w], f) /\ ~Rejects(req'[w], f)
  /\ file'[f].inst /\ file'[f].request = file[f].request

\* or the request comes to be decided.
Opens(w, f) ==
  /\ At(w, "idle") /\ file[f].request = "pending"
  /\ file'[f].inst = file[f].inst /\ file'[f].request = file[f].request
  /\ ~Uploads(req'[w], f) /\ req'[w].pc # "approve"
  /\ \/ /\ ~Rejects(req'[w], f)
        /\ (\E v \in Worker : Rejects(req[v], f)) => f \in torn'
     \/ /\ ~Approves(req'[w], f)
        /\ (\E v \in Worker : Approves(req[v], f)) => f \in torn'

DecisionStep(w, f) ==
  \/ Quiet(w, f) \/ Makes(w, f) \/ ApprovesNow(w, f) \/ RejectsNow(w, f)
  \/ Carries(w, f) \/ Opens(w, f)

LEMMA DecisionStays ==
  ASSUME NEW w \in Worker, NEW f, DecisionFits(f), DecisionStep(w, f), torn \subseteq torn',
         file'[f].wished = file[f].wished, \A v \in Worker \ {w} : req'[v] = req[v]
  PROVE  DecisionFits(f)'
<1>1. CASE Quiet(w, f)
  BY <1>1 DEF Quiet, DecisionFits, At
<1>2. CASE Makes(w, f)
  BY <1>2 DEF Makes, Leaves, DecisionFits, At, Approves
<1>3. CASE ApprovesNow(w, f)
  BY <1>3 DEF ApprovesNow, Leaves, DecisionFits, At, Approves
<1>4. CASE RejectsNow(w, f)
  BY <1>4 DEF RejectsNow, Leaves, DecisionFits, At, Approves
<1>5. CASE Carries(w, f)
  BY <1>5 DEF Carries, DecisionFits, At
<1>6. CASE Opens(w, f)
  BY <1>6 DEF Opens, DecisionFits, At, Approves
<1> QED BY <1>1, <1>2, <1>3, <1>4, <1>5, <1>6 DEF DecisionStep

\* Every step of a worker is one of these to every file that is there.
LEMMA DecisionSteps ==
  ASSUME TypeInv, [Next]_vars, NEW w \in Worker, Begin(w) \/ Serve(w), NEW f \in FileId
  PROVE  DecisionStep(w, f)
<1> USE DEF agentVars, fileVars
<1>0. /\ req \in [Worker -> AnyRequest] /\ Len(file) \in Nat /\ FileId \subseteq Nat
      /\ file \in Seq(File) /\ DOMAIN file = FileId /\ \A g \in FileId : file[g] \in File
  BY FileRows DEF TypeInv, ReqInv, FileId
<1>1. PICK q, g : q = req[w] /\ g = req[w].file
  OBVIOUS
<1>2. q \in AnyRequest /\ q.file = g /\ (ForFile(q) => g \in FileId)
  BY <1>0, <1>1 DEF TypeInv, ReqInv
\* Only four kinds of step decide.
<1>3. \/ file'[f].inst = file[f].inst /\ file'[f].request = file[f].request
      \/ Upsert(w) \/ MakeRequest(w) \/ Approve(w) \/ Reject(w)
  <2>1. CASE file' = file
    BY <2>1
  <2>2. ASSUME NEW intent \in Intent, NEW wished \in BOOLEAN,
               StartUpload(w, intent, wished)
                  \/ (intent = "admin" /\ ~wished /\ StartAdminUpload(w))
        PROVE  file'[f] = file[f]
    <3>1. file' = Append(file, Stored(intent, wished))
      BY <2>2 DEF StartUpload, StartAdminUpload
    <3> QED BY <1>0, <3>1, NewFile
  <2>3. ASSUME NEW h \in FileId, NEW r \in File, file' = [file EXCEPT ![h] = r], Kept(h, r, w)
        PROVE  \/ file'[f].inst = file[f].inst /\ file'[f].request = file[f].request
               \/ Upsert(w) \/ MakeRequest(w) \/ Approve(w) \/ Reject(w)
    <3>1. (file'[f] = r /\ f = h) \/ file'[f] = file[f]
      BY <1>0, <2>3, OneFile
    <3> QED BY <2>3, <3>1 DEF Kept
  <2> QED BY <2>1, <2>2, <2>3, FileSteps
<1> DEFINE Same == file'[f].inst = file[f].inst /\ file'[f].request = file[f].request
\* The request has no part in the file after the step.
<1>4. ASSUME NEW r, Goto(w, r),
             \/ r.file # f
             \/ r.pc \notin {"event", "link", "request", "board", "unset", "approve", "reject"}
             \/ r.pc \in {"board", "unset"} /\ r.then \notin {"link", "approve"}
      PROVE  req'[w] = r /\ Leaves(w, f) /\ ~(req'[w].pc = "approve" /\ req'[w].file = f)
  <2>1. req'[w] = r
    BY <1>0, <1>4 DEF Goto
  <2>2. ~Uploads(r, f) /\ ~Approves(r, f) /\ ~Rejects(r, f)
    BY <1>4 DEF Uploads, Approves, Rejects
  <2>3. ~(r.pc = "approve" /\ r.file = f)
    BY <1>4
  <2> QED BY <2>1, <2>2, <2>3 DEF Leaves
<1>5. ASSUME Same, Leaves(w, f), ~(req'[w].pc = "approve" /\ req'[w].file = f),
             ~Approves(q, f) \/ f \in torn'
      PROVE  DecisionStep(w, f)
  BY <1>1, <1>5 DEF Leaves, Quiet, DecisionStep
\* It goes on to do what it was to do for its file.
<1>6. ASSUME NEW r, Goto(w, r), Same, r.file = g, Uploads(q, g) \/ ~Uploads(r, g),
             Approves(q, g) <=> Approves(r, g), ~Rejects(r, g), r.pc # "approve"
      PROVE  DecisionStep(w, f)
  <2>1. req'[w] = r
    BY <1>0, <1>6 DEF Goto
  <2>2. CASE f = g
    BY <1>1, <1>6, <2>1, <2>2 DEF Quiet, DecisionStep
  <2>3. CASE f # g
    <3>1. ~Approves(q, f)
      BY <1>2, <2>3 DEF Approves
    <3> QED BY <1>4, <1>5, <1>6, <2>3, <3>1
  <2> QED BY <2>2, <2>3
<1>7. ASSUME Goto(w, Idle)
      PROVE  Leaves(w, f) /\ ~(req'[w].pc = "approve" /\ req'[w].file = f)
  <2>1. Idle.pc = "idle"
    BY DEF Idle
  <2> QED BY <1>4, <1>7, <2>1
<1>8. ASSUME NEW then \in Purpose \cup {"link", "approve"}, NEW h \in Nat, EnterBoard(w, then, h)
      PROVE  \E r : Goto(w, r) /\ r.pc = "board" /\ r.then = then /\ r.file = h
  <2>1. PICK r : r = BoardOf(then, h)
    OBVIOUS
  <2>2. r.pc = "board" /\ r.then = then /\ r.file = h
    BY <2>1 DEF BoardOf
  <2> QED BY <1>8, <2>1, <2>2 DEF EnterBoard
<1>9. CASE Begin(w)
  <2>1. At(w, "idle") /\ q.pc = "idle" /\ ~Approves(q, f) /\ Same
    <3>1. At(w, "idle")
      BY <1>9 DEF Begin, ListAgents, StartCreate, StartPut, StartUpload, StartAdminUpload,
                  StartApproval, StartRejection
    <3>2. q.pc = "idle"
      BY <1>1, <3>1 DEF At
    <3>3. ~Approves(q, f)
      BY <3>2 DEF Approves
    <3>4. ~(Upsert(w) \/ MakeRequest(w) \/ Approve(w) \/ Reject(w))
      BY <3>1 DEF At, Upsert, InsertHost, Backfill,
          InsertCore, Upserts, MakeRequest, Approve, Reject
    <3> QED BY <1>3, <3>1, <3>2, <3>3, <3>4
  <2>2. CASE ListAgents(w) \/ StartCreate(w)
    <3>1. \E r : Goto(w, r) /\ r.pc = "board" /\ r.then \in Purpose
      BY <1>8, <2>2 DEF ListAgents, StartCreate, Purpose, None
    <3> QED BY <1>4, <1>5, <2>1, <3>1 DEF Purpose
  <2>3. CASE \E src \in AgentId, wanted \in SUBSET AgentId : StartPut(w, src, wanted)
    <3>1. \E r : Goto(w, r) /\ r.pc = "put"
      BY <2>3 DEF StartPut
    <3> QED BY <1>4, <1>5, <2>1, <3>1
  <2>4. CASE \/ \E intent \in Intent, wished \in BOOLEAN : StartUpload(w, intent, wished)
             \/ StartAdminUpload(w)
    <3>1. \E r : Goto(w, r) /\ r.file = Len(file) + 1
      <4>1. PICK pc : Goto(w, [pc |-> pc, file |-> Len(file) + 1])
        BY <2>4 DEF StartUpload, StartAdminUpload
      <4>2. PICK r : r = [pc |-> pc, file |-> Len(file) + 1]
        OBVIOUS
      <4> QED BY <4>1, <4>2
    <3>2. Len(file) + 1 # f
      BY <1>0 DEF FileId
    <3> QED BY <1>4, <1>5, <2>1, <3>1, <3>2
  <2>5. ASSUME NEW h \in FileId, StartApproval(w, h) PROVE DecisionStep(w, f)
    <3>1. PICK r : Goto(w, r) /\ r.pc = "board" /\ r.then = "approve" /\ r.file = h
      <4>1. h \in Nat /\ EnterBoard(w, "approve", h)
        BY <1>0, <2>5 DEF StartApproval
      <4> QED BY <1>8, <4>1 DEF Purpose
    <3>2. CASE h = f
      <4>1. req'[w] = r
        BY <1>0, <3>1 DEF Goto
      <4>2. ~Uploads(r, f) /\ ~Rejects(r, f)
        BY <3>1 DEF Uploads, Rejects
      <4>3. (\E v \in Worker : Rejects(req[v], f)) => f \in torn'
        BY <2>5, <3>2 DEF StartApproval, Rejecting, Rejects, At
      <4>4. file[f].request = "pending"
        BY <2>5, <3>2 DEF StartApproval, Pending
      <4> QED BY <2>1, <3>1, <4>1, <4>2, <4>3, <4>4 DEF Opens, DecisionStep
    <3>3. CASE h # f
      BY <1>4, <1>5, <2>1, <3>1, <3>3
    <3> QED BY <3>2, <3>3
  <2>6. ASSUME NEW h \in FileId, StartRejection(w, h) PROVE DecisionStep(w, f)
    <3>1. PICK r : r = [pc |-> "reject", file |-> h]
      OBVIOUS
    <3>2. Goto(w, r) /\ r.pc = "reject" /\ r.file = h
      BY <2>6, <3>1 DEF StartRejection
    <3>3. CASE h = f
      <4>1. req'[w] = r
        BY <1>0, <3>2 DEF Goto
      <4>2. ~Uploads(r, f) /\ ~Approves(r, f)
        BY <3>2 DEF Uploads, Approves
      <4>3. (\E v \in Worker : Approves(req[v], f)) => f \in torn'
        BY <2>6, <3>3 DEF StartRejection, Approving, Approves, At, OnBoard
      <4>4. file[f].request = "pending"
        BY <2>6, <3>3 DEF StartRejection, Pending
      <4> QED BY <2>1, <3>2, <4>1, <4>2, <4>3, <4>4 DEF Opens, DecisionStep
    <3>4. CASE h # f
      BY <1>4, <1>5, <2>1, <3>2, <3>4
    <3> QED BY <3>3, <3>4
  <2> QED BY <1>9, <2>2, <2>3, <2>4, <2>5, <2>6 DEF Begin
<1>10. CASE Serve(w)
  <2>1. CASE (\E n \in Name : CreateAgent(w, n)) \/ CommitPut(w)
    <3>1. Goto(w, Idle) /\ q.pc \in {"create", "put"}
      BY <1>1, <2>1 DEF CreateAgent, CommitPut, At
    <3>2. ~Approves(q, f) /\ ~(Upsert(w) \/ MakeRequest(w) \/ Approve(w) \/ Reject(w))
      BY <1>1, <3>1 DEF Approves, At, Upsert, InsertHost, Backfill, InsertCore, Upserts,
                        MakeRequest, Approve, Reject
    <3> QED BY <1>3, <1>5, <1>7, <3>1, <3>2
  <2>2. CASE BeginUnset(w) /\ UNCHANGED fileVars
    <3>1. q \in Board /\ q.pc = "board"
      BY <1>1, <1>2, <2>2, Requests DEF BeginUnset, Upserts, At
    <3>2. PICK r : r = [q EXCEPT !.pc = "unset", !.upto = Len(agent)]
      OBVIOUS
    <3>3. r.pc = "unset" /\ r.then = q.then /\ r.file = g
      BY <1>2, <3>1, <3>2 DEF Board
    <3>4. Goto(w, r) /\ Same
      BY <1>1, <2>2, <3>2 DEF BeginUnset
    <3>5. /\ Uploads(q, g) <=> Uploads(r, g)
          /\ Approves(q, g) <=> Approves(r, g)
          /\ ~Rejects(r, g)
      BY <1>2, <3>1, <3>3 DEF Uploads, Approves, Rejects
    <3> QED BY <1>6, <3>3, <3>4, <3>5
  <2>3. CASE Upsert(w)
    <3>1. PICK n, r : r = AfterUpsert(q, n) /\ Goto(w, r)
      BY <1>1, <2>3 DEF Upsert, InsertHost, Backfill, InsertCore
    <3>2. q \in Board /\ q.pc \in {"board", "unset"}
      BY <1>1, <1>2, <2>3, Requests DEF Upsert, InsertHost, Backfill, InsertCore, Upserts, At
    <3>3. req'[w] = r
      BY <1>0, <3>1 DEF Goto
    <3>4. CASE q.then = "approve" /\ g = f
      <4>1. file'[f].inst /\ file'[f].request = file[f].request
        <5>1. file' = [file EXCEPT ![f] = [file[f] EXCEPT !["inst"] = TRUE]]
          BY <1>1, <2>3, <3>4 DEF Upsert, CarriesFile, Mark
        <5>2. PICK p : p = [file[f] EXCEPT !["inst"] = TRUE]
          OBVIOUS
        <5>3. p.inst /\ p.request = file[f].request
          BY <1>0, <5>2 DEF File
        <5> QED BY <1>0, <5>1, <5>2, <5>3
      <4>2. r.file = f /\ (r.pc = "approve" \/ (r.pc = "board" /\ r.then = "approve"))
        <5>1. CASE r = [pc |-> q.then, file |-> q.file]
          BY <1>2, <3>4, <5>1
        <5>2. CASE r.pc = "board" /\ r.then = q.then /\ r.file = q.file
          BY <1>2, <3>4, <5>2
        <5>3. q.then # "list"
          BY <3>4
        <5> QED BY <3>1, <3>2, <5>1, <5>2, <5>3, AfterBoard
      <4>3. Approves(r, f) /\ ~Uploads(r, f) /\ ~Rejects(r, f)
        BY <4>2 DEF Approves, Uploads, Rejects
      <4>4. Approves(q, f)
        BY <1>2, <3>2, <3>4 DEF Approves
      <4> QED BY <1>1, <3>3, <4>1, <4>3, <4>4 DEF Carries, DecisionStep
    <3>5. CASE ~(q.then = "approve" /\ g = f)
      <4>1. Same
        <5>1. CASE q.then = "approve"
          <6>1. PICK p : file' = [file EXCEPT ![g] = p]
            BY <1>1, <2>3, <5>1 DEF Upsert, CarriesFile, Mark
          <6> QED BY <1>0, <3>5, <5>1, <6>1
        <5>2. CASE q.then # "approve"
          BY <1>1, <2>3, <5>2 DEF Upsert, CarriesFile
        <5> QED BY <5>1, <5>2
      <4>2. ~Approves(q, f)
        BY <1>2, <3>2, <3>5 DEF Approves
      <4>3. CASE r = Idle
        BY <1>5, <1>7, <3>1, <4>1, <4>2, <4>3
      <4>4. CASE q.then \in {"create", "link", "approve"} /\ r = [pc |-> q.then, file |-> q.file]
        <5>1. r.pc = q.then /\ r.file = g
          BY <1>2, <4>4
        <5>2. CASE q.then = "link"
          <6>1. Uploads(q, g) /\ ~Approves(q, g) /\ ~Approves(r, g) /\ ~Rejects(r, g)
            BY <1>2, <3>2, <5>1, <5>2 DEF Uploads, Approves, Rejects
          <6> QED BY <1>6, <3>1, <4>1, <5>1, <5>2, <6>1
        <5>3. CASE q.then = "create"
          BY <1>4, <1>5, <3>1, <4>1, <4>2, <5>1, <5>3
        <5>4. CASE q.then = "approve"
          BY <1>4, <1>5, <3>1, <3>5, <4>1, <4>2, <5>1, <5>4
        <5> QED BY <4>4, <5>2, <5>3, <5>4
      <4>5. CASE r.pc = "board" /\ r.then = q.then /\ r.file = q.file
        <5>1. /\ Uploads(q, g) <=> Uploads(r, g)
              /\ Approves(q, g) <=> Approves(r, g)
              /\ ~Rejects(r, g)
          BY <1>2, <3>2, <4>5 DEF Uploads, Approves, Rejects
        <5> QED BY <1>2, <1>6, <3>1, <4>1, <4>5, <5>1
      <4> QED BY <3>1, <3>2, <4>3, <4>4, <4>5, AfterBoard
    <3> QED BY <3>4, <3>5
  <2>4. CASE BoardFails(w)
    <3>1. q.pc = "board" /\ Same
      <4>1. q.pc = "board"
        BY <1>1, <2>4 DEF BoardFails, RowGone, Upserts, At
      <4> QED BY <2>4, <4>1 DEF BoardFails
    <3>2. CASE q.then = "link"
      <4>1. PICK pc \in {"request", "broken"} : Goto(w, [pc |-> pc, file |-> g])
        BY <1>1, <2>4, <3>2 DEF BoardFails, Fail
      <4>2. PICK r : r = [pc |-> pc, file |-> g]
        OBVIOUS
      <4>3. r.pc = pc /\ r.file = g
        BY <4>2
      <4>4. Uploads(q, g) /\ ~Approves(q, g) /\ ~Approves(r, g) /\ ~Rejects(r, g)
        BY <1>2, <3>1, <3>2, <4>3 DEF Uploads, Approves, Rejects
      <4> QED BY <1>6, <3>1, <4>1, <4>2, <4>3, <4>4
    <3>3. CASE q.then # "link"
      <4>1. Goto(w, Idle)
        BY <1>1, <2>4, <3>3 DEF BoardFails
      <4>2. ~Approves(q, f) \/ f \in torn'
        BY <1>1, <2>4, <3>1 DEF BoardFails, TornBy, Approving, Approves, OnBoard, At
      <4> QED BY <1>5, <1>7, <3>1, <4>1, <4>2
    <3> QED BY <3>2, <3>3
  <2>5. CASE Approve(w) \/ Reject(w)
    <3>1. q.pc \in {"approve", "reject"} /\ Leaves(w, f) /\ Goto(w, Idle)
      BY <1>1, <1>7, <2>5 DEF Approve, Reject, At
    <3>2. CASE g = f
      <4>1. PICK s \in {"approved", "rejected"} :
              /\ file' = [file EXCEPT ![f] = [file[f] EXCEPT !["request"] = s]]
              /\ s = "approved" <=> q.pc = "approve"
        BY <1>1, <2>5, <3>2 DEF Approve, Reject, Mark, At
      <4>2. PICK p : p = [file[f] EXCEPT !["request"] = s]
        OBVIOUS
      <4>3. p.inst = file[f].inst /\ p.request = s
        BY <1>0, <4>2 DEF File
      <4>4. file'[f] = p
        BY <1>0, <4>1, <4>2
      <4>5. CASE q.pc = "approve"
        BY <1>1, <3>1, <3>2, <4>1, <4>3, <4>4, <4>5 DEF ApprovesNow, DecisionStep, At
      <4>6. CASE q.pc = "reject"
        BY <1>1, <3>1, <3>2, <4>1, <4>3, <4>4, <4>6 DEF RejectsNow, DecisionStep, Rejects
      <4> QED BY <3>1, <4>5, <4>6
    <3>3. CASE g # f
      <4>1. PICK p : file' = [file EXCEPT ![g] = p]
        BY <1>1, <2>5 DEF Approve, Reject, Mark
      <4>2. Same /\ ~Approves(q, f)
        BY <1>0, <1>2, <3>3, <4>1 DEF Approves
      <4> QED BY <1>5, <1>7, <3>1, <4>2
    <3> QED BY <3>2, <3>3
  <2>6. CASE MakeRequest(w)
    <3>1. q.pc = "request"
      BY <1>1, <2>6 DEF MakeRequest, At
    <3>2. Step(w, "extract")
      BY <2>6 DEF MakeRequest
    <3>3. PICK r : r = [q EXCEPT !.pc = "extract"]
      OBVIOUS
    <3>4. Goto(w, r) /\ r.pc = "extract"
      <4>1. q = [pc |-> q.pc, file |-> q.file]
        BY <1>2, <3>1, Requests DEF FilePc, UploadPc
      <4>2. r.pc = "extract"
        BY <3>3, <4>1
      <4> QED BY <1>1, <3>2, <3>3, <4>2 DEF Step
    <3>5. Leaves(w, f) /\ ~(req'[w].pc = "approve" /\ req'[w].file = f)
      BY <1>4, <3>4
    <3>6. ~Approves(q, f)
      BY <3>1 DEF Approves
    <3>7. CASE g = f /\ file[f].wished
      <4>1. file' = [file EXCEPT ![f] = [file[f] EXCEPT !["request"] = "pending"]]
        BY <1>1, <2>6, <3>7 DEF MakeRequest, Mark
      <4>2. PICK p : p = [file[f] EXCEPT !["request"] = "pending"]
        OBVIOUS
      <4>3. p.inst = file[f].inst /\ p.request = "pending"
        BY <1>0, <4>2 DEF File
      <4>4. file'[f] = p
        BY <1>0, <4>1, <4>2
      <4>5. Uploads(q, f)
        BY <1>2, <3>1, <3>7 DEF Uploads
      <4> QED BY <1>1, <3>5, <3>7, <4>3, <4>4, <4>5 DEF Makes, DecisionStep
    <3>8. CASE g # f \/ ~file[f].wished
      <4>1. file' = file \/ (g # f /\ \E p : file' = [file EXCEPT ![g] = p])
        BY <1>1, <2>6, <3>8 DEF MakeRequest, Mark
      <4>2. Same
        BY <1>0, <4>1
      <4> QED BY <1>5, <3>5, <3>6, <4>2
    <3> QED BY <3>7, <3>8
\* The steps of an upload that decide nothing.
  <2>7. ASSUME NEW pc \in UploadPc, q.pc \in UploadPc, Goto(w, [pc |-> pc, file |-> g]), Same,
               pc \in {"event", "link", "request"} => q.pc \in {"event", "link", "request"}
        PROVE  DecisionStep(w, f)
    <3>1. PICK r : r = [pc |-> pc, file |-> g]
      OBVIOUS
    <3>2. r.pc = pc /\ r.file = g
      BY <3>1
    <3>3. Uploads(q, g) \/ ~Uploads(r, g)
      BY <1>2, <2>7, <3>2 DEF Uploads, UploadPc
    <3>4. ~Approves(q, g) /\ ~Approves(r, g) /\ ~Rejects(r, g) /\ r.pc # "approve"
      BY <2>7, <3>2 DEF Approves, Rejects, UploadPc
    <3> QED BY <1>6, <2>7, <3>1, <3>2, <3>3, <3>4
  <2>8. ASSUME q.pc \in UploadPc, NEW pc, Step(w, pc) PROVE Goto(w, [pc |-> pc, file |-> g])
    <3>1. PICK x : x = q.pc /\ q = [pc |-> x, file |-> g]
      BY <1>2, <2>8, Requests DEF FilePc
    <3>2. [q EXCEPT !.pc = pc] = [pc |-> pc, file |-> g]
      BY <3>1
    <3> QED BY <1>1, <2>8, <3>2 DEF Step
  <2>9. CASE /\ ~MakeRequest(w)
             /\ PostEvent(w) \/ Onward(w) \/ StepFails(w) \/ Answer(w)
    <3>1. q.pc \in UploadPc
      BY <1>1, <2>9, OnwardSteps DEF PostEvent, StepFails, Answer, At, UploadPc
    <3>2. Same
      <4>1. ~(Upsert(w) \/ Approve(w) \/ Reject(w))
        BY <1>1, <3>1 DEF At, Upsert, InsertHost, Backfill, InsertCore, Upserts,
                          Approve, Reject, UploadPc
      <4> QED BY <1>3, <2>9, <4>1
    <3>3. ~Approves(q, f)
      BY <3>1 DEF Approves, UploadPc
    <3>4. CASE Goto(w, Idle)
      BY <1>5, <1>7, <3>2, <3>3, <3>4
    <3>5. CASE PostEvent(w)
      <4>1. q.pc = "event" /\ g \in Nat
        BY <1>0, <1>1, <1>2, <3>1, <3>5 DEF PostEvent, At, ForFile, FilePc
      <4>2. CASE EnterBoard(w, "link", g)
        <5>1. PICK r : Goto(w, r) /\ r.pc = "board" /\ r.then = "link" /\ r.file = g
          BY <1>8, <4>1, <4>2 DEF Purpose
        <5>2. Uploads(q, g) /\ ~Approves(q, g) /\ ~Approves(r, g) /\ ~Rejects(r, g)
          BY <1>2, <4>1, <5>1 DEF Uploads, Approves, Rejects
        <5> QED BY <1>6, <3>2, <5>1, <5>2
      <4>3. CASE Step(w, "link")
        BY <2>7, <2>8, <3>1, <3>2, <4>1, <4>3 DEF UploadPc
      <4> QED BY <1>1, <3>5, <4>2, <4>3 DEF PostEvent
    <3>6. CASE LinkAgents(w)
      <4>1. q.pc = "link" /\ Step(w, "request")
        BY <1>1, <3>6 DEF LinkAgents, At
      <4> QED BY <2>7, <2>8, <3>1, <3>2, <4>1 DEF UploadPc
    <3>7. CASE StepFails(w)
      <4>1. Goto(w, [pc |-> "broken", file |-> g])
        BY <1>1, <3>7 DEF StepFails, Fail
      <4> QED BY <2>7, <3>1, <3>2, <4>1 DEF UploadPc
    <3>8. CASE Onward(w) /\ ~LinkAgents(w)
      <4>1. PICK pc \in {"attach", "no shelf", "shelf", "announce", "answer"} : Step(w, pc)
        BY <2>9, <3>8 DEF Onward, Extract, Attach, FindShelf, MakeShelf, Announce, NotAnnounced
      <4> QED BY <2>7, <2>8, <3>1, <3>2, <4>1 DEF UploadPc
    <3>9. CASE Answer(w)
      BY <3>4, <3>9 DEF Answer
    <3> QED BY <2>9, <3>4, <3>5, <3>6, <3>7, <3>8, <3>9
  <2>10. CASE GiveUp(w)
    <3>1. Goto(w, Idle) /\ Same
      BY <2>10 DEF GiveUp
    <3>2. ~Approves(q, f) \/ f \in torn'
      BY <1>1, <2>10 DEF GiveUp, TornBy, Approving, Approves, OnBoard, At
    <3> QED BY <1>5, <1>7, <3>1, <3>2
  <2> QED BY <1>10, <2>1, <2>2, <2>3, <2>4, <2>5, <2>6, <2>9, <2>10 DEF Serve, Onward
<1> QED BY <1>9, <1>10

\* A file that is new is wished for and not institutional, or not wished for;
\* no request but its own knows it.
LEMMA DecisionBegins ==
  ASSUME TypeInv, [Next]_vars, NEW w \in Worker, Begin(w) \/ Serve(w),
         NEW f \in FileId', f \notin FileId
  PROVE  DecisionFits(f)'
<1>0. file \in Seq(File) /\ Len(file) \in Nat /\ req \in [Worker -> AnyRequest]
  BY FileRows DEF TypeInv, ReqInv
<1>1. file' # file
  BY DEF FileId
<1>2. \A h \in FileId, r \in File : file' # [file EXCEPT ![h] = r]
  BY <1>0, OneFile DEF FileId
<1>3. PICK intent \in Intent, wished \in BOOLEAN :
        StartUpload(w, intent, wished) \/ (intent = "admin" /\ ~wished /\ StartAdminUpload(w))
  BY <1>1, <1>2, FileSteps
<1>4. PICK pc \in {"event", "extract"} :
        /\ Goto(w, [pc |-> pc, file |-> Len(file) + 1])
        /\ file' = Append(file, Stored(intent, wished))
        /\ wished => intent = "chat"
  BY <1>3 DEF StartUpload, StartAdminUpload
<1>5. f = Len(file) + 1
  BY <1>0, <1>4, NewFile DEF FileId
<1>6. /\ file'[f].wished => ~file'[f].inst
      /\ file'[f].request = "none"
  BY <1>0, <1>4, <1>5, NewFile
<1>7. PICK r : r = [pc |-> pc, file |-> f]
  OBVIOUS
<1>8. req'[w] = r /\ r.pc = pc
  BY <1>0, <1>4, <1>5, <1>7 DEF Goto
<1>9. \A v \in Worker \ {w} :
        /\ ~Uploads(req'[v], f) /\ ~Approves(req'[v], f) /\ ~Rejects(req'[v], f)
        /\ ~(req'[v].pc = "approve" /\ req'[v].file = f)
  <2> SUFFICES ASSUME NEW v \in Worker, v # w
               PROVE  /\ ~Uploads(req'[v], f) /\ ~Approves(req'[v], f) /\ ~Rejects(req'[v], f)
                      /\ ~(req'[v].pc = "approve" /\ req'[v].file = f)
    OBVIOUS
  <2>1. PICK q : q = req[v] /\ q = req'[v]
    BY OthersStay
  <2>2. ForFile(q) => q.file # f
    BY <2>1 DEF TypeInv, ReqInv
  <2>3. /\ ~Uploads(q, f) /\ ~Approves(q, f) /\ ~Rejects(q, f)
        /\ ~(q.pc = "approve" /\ q.file = f)
    BY <2>2 DEF ForFile, FilePc, UploadPc, Uploads, Approves, Rejects
  <2> QED BY <2>1, <2>3
<1>10. ~Approves(r, f) /\ ~Rejects(r, f) /\ r.pc # "approve"
  BY <1>8 DEF Approves, Rejects
<1> QED BY <1>6, <1>8, <1>9, <1>10 DEF DecisionFits, At

\* What is known of a file and of those who decide about it is true.
THEOREM DecisionsCorrect == Spec => []DecisionInv
<1>1. Init => DecisionInv
  BY DEF Init, DecisionInv, FileId
<1>2. TypeInv /\ DecisionInv /\ [Next]_vars => DecisionInv'
  <2> SUFFICES ASSUME TypeInv, DecisionInv, [Next]_vars, NEW f \in FileId' PROVE DecisionFits(f)'
    BY DEF DecisionInv
  <2>1. CASE AgentChange \/ UNCHANGED vars
    <3>1. req' = req /\ file' = file /\ torn' = torn
      BY <2>1 DEF AgentChange, UpdateAgent, DeleteAgent, vars, fileVars
    <3>2. DecisionFits(f)
      BY <3>1 DEF DecisionInv, FileId
    <3> QED BY <3>1, <3>2 DEF DecisionFits, At
  <2>2. ASSUME NEW w \in Worker, Begin(w) \/ Serve(w) PROVE DecisionFits(f)'
    <3>1. CASE f \in FileId
      <4>1. file'[f].wished = file[f].wished
        BY <3>1, FilesStay DEF Grown
      <4>2. torn \subseteq torn' /\ \A v \in Worker \ {w} : req'[v] = req[v]
        BY <2>2, TornStays, OthersStay
      <4>3. DecisionFits(f) /\ DecisionStep(w, f)
        BY <2>2, <3>1, DecisionSteps DEF DecisionInv
      <4> QED BY <4>1, <4>2, <4>3, DecisionStays
    <3>2. CASE f \notin FileId
      BY <2>2, <3>2, DecisionBegins
    <3> QED BY <3>1, <3>2
  <2> QED BY <2>1, <2>2 DEF Next
<1> QED BY <1>1, <1>2, TypesCorrect, PTL DEF Spec

\* What the admins decided of a request and what the file is agree, unless the
\* approval was cut short or met a rejection (admin_approve_file_request,
\* admin_reject_file_request).
THEOREM DecisionsHold == Spec => []DecisionHolds
<1>1. ASSUME DecisionInv PROVE DecisionHolds
  <2> SUFFICES ASSUME NEW f \in FileId \ torn, file[f].wished
               PROVE  /\ file[f].inst =>
                           file[f].request = "approved" \/ \E w \in Worker : Approving(w, f)
                      /\ file[f].request = "approved" => file[f].inst
    BY DEF DecisionHolds
  <2>1. \A w \in Worker : Approves(req[w], f) => Approving(w, f)
    BY DEF Approves, Approving, OnBoard, At
  <2>2. DecisionFits(f)
    BY <1>1 DEF DecisionInv
  <2> QED BY <2>1, <2>2 DEF DecisionFits
<1> QED BY <1>1, DecisionsCorrect, PTL
=============================================================================
