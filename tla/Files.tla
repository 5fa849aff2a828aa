-------------------------------- MODULE Files --------------------------------
(* Uploads, the institutional documents among them, and the requests to     *)
(* make a document institutional (app/main.py), with the agents they are    *)
(* linked to.                                                               *)
(*                                                                          *)
(* An upload is a chain of commits.  One that fails leaves the session      *)
(* unusable until it is rolled back, which only the handler of the text     *)
(* does; it marks the file then.  The log lines of the handlers in between  *)
(* read the id of the file, which may raise too: GiveUp.                    *)
EXTENDS Agents

CONSTANTS
  MaxFiles,    \* bound: files ever stored
  MaxRequests  \* bound: requests ever started

ASSUME FileBounds == MaxFiles \in Nat /\ MaxRequests \in Nat

VARIABLES
  file,    \* file[f]: the f-th file stored
  served,  \* requests started so far
  shelves, \* threads with the title of the institutional documents
  torn     \* history: approvals that were cut short or met a rejection

fileVars == <<file, shelves, torn>>
vars == <<agentVars, fileVars, req, served>>

FileId == 1 .. Len(file)
Intent == {"chat", "agent", "institutional", "admin"}
Status == {"none", "pending", "approved", "rejected"}
\* wished: with a request to make it institutional.  said is history: that it is
\* attached, to its thread, then that it is stored, to whoever uploaded it.
File == [intent : Intent, wished : BOOLEAN, inst : BOOLEAN, event : BOOLEAN,
         text : {"none", "stored", "failed"}, request : Status,
         said : {"nothing", "attached", "stored"}]

Upload == [pc : {"event", "link", "request", "extract", "broken", "attach", "shelf",
                 "no shelf", "announce", "answer"}, file : Nat]
Decision == [pc : {"link", "approve", "reject"}, file : Nat]
BoardRequest == [pc : {"board", "unset"}, then : {"link", "approve"}, file : Nat,
                 todo : SUBSET Core, seen : [Core -> Nat], upto : Nat]

TypeOK ==
  /\ agent \in Seq(Agent)
  /\ link \subseteq Link
  /\ indexed \in BOOLEAN
  /\ file \in Seq(File)
  /\ shelves \in Nat /\ served \in Nat
  /\ torn \subseteq FileId
  /\ req \in [Worker -> AgentRequest \cup BoardRequest \cup Upload \cup Decision]

-----------------------------------------------------------------------------
(* upload *)

Stored(intent, wished) ==
  [intent |-> intent, wished |-> wished, inst |-> intent \in {"institutional", "admin"},
   event |-> FALSE, text |-> "none", request |-> "none", said |-> "nothing"]

\* Whoever is not an admin and asks for an institutional file uploads to a
\* thread, with a request; an admin's wish for a request is not looked at.
StartUpload(w, intent, wished) ==
  /\ At(w, "idle") /\ Len(file) < MaxFiles
  /\ intent # "admin" /\ (wished => intent = "chat")
  /\ file' = Append(file, Stored(intent, wished))
  /\ Goto(w, [pc |-> "event", file |-> Len(file) + 1])
  /\ UNCHANGED <<agentVars, shelves, torn>>

Step(w, pc) == Goto(w, [req[w] EXCEPT !.pc = pc])
Mark(f, field, value) == file' = [file EXCEPT ![f] = [@ EXCEPT ![field] = value]]

\* The event in the thread, if there is one; an institutional file goes on to
\* ensure_core_agents.
PostEvent(w) ==
  /\ At(w, "event")
  /\ LET f == req[w].file IN
     /\ \/ Mark(f, "event", TRUE)
        \/ file[f].intent # "chat" /\ UNCHANGED file
     /\ IF file[f].intent = "institutional"
        THEN EnterBoard(w, "link", f)
        ELSE Step(w, "link") /\ UNCHANGED contested
  /\ UNCHANGED <<agent, link, indexed, shelves, torn>>

LinkAgents(w) ==
  /\ At(w, "link")
  /\ Step(w, "request")
  /\ UNCHANGED <<agent, link, indexed, contested, fileVars>>

MakeRequest(w) ==
  /\ At(w, "request")
  /\ IF file[req[w].file].wished THEN Mark(req[w].file, "request", "pending")
                                 ELSE UNCHANGED file
  /\ Step(w, "extract")
  /\ UNCHANGED <<agentVars, shelves, torn>>

\* Caught, logged and not rolled back.
Fail_RolledBack(w) == Goto(w, [pc |-> "extract", file |-> req[w].file])
Fail(w) == Goto(w, [pc |-> "broken", file |-> req[w].file])

StepFails(w) ==
  /\ \E pc \in {"event", "link", "request"} : At(w, pc)
  /\ Fail(w)
  /\ UNCHANGED <<agentVars, fileVars>>

\* The text is stored with its chunks, or there is none; nothing can be stored
\* in a session that is broken, which is rolled back here.
Extract(w) ==
  /\ At(w, "extract") \/ At(w, "broken")
  /\ \E text \in {"stored", "failed"} :
       /\ At(w, "broken") => text = "failed"
       /\ Mark(req[w].file, "text", text)
  /\ Step(w, CASE file[req[w].file].intent = "chat" -> "attach"
                [] file[req[w].file].intent = "admin" -> "shelf"
                [] OTHER -> "answer")
  /\ UNCHANGED <<agentVars, shelves, torn>>

\* "Arquivo anexado", for a file of a thread.  A commit that fails is rolled
\* back: nothing is marked, and nobody is told.
Attach(w) ==
  /\ At(w, "attach")
  /\ Mark(req[w].file, "said", "attached") \/ UNCHANGED file
  /\ Step(w, "answer")
  /\ UNCHANGED <<agentVars, shelves, torn>>

Answer(w) ==
  /\ At(w, "answer")
  /\ Mark(req[w].file, "said", "stored")
  /\ Goto(w, Idle)
  /\ UNCHANGED <<agentVars, shelves, torn>>

-----------------------------------------------------------------------------
(* admin_upload_file: no agent is told; announced in a thread by its title *)

StartAdminUpload(w) ==
  /\ At(w, "idle") /\ Len(file) < MaxFiles
  /\ file' = Append(file, Stored("admin", FALSE))
  /\ Goto(w, [pc |-> "extract", file |-> Len(file) + 1])
  /\ UNCHANGED <<agentVars, shelves, torn>>

FindShelf(w) ==
  /\ At(w, "shelf") /\ shelves < 2
  /\ Step(w, IF shelves = 0 THEN "no shelf" ELSE "announce")
  /\ UNCHANGED <<agentVars, fileVars>>

MakeShelf(w) ==
  /\ At(w, "no shelf")
  /\ shelves' = shelves + 1
  /\ Step(w, "announce")
  /\ UNCHANGED <<agentVars, file, torn>>

Announce(w) ==
  /\ At(w, "announce")
  /\ Mark(req[w].file, "event", TRUE)
  /\ Step(w, "answer")
  /\ UNCHANGED <<agentVars, shelves, torn>>

\* Two threads of the title, or a commit that fails: the upload is answered.
NotAnnounced(w) ==
  /\ (At(w, "shelf") /\ shelves >= 2) \/ At(w, "no shelf") \/ At(w, "announce")
  /\ Step(w, "answer")
  /\ UNCHANGED <<agentVars, fileVars>>

-----------------------------------------------------------------------------
(* admin_approve_file_request, admin_reject_file_request *)

Pending_Decided(f) == f \in FileId /\ file[f].request # "none"
Pending(f) == f \in FileId /\ file[f].request = "pending"
Approving(w, f) ==
  \/ At(w, "approve") /\ req[w].file = f
  \/ OnBoard(w) /\ req[w].then = "approve" /\ req[w].file = f
Rejecting(w, f) == At(w, "reject") /\ req[w].file = f

StartApproval(w, f) ==
  /\ At(w, "idle") /\ Pending(f)
  /\ EnterBoard(w, "approve", f)
  /\ torn' = IF \E v \in Worker : Rejecting(v, f) THEN torn \cup {f} ELSE torn
  /\ UNCHANGED <<agent, link, indexed, file, shelves>>

\* The commits of ensure_core_agents carry the file that the approval has
\* already changed.
CarriesFile(w) ==
  IF req[w].then = "approve" THEN Mark(req[w].file, "inst", TRUE) ELSE UNCHANGED file

Upsert(w) ==
  /\ InsertHost(w) \/ \E n \in Core : Backfill(w, n) \/ InsertCore(w, n)
  /\ CarriesFile(w)
  /\ UNCHANGED <<shelves, torn>>

TornBy(w) == {f \in FileId : Approving(w, f)}

\* A core agent was deleted meanwhile: the upload goes on, with or without its
\* session, other requests end.
BoardFails(w) ==
  /\ \E n \in Core : RowGone(w, n)
  /\ IF req[w].then = "link"
     THEN \/ Goto(w, [pc |-> "request", file |-> req[w].file])
          \/ Fail(w)
     ELSE Goto(w, Idle)
  /\ torn' = torn \cup TornBy(w)
  /\ UNCHANGED <<file, shelves>>

Approve(w) ==
  /\ At(w, "approve")
  /\ Mark(req[w].file, "request", "approved")
  /\ Goto(w, Idle)
  /\ UNCHANGED <<agent, link, indexed, contested, shelves, torn>>

StartRejection(w, f) ==
  /\ At(w, "idle") /\ Pending(f)
  /\ Goto(w, [pc |-> "reject", file |-> f])
  /\ torn' = IF \E v \in Worker : Approving(v, f) THEN torn \cup {f} ELSE torn
  /\ UNCHANGED <<agentVars, file, shelves>>

Reject(w) ==
  /\ At(w, "reject")
  /\ Mark(req[w].file, "request", "rejected")
  /\ Goto(w, Idle)
  /\ UNCHANGED <<agentVars, shelves, torn>>

-----------------------------------------------------------------------------
\* The request ends early, with an error or with the process.
GiveUp(w) ==
  /\ ~At(w, "idle")
  /\ Goto(w, Idle)
  /\ torn' = torn \cup TornBy(w)
  /\ UNCHANGED <<agentVars, file, shelves>>

Init ==
  /\ agent = <<>> /\ link = {} /\ contested = {}
  /\ indexed \in BOOLEAN
  /\ file = <<>> /\ torn = {} /\ served = 0
  /\ shelves \in 0 .. 2 \* a title is anybody's to give to a thread
  /\ req = [w \in Worker |-> Idle]

Begin(w) ==
  \/ /\ \/ ListAgents(w) \/ StartCreate(w)
        \/ \E src \in AgentId, wanted \in SUBSET AgentId : StartPut(w, src, wanted)
     /\ UNCHANGED fileVars
  \/ \E intent \in Intent, wished \in BOOLEAN : StartUpload(w, intent, wished)
  \/ StartAdminUpload(w)
  \/ \E f \in FileId : StartApproval(w, f) \/ StartRejection(w, f)

\* One commit, for whichever worker.
AgentChange ==
  /\ \E a \in AgentId :
       \/ \E n \in Name, default \in BOOLEAN : UpdateAgent(a, n, default)
       \/ DeleteAgent(a)
  /\ UNCHANGED fileVars

Serve(w) ==
  \/ /\ (\E n \in Name : CreateAgent(w, n)) \/ CommitPut(w) \/ BeginUnset(w)
     /\ UNCHANGED fileVars
  \/ Upsert(w) \/ BoardFails(w) \/ Approve(w) \/ Reject(w)
  \/ PostEvent(w) \/ LinkAgents(w) \/ MakeRequest(w) \/ StepFails(w) \/ Extract(w)
  \/ Attach(w) \/ FindShelf(w) \/ MakeShelf(w) \/ Announce(w) \/ NotAnnounced(w)
  \/ Answer(w)
  \/ GiveUp(w)

Next ==
  \/ /\ served < MaxRequests /\ served' = served + 1
     /\ AgentChange \/ \E w \in Worker : Begin(w)
  \/ (\E w \in Worker : Serve(w)) /\ UNCHANGED served

Spec == Init /\ [][Next]_vars

-----------------------------------------------------------------------------
\* No upload that was answered as stored, or whose thread says that it is
\* attached, lost its event in the thread or its request without the file being
\* marked as one without a text: the handlers that swallow a failed commit leave
\* the session broken, and only the handler of the text repairs it.
SilentLossIsFlagged ==
  \A f \in FileId :
    file[f].said # "nothing" /\ file[f].intent = "chat" /\ file[f].text # "failed" =>
      /\ file[f].event
      /\ file[f].wished => file[f].request # "none"

\* What the admins decided of a request and what the file is agree, unless the
\* approval was cut short or a rejection came in between: a rejected file is
\* not institutional, an institutional one was approved or is being approved.
DecisionHolds ==
  \A f \in FileId \ torn :
    file[f].wished =>
      /\ file[f].inst =>
           file[f].request = "approved" \/ \E w \in Worker : Approving(w, f)
      /\ file[f].request = "approved" => file[f].inst

\* "# ensure ... 3 core agents", "# unset other defaults first": there are never
\* two defaults, for which the selection of an agent fails (_select_target_agents),
\* unless two requests made the host at a time.
OneDefault == Orkio \in contested \/ Cardinality(Defaults) <= 1

\* "# disable existing links": the links of an agent that count are those of one
\* request, unless two overlapped.
LinksAreOnePut ==
  \A l, m \in link :
    l.enabled /\ m.enabled /\ l.src = m.src /\ l.src \notin contested =>
      l.put = m.put

\* "Nunca retorna lista vazia se houver pelo menos 1 agente cadastrado"
\* (_select_target_agents): where a message names no agent the default answers.
AlwaysATarget == Live # {} => Cardinality(Defaults) = 1
=============================================================================
