---------------------------- MODULE GitHubBridge ----------------------------
(* Writes to the repository on GitHub: the capabilities that a chat message *)
(* triggers (_github_*_capability in app/main.py), the internal routes      *)
(* (git_internal.py, the Orion fixes on top of them), the proposals of      *)
(* evolution_internal.py and the commits of self_heal/github_pr_writer.py.  *)
(*                                                                          *)
(* Each call to GitHub is a step; others push in between, and an answer may *)
(* get lost whether or not the call was carried out.  The contents of a     *)
(* file are the edits in it, so that equal contents have equal sha; {} is   *)
(* no file.  GitHub takes a file with the sha of the one there (none if     *)
(* there is none), and moves a branch to a commit whose ancestor it is at.  *)
EXTENDS Naturals, Sequences, FiniteSets

CONSTANTS
  Worker,      \* threads that serve requests
  Path,        \* files
  Branch,      \* branches, Default among them
  Default,     \* GITHUB_BRANCH
  MaxCommits,  \* bound: commits on the branches
  MaxEdits     \* bound: requests that edit, and pushes of others

ASSUME DefaultIsBranch == Default \in Branch
ASSUME BoundsAreNumbers == MaxCommits \in Nat /\ MaxEdits \in Nat

VARIABLES
  mainAllowed,  \* ALLOW_GITHUB_MAIN_DIRECT of the deployment
  head,         \* head[b]: the commit branch b is at, None if it is not there
  commit,       \* commit[c]: the c-th commit that was put on a branch
  edits,        \* edits handed out so far
  req,          \* req[w]: the request worker w is serving
  confirmed     \* history: replies that say an edit was carried out

vars == <<mainAllowed, head, commit, edits, req, confirmed>>

None == 0
Edit == Nat \ {0}
Content == SUBSET Edit
NoFile == {}

\* Who commits.  one puts a file, all the files of a batch.
Capability == {"create", "update", "append"}
OneFile == Capability \cup {"internal", "proposal", "writer"}
By == OneFile \cup {"batch", "other"}

\* read is history: of each file the change was computed from its contents.
Commit == [branch : Branch, parent : Nat, tree : [Path -> Content], by : By,
           path : SUBSET Path, read : [Path -> Content], edit : Nat]

Idle == [pc |-> "idle"]
Request == {Idle}
  \cup [pc : {"read", "put", "verify"}, by : OneFile, branch : Branch,
        path : Path, todo : SUBSET Path, edit : Edit, source : Branch,
        base : Content, sha : Content]
  \cup [pc : {"base"}, branch : Branch, edit : Edit, appends : SUBSET Path]
  \cup [pc : {"tree", "ref"}, branch : Branch, edit : Edit,
        appends : SUBSET Path, base : Nat, read : [Path -> Content]]
  \cup [pc : {"check"}, branch : Branch, edit : Edit]
  \cup [pc : {"source", "name"}, by : {"internal", "proposal"}, branch : Branch,
        path : Path, edit : Edit, source : Branch, base : Content, at : Nat]

TypeOK ==
  /\ mainAllowed \in BOOLEAN
  /\ head \in [Branch -> 0 .. Len(commit)]
  /\ commit \in Seq(Commit)
  /\ edits \in Nat
  /\ req \in [Worker -> Request]
  /\ confirmed \subseteq [how : {"done", "prepared"}, edit : Edit, paths : SUBSET Path]

At(w, pc) == req[w].pc = pc
Goto(w, r) == req' = [req EXCEPT ![w] = r]
There(b) == head[b] # None
Everywhere(content) == [p \in Path |-> content]
File(b, p) == IF There(b) THEN commit[head[b]].tree[p] ELSE NoFile

\* _github_write_runtime_enabled is taken to hold; all but the writer look at
\* the branch (safe evolution).
MayWrite(by, b) == b = Default => mainAllowed \/ by = "writer"

Fresh == edits + 1
UseEdit == edits < MaxEdits /\ edits' = Fresh

\* A commit on top of a branch that gives paths their contents and leaves the
\* other files as they are.
Pushed(b, by, e, paths, contents, read) ==
  /\ Len(commit) < MaxCommits
  /\ commit' = Append(commit,
       [branch |-> b, parent |-> head[b], by |-> by, edit |-> e,
        path |-> paths, read |-> read,
        tree |-> [p \in Path |-> IF p \in paths THEN contents[p] ELSE File(b, p)]])
  /\ head' = [head EXCEPT ![b] = Len(commit) + 1]

-----------------------------------------------------------------------------
(* One file: _github_create_file_capability, _github_update_file_capability *)
(* git_commit_file, _write_files.                                           *)

OneFileRequest(by, b, p, todo) ==
  [pc |-> "read", by |-> by, branch |-> b, path |-> p, todo |-> todo,
   edit |-> Fresh, source |-> b, base |-> NoFile, sha |-> NoFile]

StartFile(w, by, b, p) ==
  /\ At(w, "idle") /\ UseEdit
  /\ by \in Capability \cup {"internal"}
  /\ by = "create" => b = Default
  /\ MayWrite(by, b)
  /\ Goto(w, OneFileRequest(by, b, p, {}))
  /\ UNCHANGED <<mainAllowed, head, commit, confirmed>>

\* The writer puts all its files on the default branch, one after the other.
StartWriter(w) ==
  /\ At(w, "idle") /\ UseEdit
  /\ \E p \in Path : Goto(w, OneFileRequest("writer", Default, p, Path \ {p}))
  /\ UNCHANGED <<mainAllowed, head, commit, confirmed>>

\* What becomes of a request when the file was read: the contents, or none for
\* a 404.  A change of the contents is computed here, a proposal has its own.
AfterRead(r, found) ==
  CASE r.by = "create" /\ found # NoFile -> Idle
    [] r.by \in {"update", "append"} /\ found = NoFile -> Idle
    [] r.by = "proposal" -> [r EXCEPT !.pc = "put", !.sha = found]
    [] OTHER -> [r EXCEPT !.pc = "put", !.sha = found, !.base = found]

ReadFile(w) ==
  /\ At(w, "read")
  /\ Goto(w, AfterRead(req[w], File(req[w].branch, req[w].path)))
  /\ UNCHANGED <<mainAllowed, head, commit, edits, confirmed>>

\* No answer, or not the one asked for: create and the writer take the file to
\* be absent, the others give up.
ReadFails(w) ==
  /\ At(w, "read")
  /\ Goto(w, IF req[w].by \in {"create", "writer"}
                THEN AfterRead(req[w], NoFile) ELSE Idle)
  /\ UNCHANGED <<mainAllowed, head, commit, edits, confirmed>>

NewContent(r) ==
  IF r.by \in {"append", "proposal"} THEN r.base \cup {r.edit} ELSE {r.edit}

Accepts_AnySha(r) == There(r.branch)
Accepts(r) == There(r.branch) /\ File(r.branch, r.path) = r.sha

Put(r) ==
  /\ Accepts(r)
  /\ Pushed(r.branch, r.by, r.edit, {r.path}, Everywhere(NewContent(r)),
            Everywhere(r.base))

\* A bug the checks must find: a capability whose put got no answer starts over.
AfterPut_StartsOver(r, ok) ==
  IF r.by \in Capability
  THEN {[r EXCEPT !.pc = IF ok THEN "verify" ELSE "read"]}
  ELSE {Idle}

\* A capability looks whether it finds the file now; the writer goes on with
\* its next file, whatever became of this one.
AfterPut(r, ok) ==
  IF r.by = "writer"
  THEN IF r.todo = {} THEN {Idle}
       ELSE {[r EXCEPT !.pc = "read", !.path = p, !.todo = @ \ {p}] : p \in r.todo}
  ELSE IF ok /\ r.by \in Capability THEN {[r EXCEPT !.pc = "verify"]}
  ELSE {Idle}

PutFile(w) ==
  /\ At(w, "put")
  /\ Put(req[w])
  /\ \E answered \in BOOLEAN : \E r \in AfterPut(req[w], answered) : Goto(w, r)
  /\ UNCHANGED <<mainAllowed, edits, confirmed>>

PutFails_Verified(w) ==
  /\ At(w, "put")
  /\ \E r \in AfterPut(req[w], TRUE) : Goto(w, r)
  /\ UNCHANGED <<mainAllowed, head, commit, edits, confirmed>>

\* Refused, or lost on the way.
PutFails(w) ==
  /\ At(w, "put")
  /\ \E r \in AfterPut(req[w], FALSE) : Goto(w, r)
  /\ UNCHANGED <<mainAllowed, head, commit, edits, confirmed>>

\* "Ação executada com confirmação operacional verificável."
Confirm(how, e, paths) ==
  confirmed' = confirmed \cup {[how |-> how, edit |-> e, paths |-> paths]}

Verify(w) ==
  /\ At(w, "verify")
  /\ \/ /\ File(req[w].branch, req[w].path) # NoFile
        /\ Confirm("done", req[w].edit, {req[w].path})
     \/ UNCHANGED confirmed
  /\ Goto(w, Idle)
  /\ UNCHANGED <<mainAllowed, head, commit, edits>>

-----------------------------------------------------------------------------
(* _github_commit_batch_capability: all files in one commit *)

StartBatch(w, b, appends) ==
  /\ At(w, "idle") /\ UseEdit
  /\ MayWrite("batch", b)
  /\ Goto(w, [pc |-> "base", branch |-> b, edit |-> Fresh, appends |-> appends])
  /\ UNCHANGED <<mainAllowed, head, commit, confirmed>>

ReadBase(w) ==
  /\ At(w, "base") /\ There(req[w].branch)
  /\ Goto(w, [pc |-> "tree", branch |-> req[w].branch, edit |-> req[w].edit,
              appends |-> req[w].appends, base |-> head[req[w].branch],
              read |-> Everywhere(NoFile)])
  /\ UNCHANGED <<mainAllowed, head, commit, edits, confirmed>>

\* A file to append to is read at the branch, not at the commit the batch
\* rests on; then the tree and the commit are made, which nobody sees yet.
ReadForAppend(w) ==
  /\ At(w, "tree") /\ req[w].appends # {}
  /\ \E p \in req[w].appends :
       LET found == File(req[w].branch, p)
       IN Goto(w, IF found = NoFile THEN Idle
                  ELSE [req[w] EXCEPT !.appends = @ \ {p}, !.read[p] = found])
  /\ UNCHANGED <<mainAllowed, head, commit, edits, confirmed>>

MakeCommit(w) ==
  /\ At(w, "tree") /\ req[w].appends = {}
  /\ Goto(w, [req[w] EXCEPT !.pc = "ref"])
  /\ UNCHANGED <<mainAllowed, head, commit, edits, confirmed>>

\* force is False: the branch has to be where it was.
FastForward_Forced(r) == There(r.branch)
FastForward(r) == head[r.branch] = r.base

MoveRef(w) ==
  /\ At(w, "ref")
  /\ FastForward(req[w])
  /\ Pushed(req[w].branch, "batch", req[w].edit, Path,
            [p \in Path |-> req[w].read[p] \cup {req[w].edit}], req[w].read)
  /\ \E answered \in BOOLEAN :
       Goto(w, IF answered THEN [pc |-> "check", branch |-> req[w].branch,
                                 edit |-> req[w].edit] ELSE Idle)
  /\ UNCHANGED <<mainAllowed, edits, confirmed>>

VerifyBatch(w) ==
  /\ At(w, "check")
  /\ \/ /\ \A p \in Path : File(req[w].branch, p) # NoFile
        /\ Confirm("done", req[w].edit, Path)
     \/ UNCHANGED confirmed
  /\ Goto(w, Idle)
  /\ UNCHANGED <<mainAllowed, head, commit, edits>>

-----------------------------------------------------------------------------
\* A message that asks for the change of files or a batch to be prepared only:
\* GitHub is not called, and the answer opens as that of one carried out.
Prepare(w, paths) ==
  /\ At(w, "idle") /\ UseEdit
  /\ paths # {}
  /\ Confirm("prepared", Fresh, paths)
  /\ UNCHANGED <<mainAllowed, head, commit, req>>

-----------------------------------------------------------------------------
(* git_create_branch; evolution_propose_schema_patch and                    *)
(* execute_orion_single_file_fix, which put a file on the branch they made. *)

BranchRequest(by, b, p, source, base) ==
  [pc |-> "source", by |-> by, branch |-> b, path |-> p, edit |-> Fresh,
   source |-> source, base |-> base, at |-> None]

\* A proposal reads its file before it asks for the branch.
Propose(w, b, p) ==
  /\ At(w, "idle") /\ UseEdit
  /\ b # Default
  /\ File(Default, p) # NoFile
  /\ Goto(w, BranchRequest("proposal", b, p, Default, File(Default, p)))
  /\ UNCHANGED <<mainAllowed, head, commit, confirmed>>

CreateBranch(w, b, p, source) ==
  /\ At(w, "idle") /\ UseEdit
  /\ b \notin {source, Default}
  /\ Goto(w, BranchRequest("internal", b, p, source, NoFile))
  /\ UNCHANGED <<mainAllowed, head, commit, confirmed>>

ReadSource(w) ==
  /\ At(w, "source") /\ There(req[w].source)
  /\ Goto(w, [req[w] EXCEPT !.pc = "name", !.at = head[req[w].source]])
  /\ UNCHANGED <<mainAllowed, head, commit, edits, confirmed>>

\* The branch is made where the source was when it was read.  The request is
\* over then if the branch was all it is for; otherwise its file is put.
MakeBranch(w) ==
  /\ At(w, "name") /\ ~There(req[w].branch)
  /\ head' = [head EXCEPT ![req[w].branch] = req[w].at]
  /\ \/ Goto(w, [pc |-> "read", by |-> req[w].by, branch |-> req[w].branch,
                  path |-> req[w].path, todo |-> {}, edit |-> req[w].edit,
                  source |-> req[w].source, base |-> req[w].base, sha |-> NoFile])
     \/ Goto(w, Idle)
  /\ UNCHANGED <<mainAllowed, commit, edits, confirmed>>

-----------------------------------------------------------------------------
\* The request ends early: an exception, a refusal, the worker stops.
GiveUp(w) ==
  /\ ~At(w, "idle")
  /\ Goto(w, Idle)
  /\ UNCHANGED <<mainAllowed, head, commit, edits, confirmed>>

OthersPush(b, p) ==
  /\ There(b) /\ UseEdit
  /\ LET new == File(b, p) \cup {Fresh}
     IN Pushed(b, "other", Fresh, {p}, Everywhere(new), Everywhere(File(b, p)))
  /\ UNCHANGED <<mainAllowed, req, confirmed>>

Init ==
  /\ mainAllowed \in BOOLEAN
  /\ \E p \in Path :
       commit = <<[branch |-> Default, parent |-> None, by |-> "other",
                   path |-> {p}, edit |-> 1, read |-> Everywhere(NoFile),
                   tree |-> [q \in Path |-> IF q = p THEN {1} ELSE NoFile]]>>
  /\ head = [b \in Branch |-> IF b = Default THEN 1 ELSE None]
  /\ edits = 1
  /\ req = [w \in Worker |-> Idle]
  /\ confirmed = {}

Start(w) ==
  \/ \E b \in Branch, p \in Path :
       \/ \E by \in OneFile : StartFile(w, by, b, p)
       \/ Propose(w, b, p)
       \/ \E source \in Branch : CreateBranch(w, b, p, source)
  \/ \E b \in Branch, appends \in SUBSET Path : StartBatch(w, b, appends)
  \/ \E paths \in SUBSET Path : Prepare(w, paths)
  \/ StartWriter(w)

Next ==
  \/ \E w \in Worker :
       \/ Start(w) \/ ReadFile(w) \/ ReadFails(w) \/ PutFile(w) \/ PutFails(w)
       \/ Verify(w) \/ ReadBase(w) \/ ReadForAppend(w) \/ MakeCommit(w)
       \/ MoveRef(w) \/ VerifyBatch(w) \/ ReadSource(w) \/ MakeBranch(w) \/ GiveUp(w)
  \/ \E b \in Branch, p \in Path : OthersPush(b, p)

Spec == Init /\ [][Next]_vars

-----------------------------------------------------------------------------
Mine(c) == commit[c].by # "other"

Committed(e, paths) ==
  \E c \in DOMAIN commit :
    /\ Mine(c) /\ commit[c].edit = e
    /\ \A p \in paths : e \in commit[c].tree[p]

\* A reply that confirms a change is about one that was committed, to all of
\* its files, whatever was lost, refused or pushed meanwhile; one about a
\* change that is "preparado" (_github_prepare_only_requested) is about one
\* that no request goes on to commit.
ConfirmedIsCommitted ==
  \A r \in confirmed :
    /\ r.how = "done" => Committed(r.edit, r.paths)
    /\ r.how = "prepared" => ~Committed(r.edit, {})

\* A change that was computed from what a file was replaces just that: nobody's
\* push that came after the read is lost, whether a file is created, replaced
\* after a look or appended to, alone or in a batch.
Computed(c) ==
  IF commit[c].by = "batch"
  THEN {p \in commit[c].path : commit[c].read[p] # NoFile}
  ELSE commit[c].path
NoPushIsLost ==
  \A c \in DOMAIN commit :
    Mine(c) /\ commit[c].by # "proposal" /\ commit[c].parent # None =>
      \A p \in Computed(c) :
        commit[c].read[p] = commit[commit[c].parent].tree[p]

\* "blocked by safe evolution policy" (_guard_branch_write): without the
\* environment's leave nothing but the writer commits to the default branch.
DefaultIsGuarded ==
  \A c \in DOMAIN commit :
    Mine(c) /\ commit[c].branch = Default /\ ~mainAllowed =>
      commit[c].by = "writer"

\* What everybody sees: the branches, their files, and the changes on the way.
Existing == {b \in Branch : There(b)}
Contents == [b \in Branch |-> [p \in Path |-> File(b, p)]]
Changes == [c \in DOMAIN commit |->
  [branch |-> commit[c].branch, edit |-> commit[c].edit, paths |-> commit[c].path]]

\* The commits branch b has been at.
Was(b) ==
  ({head[b]} \cup {commit[c].parent : c \in {d \in DOMAIN commit : commit[d].branch = b}})
    \ {None}
Pasts == [b \in Branch |-> {commit[c].tree : c \in Was(b)}]

\* Every write is one step on the repository, whichever calls it takes and
\* whoever pushes in between, and is made once though answers get lost: what
\* the branches show is what Branches specifies.
Branches == INSTANCE Branches WITH
  there <- Existing, files <- Contents, past <- Pasts, log <- Changes
EditsAreAtomic == Branches!Spec

\* "generate idempotent patches ... Safe Mode (branch + commit + PR workflow)"
\* (schema_patch_engine.py): a proposal adds its patch and leaves what else is
\* in the file of its branch.
ProposalsOnlyAdd ==
  \A c \in DOMAIN commit : \A p \in commit[c].path :
    commit[c].by = "proposal" =>
      commit[commit[c].parent].tree[p] \subseteq commit[c].tree[p]

\* "Ação executada com confirmação operacional verificável."
\* (_build_execution_result_payload): what is confirmed so was committed.
ConfirmedMeansExecuted == \A r \in confirmed : Committed(r.edit, r.paths)
=============================================================================
