------------------------- MODULE GitHubBridgeProofs -------------------------
(* Proofs about GitHubBridge, for every set of workers, files and branches. *)
(* A branch only moves forward, so that what a request knows of the commit  *)
(* it rests on holds as long as its branch is still there.                  *)
EXTENDS GitHubBridge, SequenceTheorems, TLAPS

-----------------------------------------------------------------------------
CommitInv(c) ==
  /\ commit[c].parent < c /\ There(commit[c].branch)
  /\ Mine(c) /\ commit[c].by # "proposal" /\ commit[c].parent # None =>
       \A p \in Computed(c) : commit[c].read[p] = commit[commit[c].parent].tree[p]
  /\ Mine(c) /\ commit[c].branch = Default /\ ~mainAllowed => commit[c].by = "writer"

ReqInv(w) ==
  /\ req[w].pc \in {"read", "put", "verify"} => MayWrite(req[w].by, req[w].branch)
  /\ req[w].pc \in {"base", "tree", "ref"} => MayWrite("batch", req[w].branch)
  /\ req[w].pc \in {"source", "name"} => req[w].branch # Default
  /\ At(w, "name") => req[w].at \in Was(req[w].source)
  /\ At(w, "put") => req[w].by = "proposal" \/ req[w].base = req[w].sha
  /\ At(w, "verify") => Committed(req[w].edit, {req[w].path})
  /\ At(w, "check") => Committed(req[w].edit, Path)
  /\ At(w, "tree") \/ At(w, "ref") =>
       /\ req[w].base # None /\ req[w].base <= head[req[w].branch]
       /\ head[req[w].branch] = req[w].base =>
            \A p \in Path : req[w].read[p] # NoFile =>
                              req[w].read[p] = commit[req[w].base].tree[p]

DoneIsCommitted == \A r \in confirmed : r.how = "done" => Committed(r.edit, r.paths)

IInv ==
  /\ TypeOK
  /\ \A c \in DOMAIN commit : CommitInv(c)
  /\ \A w \in Worker : ReqInv(w)
  /\ DoneIsCommitted

-----------------------------------------------------------------------------
(* Types *)

FileRequest ==
  [pc : {"read", "put", "verify"}, by : OneFile, branch : Branch, path : Path,
   todo : SUBSET Path, edit : Edit, source : Branch, base : Content, sha : Content]
TreeRequest ==
  [pc : {"tree", "ref"}, branch : Branch, edit : Edit, appends : SUBSET Path,
   base : Nat, read : [Path -> Content]]
NameRequest ==
  [pc : {"source", "name"}, by : {"internal", "proposal"}, branch : Branch,
   path : Path, edit : Edit, source : Branch, base : Content, at : Nat]

\* What a request holds, by where it is.
LEMMA RequestType ==
  ASSUME TypeOK, NEW w \in Worker
  PROVE  /\ req[w] \in Request
         /\ req[w].pc \in {"read", "put", "verify"} => req[w] \in FileRequest
         /\ At(w, "base") => /\ req[w].branch \in Branch /\ req[w].edit \in Edit
                             /\ req[w].appends \subseteq Path
         /\ At(w, "tree") \/ At(w, "ref") => req[w] \in TreeRequest
         /\ At(w, "check") => req[w].branch \in Branch /\ req[w].edit \in Edit
         /\ req[w].pc \in {"source", "name"} => req[w] \in NameRequest
  BY DEF TypeOK, Request, Idle, At, FileRequest, TreeRequest, NameRequest

\* A branch that is there is at a commit, and a file of it has contents.
LEMMA HeadType ==
  ASSUME TypeOK, NEW b \in Branch, There(b)
  PROVE  head[b] \in DOMAIN commit
  BY DEF TypeOK, There, None

LEMMA FileType ==
  ASSUME TypeOK, NEW b \in Branch, NEW p \in Path
  PROVE  /\ There(b) => /\ head[b] \in DOMAIN commit /\ commit[head[b]] \in Commit
                        /\ commit[head[b]].tree \in [Path -> Content]
         /\ File(b, p) \in Content
<1>1. commit \in Seq(Commit) /\ head[b] \in 0 .. Len(commit) /\ Len(commit) \in Nat
  BY DEF TypeOK
<1>2. There(b) => head[b] \in DOMAIN commit /\ commit[head[b]] \in Commit
  BY <1>1 DEF There, None
<1>3. There(b) => commit[head[b]].tree \in [Path -> Content]
  BY <1>2 DEF Commit
<1> QED BY <1>2, <1>3 DEF File, NoFile, Content

\* What a push does: one commit more, with what the push says, at which its
\* branch is then.
Tip(b, by, e, paths, contents, read, n) ==
  /\ commit' \in Seq(Commit) /\ Len(commit') = n /\ DOMAIN commit' = 1 .. n
  /\ DOMAIN commit = 1 .. n - 1 /\ n \in Nat /\ n \in DOMAIN commit'
  /\ \A c \in DOMAIN commit : commit'[c] = commit[c]
  /\ head' \in [Branch -> 0 .. Len(commit')]
  /\ head'[b] = n /\ \A a \in Branch : a # b => head'[a] = head[a]
  /\ commit'[n].branch = b /\ commit'[n].parent = head[b] /\ commit'[n].by = by
  /\ commit'[n].edit = e /\ commit'[n].path = paths /\ commit'[n].read = read
  /\ \A p \in paths : commit'[n].tree[p] = contents[p]

LEMMA PushedType ==
  ASSUME TypeOK, NEW b \in Branch, NEW by \in By, NEW e \in Nat, NEW paths \in SUBSET Path,
         NEW contents \in [Path -> Content], NEW read \in [Path -> Content],
         Pushed(b, by, e, paths, contents, read), NEW n, n = Len(commit) + 1
  PROVE  Tip(b, by, e, paths, contents, read, n)
<1> DEFINE tree == [p \in Path |-> IF p \in paths THEN contents[p] ELSE File(b, p)]
<1> DEFINE new == [branch |-> b, parent |-> head[b], by |-> by, edit |-> e,
                   path |-> paths, read |-> read, tree |-> tree]
<1>1. tree \in [Path -> Content]
  BY FileType
<1>2. commit \in Seq(Commit) /\ head \in [Branch -> 0 .. Len(commit)] /\ Len(commit) \in Nat
  BY DEF TypeOK
<1>3. new \in Commit
  BY <1>1, <1>2 DEF Commit
<1>4. commit' = Append(commit, new) /\ head' = [head EXCEPT ![b] = n]
  BY DEF Pushed
<1> HIDE DEF new, tree
<1>5. commit' \in Seq(Commit) /\ Len(commit') = n /\ n \in Nat /\ n - 1 = Len(commit)
  BY <1>2, <1>3, <1>4
<1>6. commit'[n] = new /\ \A c \in DOMAIN commit : commit'[c] = commit[c]
  BY <1>2, <1>3, <1>4
<1>7. head' \in [Branch -> 0 .. n] /\ head'[b] = n
      /\ \A a \in Branch : a # b => head'[a] = head[a]
  BY <1>2, <1>4, <1>5
<1>8. /\ new.branch = b /\ new.parent = head[b] /\ new.by = by /\ new.edit = e
      /\ new.path = paths /\ new.read = read /\ new.tree = tree
      /\ \A p \in paths : tree[p] = contents[p]
  BY DEF new, tree
<1> QED BY <1>2, <1>5, <1>6, <1>7, <1>8 DEF Tip

\* Contents a request may give to a file.
LEMMA ContentType ==
  ASSUME NEW base \in Content, NEW e \in Edit
  PROVE  /\ base \cup {e} \in Content /\ {e} \in Content /\ NoFile \in Content
         /\ e \in Nat /\ e # 0
  BY DEF Content, Edit, NoFile

LEMMA EverywhereType ==
  ASSUME NEW content \in Content
  PROVE  /\ Everywhere(content) \in [Path -> Content]
         /\ \A p \in Path : Everywhere(content)[p] = content
  BY DEF Everywhere

\* The steps that start a request.
LEMMA StartType ==
  ASSUME TypeOK, NEW w \in Worker, Start(w)
  PROVE  TypeOK'
<1>1. edits \in Nat /\ Fresh \in Edit /\ Fresh \in Nat /\ NoFile \in Content
      /\ None \in Nat /\ Default \in Branch
  BY DefaultIsBranch DEF TypeOK, Fresh, Edit, NoFile, Content, None
<1>2. ASSUME NEW r \in Request, Goto(w, r), UseEdit,
             UNCHANGED <<mainAllowed, head, commit, confirmed>>
      PROVE  TypeOK'
  BY <1>1, <1>2 DEF TypeOK, Goto, UseEdit
<1>3. ASSUME NEW by \in OneFile, NEW b \in Branch, NEW p \in Path, NEW todo \in SUBSET Path
      PROVE  OneFileRequest(by, b, p, todo) \in Request
  BY <1>1 DEF OneFileRequest, Request
<1>4. ASSUME NEW b \in Branch, NEW p \in Path, NEW by \in OneFile, StartFile(w, by, b, p)
      PROVE  TypeOK'
  BY <1>2, <1>3, <1>4 DEF StartFile
<1>5. ASSUME NEW b \in Branch, NEW p \in Path, Propose(w, b, p)
      PROVE  TypeOK'
  <2>1. File(Default, p) \in Content
    BY <1>1, FileType
  <2>2. BranchRequest("proposal", b, p, Default, File(Default, p)) \in Request
    BY <1>1, <2>1 DEF Request, BranchRequest
  <2> QED BY <1>2, <1>5, <2>2 DEF Propose
<1>6. ASSUME NEW b \in Branch, NEW appends \in SUBSET Path, StartBatch(w, b, appends)
      PROVE  TypeOK'
  <2>1. [pc |-> "base", branch |-> b, edit |-> Fresh, appends |-> appends] \in Request
    BY <1>1 DEF Request
  <2> QED BY <1>2, <1>6, <2>1 DEF StartBatch
<1>7. ASSUME NEW b \in Branch, NEW p \in Path, NEW source \in Branch,
             CreateBranch(w, b, p, source)
      PROVE  TypeOK'
  <2>1. BranchRequest("internal", b, p, source, NoFile) \in Request
    BY <1>1 DEF Request, BranchRequest
  <2> QED BY <1>2, <1>7, <2>1 DEF CreateBranch
<1>9. ASSUME NEW paths \in SUBSET Path, Prepare(w, paths)
      PROVE  TypeOK'
  BY <1>1, <1>9 DEF Prepare, UseEdit, Confirm, TypeOK
<1>8. CASE StartWriter(w)
  <2>1. PICK p \in Path : Goto(w, OneFileRequest("writer", Default, p, Path \ {p}))
    BY <1>8 DEF StartWriter
  <2>2. "writer" \in OneFile /\ Path \ {p} \in SUBSET Path
    BY DEF OneFile
  <2> QED BY <1>1, <1>2, <1>3, <1>8, <2>1, <2>2 DEF StartWriter
<1> QED
  BY <1>4, <1>5, <1>6, <1>7, <1>8, <1>9 DEF Start

\* Where a request is after its file was read, or put.
LEMMA AfterReadType ==
  ASSUME NEW r \in FileRequest, NEW found \in Content
  PROVE  AfterRead(r, found) \in Request
<1>1. /\ [r EXCEPT !.pc = "put", !.sha = found] \in FileRequest
      /\ [r EXCEPT !.pc = "put", !.sha = found, !.base = found] \in FileRequest
  BY DEF FileRequest
<1>2. FileRequest \subseteq Request /\ Idle \in Request
  BY DEF FileRequest, Request
<1> QED BY <1>1, <1>2 DEF AfterRead

LEMMA AfterPutType ==
  ASSUME NEW r \in FileRequest, NEW ok \in BOOLEAN
  PROVE  AfterPut(r, ok) \subseteq Request
<1>1. [r EXCEPT !.pc = "verify"] \in FileRequest
  BY DEF FileRequest
<1>2. FileRequest \subseteq Request /\ Idle \in Request
  BY DEF FileRequest, Request
<1>3. \A p \in r.todo : [r EXCEPT !.pc = "read", !.path = p, !.todo = r.todo \ {p}] \in FileRequest
  BY DEF FileRequest
<1>4. \A p \in r.todo : [r EXCEPT !.pc = "read", !.path = p, !.todo = @ \ {p}]
                        = [r EXCEPT !.pc = "read", !.path = p, !.todo = r.todo \ {p}]
  BY DEF FileRequest
<1> QED BY <1>1, <1>2, <1>3, <1>4 DEF AfterPut

-----------------------------------------------------------------------------
(* What every step leaves: commits stay, and branches move forward only *)

Grown ==
  /\ mainAllowed' = mainAllowed
  /\ Len(commit) <= Len(commit')
  /\ \A c \in DOMAIN commit : commit'[c] = commit[c]
  /\ \A b \in Branch : There(b) => head[b] <= head'[b]
  /\ \A b \in Branch : Was(b) \subseteq Was(b)'

Moved(w) == \A v \in Worker : v # w => req'[v] = req[v]

LEMMA GotoMoves ==
  ASSUME TypeOK, NEW w \in Worker, NEW r, Goto(w, r)
  PROVE  /\ Moved(w) /\ req'[w] = r
         /\ r \in Request => req' \in [Worker -> Request]
  BY DEF TypeOK, Goto, Moved

LEMMA CommittedStays ==
  ASSUME TypeOK, TypeOK', Grown, NEW e, NEW paths, Committed(e, paths)
  PROVE  Committed(e, paths)'
<1>1. PICK c \in DOMAIN commit : /\ Mine(c) /\ commit[c].edit = e
                                 /\ \A p \in paths : e \in commit[c].tree[p]
  BY DEF Committed
<1>2. c \in DOMAIN commit' /\ commit'[c] = commit[c]
  BY DEF TypeOK, Grown
<1> QED BY <1>1, <1>2 DEF Committed, Mine

\* A branch was at commits that are there.
LEMMA WasType ==
  ASSUME IInv, NEW b \in Branch
  PROVE  Was(b) \subseteq DOMAIN commit
<1>1. /\ TypeOK /\ Len(commit) \in Nat /\ DOMAIN commit = 1 .. Len(commit)
      /\ head[b] \in 0 .. Len(commit)
  BY DEF IInv, TypeOK
<1>2. \A c \in DOMAIN commit : commit[c].parent \in Nat /\ commit[c].parent < c
  <2>1. \A c \in DOMAIN commit : commit[c] \in Commit
    BY <1>1 DEF TypeOK
  <2> QED BY <2>1 DEF IInv, CommitInv, Commit
<1> QED BY <1>1, <1>2 DEF Was, None

LEMMA SourceIsThere ==
  ASSUME IInv, NEW b \in Branch, Was(b) # {}
  PROVE  There(b)
BY DEF IInv, CommitInv, Was, There, None

LEMMA CommitStays ==
  ASSUME IInv, TypeOK', Grown, NEW c \in DOMAIN commit
  PROVE  CommitInv(c)'
<1>1. /\ CommitInv(c) /\ commit \in Seq(Commit) /\ c \in 1 .. Len(commit)
      /\ Len(commit) \in Nat /\ commit[c] \in Commit
  BY DEF IInv, TypeOK
<1>2. commit[c].parent \in Nat
  BY <1>1 DEF Commit
<1>3. commit[c].parent # None => commit[c].parent \in DOMAIN commit
  BY <1>1, <1>2 DEF CommitInv, None
<1>4. commit'[c] = commit[c]
      /\ (commit[c].parent # None => commit'[commit[c].parent] = commit[commit[c].parent])
  BY <1>3 DEF Grown
<1>5. There(commit[c].branch)'
  <2>1. PICK b \in Branch : b = commit[c].branch /\ There(b)
    BY <1>1 DEF CommitInv, Commit
  <2>2. head[b] <= head'[b] /\ head[b] \in Nat /\ head'[b] \in Nat
    BY <2>1 DEF Grown, IInv, TypeOK
  <2> QED BY <1>4, <2>1, <2>2 DEF There, None
<1> QED BY <1>1, <1>4, <1>5 DEF CommitInv, Mine, Computed, Grown

LEMMA RequestStays ==
  ASSUME IInv, TypeOK', Grown, NEW w \in Worker, req'[w] = req[w]
  PROVE  ReqInv(w)'
<1>1. ReqInv(w) /\ TypeOK /\ mainAllowed' = mainAllowed
  BY DEF IInv, Grown
<1>2. \A by, b : MayWrite(by, b) => MayWrite(by, b)'
  BY <1>1 DEF MayWrite
<1>3. ASSUME NEW e, NEW paths, Committed(e, paths)
      PROVE  Committed(e, paths)'
  BY <1>1, <1>3, CommittedStays
<1>4. CASE At(w, "tree") \/ At(w, "ref")
  <2>1. PICK b \in Branch, n \in Nat : b = req[w].branch /\ n = req[w].base
    BY <1>1, <1>4, RequestType DEF TreeRequest
  <2>2. n # None /\ n <= head[b] /\ head[b] \in 0 .. Len(commit) /\ Len(commit) \in Nat
    BY <1>1, <1>4, <2>1 DEF ReqInv, TypeOK
  <2>3. There(b) /\ n \in DOMAIN commit
    BY <1>1, <2>2 DEF There, None, TypeOK
  <2>4. head[b] <= head'[b] /\ commit'[n] = commit[n] /\ head'[b] \in Nat
    BY <2>1, <2>3 DEF Grown, TypeOK
  <2>5. head'[b] = n => head[b] = n
    BY <2>2, <2>4
  <2> QED
    BY <1>1, <1>2, <1>4, <2>1, <2>2, <2>4, <2>5 DEF ReqInv, At
<1>5. CASE At(w, "verify")
  <2>1. PICK e, paths : /\ e = req[w].edit /\ paths = {req[w].path}
                        /\ Committed(e, paths)
    BY <1>1, <1>5 DEF ReqInv
  <2> QED BY <1>1, <1>2, <1>3, <1>5, <2>1 DEF ReqInv, At
<1>6. CASE At(w, "check")
  <2>1. PICK e : e = req[w].edit /\ Committed(e, Path)
    BY <1>1, <1>6 DEF ReqInv
  <2> QED BY <1>1, <1>3, <1>6, <2>1 DEF ReqInv, At
<1>7. CASE At(w, "name")
  <2>1. PICK b \in Branch : b = req[w].source
    BY <1>1, <1>7, RequestType DEF At, NameRequest
  <2>2. req[w].at \in Was(b)'
    BY <1>1, <1>7, <2>1 DEF ReqInv, Grown
  <2> QED BY <1>1, <1>7, <2>1, <2>2 DEF ReqInv, At
<1> QED
  BY <1>1, <1>2, <1>4, <1>5, <1>6, <1>7 DEF ReqInv, At

\* The invariant from its parts: of what moved, and of what is new.
LEMMA Assemble ==
  ASSUME IInv, TypeOK', Grown,
         \A v \in Worker : req'[v] = req[v] \/ ReqInv(v)',
         \A c \in DOMAIN commit' : c \in DOMAIN commit \/ CommitInv(c)',
         confirmed' = confirmed \/ DoneIsCommitted'
  PROVE  IInv'
<1>1. \A v \in Worker : ReqInv(v)'
  BY RequestStays
<1>2. \A c \in DOMAIN commit' : CommitInv(c)'
  BY CommitStays
<1>3. CASE confirmed' = confirmed
  <2>1. ASSUME NEW r \in confirmed, r.how = "done"
        PROVE  Committed(r.edit, r.paths)'
    BY <2>1, CommittedStays DEF IInv, DoneIsCommitted
  <2>2. DoneIsCommitted'
    BY <1>3, <2>1 DEF DoneIsCommitted, Committed, Mine
  <2> QED
    BY <1>1, <1>2, <2>2 DEF IInv
<1> QED BY <1>1, <1>2, <1>3 DEF IInv

\* A step that moves one request and changes nothing that others see.
LEMMA RequestOnly ==
  ASSUME IInv, NEW w \in Worker, NEW r \in Request, Goto(w, r), edits' \in Nat,
         UNCHANGED <<mainAllowed, head, commit, confirmed>>, ReqInv(w)'
  PROVE  IInv'
<1>1. TypeOK /\ Moved(w) /\ req' \in [Worker -> Request]
  BY GotoMoves DEF IInv
<1>2. TypeOK' /\ Grown
  BY <1>1 DEF TypeOK, Grown, There, Was
<1> QED BY <1>1, <1>2, Assemble DEF Moved

LEMMA IdleStep ==
  ASSUME IInv, NEW w \in Worker, Goto(w, Idle),
         UNCHANGED <<mainAllowed, head, commit, edits, confirmed>>
  PROVE  IInv'
<1>1. TypeOK /\ Idle \in Request
  BY DEF IInv, Request
<1>2. req'[w] = Idle /\ edits' \in Nat
  BY <1>1, GotoMoves DEF TypeOK
<1>3. ReqInv(w)'
  BY <1>2 DEF ReqInv, At, Idle
<1> QED BY <1>1, <1>2, <1>3, RequestOnly

-----------------------------------------------------------------------------
(* The steps *)

LEMMA StartStep ==
  ASSUME IInv, NEW w \in Worker, Start(w)
  PROVE  IInv'
<1>1. TypeOK /\ TypeOK' /\ UNCHANGED <<mainAllowed, head, commit>>
  BY StartType DEF IInv, Start, StartFile, Propose, StartBatch, CreateBranch,
                   StartWriter, Prepare
<1>2. DoneIsCommitted'
  <2>1. DoneIsCommitted /\ \A e, paths : Committed(e, paths) => Committed(e, paths)'
    BY <1>1 DEF IInv, Committed, Mine
  <2>2. CASE confirmed' = confirmed
    BY <2>1, <2>2 DEF DoneIsCommitted, Committed
  <2>3. ASSUME NEW paths \in SUBSET Path, Prepare(w, paths)
        PROVE  DoneIsCommitted'
    <3>1. \A r \in confirmed' : r.how = "done" => r \in confirmed
      BY <2>3 DEF Prepare, Confirm
    <3>2. \A r \in confirmed' : r.how = "done" => Committed(r.edit, r.paths)
      BY <2>1, <3>1 DEF DoneIsCommitted
    <3> QED BY <1>1, <3>2 DEF DoneIsCommitted, Committed, Mine
  <2> QED
    BY <2>2, <2>3 DEF Start, StartFile, Propose, StartBatch, CreateBranch, StartWriter
<1>3. Grown
  BY <1>1 DEF Grown, TypeOK, There, Was
<1>4. Moved(w) /\ ReqInv(w)'
  <2>1. ASSUME NEW by \in OneFile, NEW b, NEW p, NEW todo, MayWrite(by, b),
               Goto(w, OneFileRequest(by, b, p, todo))
        PROVE  Moved(w) /\ ReqInv(w)'
    <3>1. MayWrite(by, b)'
      BY <1>1, <2>1 DEF MayWrite
    <3>2. Moved(w) /\ req'[w].pc = "read" /\ req'[w].by = by /\ req'[w].branch = b
      BY <1>1, <2>1, GotoMoves DEF OneFileRequest
    <3> QED BY <3>1, <3>2 DEF ReqInv, At
  <2>2. ASSUME NEW b \in Branch, NEW p \in Path, NEW by \in OneFile, StartFile(w, by, b, p)
        PROVE  Moved(w) /\ ReqInv(w)'
    BY <2>1, <2>2 DEF StartFile
  <2>3. ASSUME NEW b \in Branch, NEW p \in Path, Propose(w, b, p)
        PROVE  Moved(w) /\ ReqInv(w)'
    BY <1>1, <2>3, GotoMoves DEF Propose, BranchRequest, ReqInv, At
  <2>4. ASSUME NEW b \in Branch, NEW appends \in SUBSET Path, StartBatch(w, b, appends)
        PROVE  Moved(w) /\ ReqInv(w)'
    <3>1. MayWrite("batch", b)'
      BY <1>1, <2>4 DEF MayWrite, StartBatch
    <3> QED BY <1>1, <2>4, <3>1, GotoMoves DEF StartBatch, ReqInv, At
  <2>5. ASSUME NEW b \in Branch, NEW p \in Path, NEW source \in Branch,
               CreateBranch(w, b, p, source)
        PROVE  Moved(w) /\ ReqInv(w)'
    BY <1>1, <2>5, GotoMoves DEF CreateBranch, BranchRequest, ReqInv, At
  <2>7. ASSUME NEW paths \in SUBSET Path, Prepare(w, paths)
        PROVE  Moved(w) /\ ReqInv(w)'
    BY <1>1, <1>3, <2>7, RequestStays DEF Prepare, Moved
  <2>6. CASE StartWriter(w)
    <3>1. PICK p \in Path : Goto(w, OneFileRequest("writer", Default, p, Path \ {p}))
      BY <2>6 DEF StartWriter
    <3>2. MayWrite("writer", Default) /\ "writer" \in OneFile
      BY DEF MayWrite, OneFile
    <3> QED BY <2>1, <3>1, <3>2
  <2> QED BY <2>2, <2>3, <2>4, <2>5, <2>6, <2>7 DEF Start
<1> QED BY <1>1, <1>2, <1>3, <1>4, Assemble DEF Moved

\* A file is read, with its contents, as absent, or not at all.
LEMMA ReadStep ==
  ASSUME IInv, NEW w \in Worker, ReadFile(w) \/ ReadFails(w)
  PROVE  IInv'
<1>1. TypeOK /\ ReqInv(w) /\ UNCHANGED <<mainAllowed, head, commit, edits, confirmed>>
      /\ At(w, "read") /\ edits' \in Nat
  BY DEF IInv, ReadFile, ReadFails, TypeOK
<1>2. PICK r \in FileRequest : r = req[w]
  BY <1>1, RequestType DEF At
<1>3. NoFile \in Content /\ File(r.branch, r.path) \in Content
  BY <1>1, FileType DEF FileRequest, NoFile, Content
<1>4. CASE Goto(w, Idle)
  BY <1>1, <1>4, IdleStep
<1>5. CASE \E found \in Content : Goto(w, AfterRead(r, found))
  <2>1. PICK found \in Content : Goto(w, AfterRead(r, found))
    BY <1>5
  <2>2. AfterRead(r, found) \in Request
    BY AfterReadType
  <2>3. \/ AfterRead(r, found) = Idle
        \/ /\ AfterRead(r, found).pc = "put" /\ AfterRead(r, found).by = r.by
           /\ AfterRead(r, found).branch = r.branch
           /\ r.by = "proposal" \/ AfterRead(r, found).base = AfterRead(r, found).sha
    BY DEF AfterRead, FileRequest
  <2>4. MayWrite(r.by, r.branch)'
    BY <1>1, <1>2 DEF ReqInv, MayWrite, At
  <2>5. req'[w] = AfterRead(r, found)
    BY <1>1, <2>1, GotoMoves
  <2>6. ReqInv(w)'
    <3>1. CASE AfterRead(r, found) = Idle
      BY <2>5, <3>1 DEF ReqInv, At, Idle
    <3>2. CASE AfterRead(r, found) # Idle
      BY <2>3, <2>4, <2>5, <3>2 DEF ReqInv, At
    <3> QED BY <3>1, <3>2
  <2> QED BY <1>1, <2>1, <2>2, <2>6, RequestOnly
<1> QED
  BY <1>2, <1>3, <1>4, <1>5 DEF ReadFile, ReadFails

\* After a put the writer goes on to its next file; only a capability whose
\* put was answered goes on to look.
LEMMA AfterPutInv ==
  ASSUME TypeOK, NEW w \in Worker, NEW r \in FileRequest, NEW ok \in BOOLEAN,
         NEW next \in AfterPut(r, ok), req'[w] = next,
         MayWrite(r.by, r.branch)', ok => Committed(r.edit, {r.path})'
  PROVE  ReqInv(w)'
<1>1. CASE next = Idle
  BY <1>1 DEF ReqInv, At, Idle
<1>2. CASE ok /\ next = [r EXCEPT !.pc = "verify"]
  BY <1>2 DEF ReqInv, At, FileRequest
<1>3. CASE \E p \in r.todo : next = [r EXCEPT !.pc = "read", !.path = p, !.todo = @ \ {p}]
  BY <1>3 DEF ReqInv, At, FileRequest
<1> QED BY <1>1, <1>2, <1>3 DEF AfterPut

LEMMA PutFailsStep ==
  ASSUME IInv, NEW w \in Worker, PutFails(w)
  PROVE  IInv'
<1>1. TypeOK /\ ReqInv(w) /\ UNCHANGED <<mainAllowed, head, commit, edits, confirmed>>
      /\ At(w, "put") /\ edits' \in Nat
  BY DEF IInv, PutFails, TypeOK
<1>2. PICK r \in FileRequest : r = req[w]
  BY <1>1, RequestType DEF At
<1>3. PICK next \in AfterPut(r, FALSE) : Goto(w, next)
  BY <1>2 DEF PutFails
<1>4. next \in Request /\ req'[w] = next
  BY <1>1, <1>3, AfterPutType, GotoMoves
<1>5. MayWrite(r.by, r.branch)'
  BY <1>1, <1>2 DEF ReqInv, MayWrite, At
<1>6. ReqInv(w)'
  BY <1>1, <1>4, <1>5, AfterPutInv
<1> QED BY <1>1, <1>3, <1>4, <1>6, RequestOnly

\* Steps between: the end of a request, and those of a batch up to its commit.
LEMMA BetweenStep ==
  ASSUME IInv, NEW w \in Worker,
         \/ GiveUp(w) \/ ReadBase(w) \/ ReadForAppend(w) \/ MakeCommit(w)
         \/ ReadSource(w)
  PROVE  IInv'
<1>1. TypeOK /\ ReqInv(w) /\ UNCHANGED <<mainAllowed, head, commit, edits, confirmed>>
      /\ edits' \in Nat
  BY DEF IInv, GiveUp, ReadBase, ReadForAppend, MakeCommit, ReadSource, TypeOK
<1>2. CASE Goto(w, Idle)
  BY <1>1, <1>2, IdleStep
<1>3. CASE ReadBase(w)
  <2> DEFINE r == [pc |-> "tree", branch |-> req[w].branch, edit |-> req[w].edit,
                   appends |-> req[w].appends, base |-> head[req[w].branch],
                   read |-> Everywhere(NoFile)]
  <2>1. /\ req[w].branch \in Branch /\ req[w].edit \in Edit /\ req[w].appends \subseteq Path
        /\ There(req[w].branch) /\ NoFile \in Content
    BY <1>1, <1>3, RequestType DEF ReadBase, NoFile, Content
  <2>2. head[req[w].branch] \in Nat /\ head[req[w].branch] # None
        /\ Everywhere(NoFile) \in [Path -> Content]
        /\ \A p \in Path : Everywhere(NoFile)[p] = NoFile
    BY <1>1, <2>1, EverywhereType DEF TypeOK, There
  <2>3. r \in Request
    BY <2>1, <2>2 DEF Request
  <2>4. req'[w] = r
    BY <1>1, <1>3, GotoMoves DEF ReadBase
  <2>5. PICK b : b = req[w].branch /\ MayWrite("batch", b)'
    BY <1>1, <1>3 DEF ReadBase, ReqInv, At, MayWrite
  <2>6. ReqInv(w)'
    BY <1>1, <2>2, <2>4, <2>5 DEF ReqInv, At
  <2> QED BY <1>1, <1>3, <2>3, <2>6, RequestOnly DEF ReadBase
<1>4. ASSUME NEW p \in Path, At(w, "tree"),
             Goto(w, [req[w] EXCEPT !.appends = @ \ {p},
                                    !.read[p] = File(req[w].branch, p)])
      PROVE  IInv'
  <2>1. PICK r \in TreeRequest : r = req[w]
    BY <1>1, <1>4, RequestType
  <2>2. PICK found \in Content : found = File(r.branch, p)
    BY <1>1, <2>1, FileType DEF TreeRequest
  <2>3. PICK read \in [Path -> Content] : read = [r.read EXCEPT ![p] = found]
    BY DEF TreeRequest
  <2> DEFINE new == [r EXCEPT !.appends = r.appends \ {p}, !.read = read]
  <2>4. /\ new \in TreeRequest /\ new.pc = r.pc /\ new.branch = r.branch
        /\ new.base = r.base /\ new.read = read
    BY DEF TreeRequest
  <2>5. [req[w] EXCEPT !.appends = @ \ {p}, !.read[p] = File(req[w].branch, p)] = new
    BY <2>1, <2>2, <2>3 DEF TreeRequest
  <2> HIDE DEF new
  <2>6. Goto(w, new) /\ req'[w] = new /\ new \in Request
    BY <1>1, <1>4, <2>4, <2>5, GotoMoves DEF TreeRequest, Request
  <2>7. MayWrite("batch", r.branch)' /\ r.pc = "tree"
    BY <1>1, <1>4, <2>1 DEF ReqInv, At, MayWrite
  <2>8. /\ r.base # None /\ r.base <= head[r.branch]
        /\ head[r.branch] = r.base =>
             \A q \in Path : r.read[q] # NoFile => r.read[q] = commit[r.base].tree[q]
    BY <1>1, <1>4, <2>1 DEF ReqInv, At
  <2>9. head[r.branch] = r.base =>
          \A q \in Path : read[q] # NoFile => read[q] = commit[r.base].tree[q]
    <3> SUFFICES ASSUME head[r.branch] = r.base, NEW q \in Path, read[q] # NoFile
                 PROVE  read[q] = commit[r.base].tree[q]
      OBVIOUS
    <3>1. CASE q = p
      BY <2>2, <2>3, <2>8, <3>1 DEF File, There, TreeRequest
    <3>2. CASE q # p
      BY <2>3, <2>8, <3>2 DEF TreeRequest
    <3> QED BY <3>1, <3>2
  <2>10. ReqInv(w)'
    BY <1>1, <2>4, <2>6, <2>7, <2>8, <2>9 DEF ReqInv, At
  <2> QED BY <1>1, <2>6, <2>10, RequestOnly
<1>5. CASE MakeCommit(w)
  <2>1. PICK r \in TreeRequest : r = req[w]
    BY <1>1, <1>5, RequestType DEF MakeCommit
  <2> DEFINE new == [r EXCEPT !.pc = "ref"]
  <2>2. /\ new \in TreeRequest /\ new.pc = "ref" /\ new.branch = r.branch
        /\ new.base = r.base /\ new.read = r.read
    BY DEF TreeRequest
  <2> HIDE DEF new
  <2>3. Goto(w, new) /\ req'[w] = new /\ new \in Request
    BY <1>1, <1>5, <2>1, <2>2, GotoMoves DEF TreeRequest, Request, MakeCommit, new
  <2>4. MayWrite("batch", r.branch)' /\ r.pc = "tree"
    BY <1>1, <1>5, <2>1 DEF ReqInv, At, MayWrite, MakeCommit
  <2>5. ReqInv(w)'
    BY <1>1, <2>1, <2>2, <2>3, <2>4 DEF ReqInv, At
  <2> QED BY <1>1, <2>3, <2>5, RequestOnly
<1>6. CASE ReadForAppend(w)
  <2>1. req[w].appends \subseteq Path
    BY <1>1, <1>6, RequestType DEF ReadForAppend, TreeRequest
  <2>2. PICK p \in req[w].appends :
          \/ Goto(w, Idle)
          \/ Goto(w, [req[w] EXCEPT !.appends = @ \ {p},
                                    !.read[p] = File(req[w].branch, p)])
    BY <1>6 DEF ReadForAppend
  <2> QED BY <1>2, <1>4, <1>6, <2>1, <2>2 DEF ReadForAppend
<1>7. CASE ReadSource(w)
  <2>1. PICK r \in NameRequest : r = req[w]
    BY <1>1, <1>7, RequestType DEF ReadSource, At
  <2>2. PICK b \in Branch, n \in Nat : b = r.source /\ n = head[b] /\ There(b)
    BY <1>1, <1>7, <2>1 DEF ReadSource, NameRequest, TypeOK
  <2> DEFINE new == [r EXCEPT !.pc = "name", !.at = n]
  <2>3. /\ new \in NameRequest /\ new.pc = "name" /\ new.branch = r.branch
        /\ new.source = b /\ new.at = n
    BY <2>2 DEF NameRequest
  <2>4. Goto(w, new)
    BY <1>7, <2>1, <2>2 DEF ReadSource
  <2> HIDE DEF new
  <2>5. req'[w] = new /\ new \in Request
    BY <1>1, <2>3, <2>4, GotoMoves DEF NameRequest, Request
  <2>6. n \in Was(b)' /\ r.branch # Default
    BY <1>1, <1>7, <2>1, <2>2 DEF Was, There, ReqInv, ReadSource, At
  <2>7. ReqInv(w)'
    BY <2>3, <2>5, <2>6 DEF ReqInv, At
  <2> QED BY <1>1, <2>4, <2>5, <2>7, RequestOnly
<1> QED
  BY <1>2, <1>3, <1>5, <1>6, <1>7 DEF GiveUp

-----------------------------------------------------------------------------
(* The steps that commit *)

LEMMA PushGrows ==
  ASSUME IInv, NEW b \in Branch, NEW by \in By, NEW e \in Nat, NEW paths \in SUBSET Path,
         NEW contents \in [Path -> Content], NEW read \in [Path -> Content],
         Pushed(b, by, e, paths, contents, read), UNCHANGED <<mainAllowed, confirmed>>,
         edits' \in Nat, req' \in [Worker -> Request]
  PROVE  TypeOK' /\ Grown
<1>1. TypeOK
  BY DEF IInv
<1>2. PICK n : n = Len(commit) + 1
  OBVIOUS
<1>3. /\ commit' \in Seq(Commit) /\ Len(commit') = n
      /\ \A c \in DOMAIN commit : commit'[c] = commit[c]
      /\ head' \in [Branch -> 0 .. Len(commit')]
      /\ head'[b] = n /\ \A a \in Branch : a # b => head'[a] = head[a]
      /\ DOMAIN commit \subseteq DOMAIN commit' /\ n \in DOMAIN commit'
      /\ commit'[n].branch = b /\ commit'[n].parent = head[b]
  <2>1. Tip(b, by, e, paths, contents, read, n)
    BY <1>1, <1>2, PushedType
  <2> QED BY <2>1 DEF Tip
<1>4. Len(commit) \in Nat /\ \A a \in Branch : head[a] \in 0 .. Len(commit)
  BY <1>1 DEF TypeOK
<1>5. \A a \in Branch : head[a] <= head'[a]
  <2> TAKE a \in Branch
  <2> QED BY <1>2, <1>3, <1>4
<1>6. \A a \in Branch : Was(a) \subseteq Was(a)'
  <2> SUFFICES ASSUME NEW a \in Branch, NEW c \in Was(a) PROVE c \in Was(a)'
    OBVIOUS
  <2>1. CASE \E d \in DOMAIN commit : commit[d].branch = a /\ c = commit[d].parent
    BY <1>3, <2>1 DEF Was
  <2>2. CASE c = head[a]
    BY <1>3, <2>2 DEF Was
  <2> QED BY <2>1, <2>2 DEF Was
<1> QED
  BY <1>1, <1>2, <1>3, <1>5, <1>6 DEF TypeOK, Grown

\* A commit of one file rests on the contents that are there.
LEMMA PutFileStep ==
  ASSUME IInv, NEW w \in Worker, PutFile(w)
  PROVE  IInv'
<1>1. TypeOK /\ ReqInv(w) /\ UNCHANGED <<mainAllowed, edits, confirmed>>
      /\ At(w, "put") /\ edits' \in Nat
  BY DEF IInv, PutFile, TypeOK
<1>2. PICK r \in FileRequest : r = req[w]
  BY <1>1, RequestType DEF At
<1>3. /\ r.branch \in Branch /\ r.path \in Path /\ r.edit \in Edit /\ r.base \in Content
      /\ r.by \in OneFile /\ r.by \in By /\ r.by # "other" /\ r.by # "batch"
  BY DEF FileRequest, By, OneFile, Capability
<1>4. /\ NewContent(r) \in Content /\ r.edit \in NewContent(r)
      /\ r.edit \in Nat /\ {r.path} \in SUBSET Path
  BY <1>3, ContentType DEF NewContent
<1> PICK b \in Branch, p \in Path : b = r.branch /\ p = r.path
  BY <1>3
<1> PICK e \in Nat, by \in By : e = r.edit /\ by = r.by
  BY <1>3, <1>4
<1> PICK base \in Content, content \in Content : base = r.base /\ content = NewContent(r)
  BY <1>3, <1>4
<1>5. /\ Everywhere(base) \in [Path -> Content] /\ Everywhere(content) \in [Path -> Content]
      /\ Everywhere(base)[p] = base /\ Everywhere(content)[p] = content
  BY EverywhereType
<1>6. There(b) /\ File(b, p) = r.sha
      /\ Pushed(b, by, e, {p}, Everywhere(content), Everywhere(base))
  BY <1>2, <1>4 DEF PutFile, Put, Accepts
<1>7. PICK ok \in BOOLEAN, next \in Request : next \in AfterPut(r, ok) /\ Goto(w, next)
  BY <1>2, AfterPutType DEF PutFile
<1>8. Moved(w) /\ req'[w] = next /\ req' \in [Worker -> Request]
  BY <1>1, <1>7, AfterPutType, GotoMoves
<1>9. TypeOK' /\ Grown
  BY <1>1, <1>4, <1>5, <1>6, <1>8, PushGrows
<1>10. PICK n : n = Len(commit) + 1
  OBVIOUS
<1>11. Tip(b, by, e, {p}, Everywhere(content), Everywhere(base), n)
  <2>1. {p} \in SUBSET Path
    OBVIOUS
  <2> QED BY <1>1, <1>5, <1>6, <1>10, <2>1, PushedType
<1>12. head[b] \in DOMAIN commit /\ File(b, p) = commit[head[b]].tree[p]
  BY <1>1, <1>4, <1>6, FileType DEF File
<1>13. MayWrite(by, b) /\ MayWrite(by, b)' /\ (by = "proposal" \/ base = File(b, p))
  BY <1>1, <1>2, <1>4, <1>6 DEF ReqInv, MayWrite, At
<1>14. CommitInv(n)'
  <2>1. head[b] < n /\ commit'[head[b]] = commit[head[b]]
    BY <1>11, <1>12 DEF Tip
  <2>2. Computed(n)' = {p}
    BY <1>3, <1>11 DEF Computed, Tip
  <2> QED
    <3>1. There(commit[n].branch)'
      BY <1>11 DEF There, None, Tip
    <3> QED
      BY <1>1, <1>5, <1>11, <1>12, <1>13, <2>1, <2>2, <3>1 DEF CommitInv, Mine, MayWrite, Tip
<1>15. Committed(r.edit, {r.path})'
  BY <1>3, <1>4, <1>5, <1>11 DEF Committed, Mine, Tip
<1>16. ReqInv(w)'
  BY <1>1, <1>4, <1>7, <1>8, <1>13, <1>15, AfterPutInv
<1>17. \A c \in DOMAIN commit' : c \in DOMAIN commit \/ c = n
  BY <1>11 DEF Tip
<1> QED
  BY <1>1, <1>8, <1>9, <1>14, <1>16, <1>17, Assemble DEF Moved

\* The commit of a batch rests on what its branch is at, and has read nothing
\* that came before or after.
LEMMA MoveRefStep ==
  ASSUME IInv, NEW w \in Worker, MoveRef(w)
  PROVE  IInv'
<1>1. TypeOK /\ ReqInv(w) /\ UNCHANGED <<mainAllowed, edits, confirmed>>
      /\ At(w, "ref") /\ edits' \in Nat
  BY DEF IInv, MoveRef, TypeOK
<1>2. PICK r \in TreeRequest : r = req[w]
  BY <1>1, RequestType
<1>3. PICK b \in Branch, e \in Edit, read \in [Path -> Content] :
        b = r.branch /\ e = r.edit /\ read = r.read
  BY DEF TreeRequest
<1> DEFINE contents == [p \in Path |-> read[p] \cup {e}]
<1>4. contents \in [Path -> Content] /\ e \in Nat /\ "batch" \in By
      /\ Path \in SUBSET Path /\ \A p \in Path : e \in contents[p]
  <2>1. \A p \in Path : read[p] \in Content
    OBVIOUS
  <2>2. \A p \in Path : read[p] \cup {e} \in Content
    BY <2>1, ContentType
  <2>3. e \in Nat
    BY DEF Edit
  <2> QED BY <2>2, <2>3 DEF By
<1>5. Pushed(b, "batch", e, Path, contents, read) /\ head[b] = r.base
  BY <1>2, <1>3 DEF MoveRef, FastForward
<1>6. PICK next \in Request : /\ Goto(w, next)
                              /\ \/ next = Idle
                                 \/ next = [pc |-> "check", branch |-> b, edit |-> e]
  <2>1. Idle \in Request /\ [pc |-> "check", branch |-> b, edit |-> e] \in Request
    BY <1>3 DEF Request
  <2> QED BY <1>2, <1>3, <2>1 DEF MoveRef
<1>7. Moved(w) /\ req'[w] = next /\ req' \in [Worker -> Request]
  BY <1>1, <1>6, GotoMoves
<1> HIDE DEF contents
<1>8. TypeOK' /\ Grown
  BY <1>1, <1>4, <1>5, <1>7, PushGrows
<1>9. PICK n : n = Len(commit) + 1
  OBVIOUS
<1>10. Tip(b, "batch", e, Path, contents, read, n)
  BY <1>1, <1>4, <1>5, <1>9, PushedType
<1>11. /\ head[b] # None /\ MayWrite("batch", b)
       /\ \A p \in Path : read[p] # NoFile => read[p] = commit[head[b]].tree[p]
  BY <1>1, <1>2, <1>3, <1>5 DEF ReqInv, At
<1>12. head[b] \in DOMAIN commit
  BY <1>1, <1>11, HeadType DEF There
<1>13. CommitInv(n)'
  <2>1. head[b] < n /\ commit'[head[b]] = commit[head[b]]
    BY <1>10, <1>12 DEF Tip
  <2>2. Computed(n)' = {p \in Path : read[p] # NoFile}
    BY <1>10 DEF Computed, Tip
  <2> QED
    <3>1. There(commit[n].branch)'
      BY <1>10 DEF There, None, Tip
    <3> QED
      BY <1>1, <1>10, <1>11, <2>1, <2>2, <3>1 DEF CommitInv, Mine, MayWrite, Tip
<1>14. Committed(e, Path)'
  BY <1>4, <1>10 DEF Committed, Mine, Tip
<1>15. ReqInv(w)'
  BY <1>6, <1>7, <1>14 DEF ReqInv, At, Idle
<1>16. \A c \in DOMAIN commit' : c \in DOMAIN commit \/ c = n
  BY <1>10 DEF Tip
<1> QED
  BY <1>1, <1>7, <1>8, <1>13, <1>15, <1>16, Assemble DEF Moved

LEMMA OthersPushStep ==
  ASSUME IInv, NEW b \in Branch, NEW p \in Path, OthersPush(b, p)
  PROVE  IInv'
<1>1. TypeOK /\ UNCHANGED <<mainAllowed, req, confirmed>> /\ There(b)
      /\ edits' \in Nat /\ Fresh \in Edit /\ "other" \in By /\ req' \in [Worker -> Request]
  BY DEF IInv, OthersPush, UseEdit, TypeOK, Fresh, Edit, By
<1> PICK e \in Edit, old \in Content : e = Fresh /\ old = File(b, p)
  BY <1>1, FileType
<1> PICK new \in Content : new = old \cup {e}
  BY ContentType
<1>2. /\ Everywhere(new) \in [Path -> Content] /\ Everywhere(old) \in [Path -> Content]
      /\ {p} \in SUBSET Path /\ e \in Nat
  BY EverywhereType, ContentType
<1>3. Pushed(b, "other", e, {p}, Everywhere(new), Everywhere(old))
  BY DEF OthersPush
<1>4. PICK n : n = Len(commit) + 1
  OBVIOUS
<1>5. Tip(b, "other", e, {p}, Everywhere(new), Everywhere(old), n)
  BY <1>1, <1>2, <1>3, <1>4, PushedType
<1>6. TypeOK' /\ Grown
  BY <1>1, <1>2, <1>3, PushGrows
<1>7. head[b] \in DOMAIN commit
  BY <1>1, HeadType
<1>8. CommitInv(n)'
  <2>1. There(commit[n].branch)'
    BY <1>5 DEF There, None, Tip
  <2> QED BY <1>5, <1>7, <2>1 DEF CommitInv, Mine, Tip
<1>9. \A c \in DOMAIN commit' : c \in DOMAIN commit \/ c = n
  BY <1>5 DEF Tip
<1> QED BY <1>1, <1>6, <1>8, <1>9, Assemble

\* A branch is made only where there was none: nothing can rest on it yet.
LEMMA MakeBranchStep ==
  ASSUME IInv, NEW w \in Worker, MakeBranch(w)
  PROVE  IInv'
<1>1. TypeOK /\ ReqInv(w) /\ UNCHANGED <<mainAllowed, commit, edits, confirmed>>
      /\ At(w, "name") /\ NoFile \in Content
  BY DEF IInv, MakeBranch, NoFile, Content
<1>2. PICK q \in NameRequest : q = req[w]
  BY <1>1, RequestType DEF At
<1> PICK b \in Branch, source \in Branch, by \in OneFile, n \in Nat :
      b = q.branch /\ source = q.source /\ by = q.by /\ n = q.at
  BY DEF NameRequest, OneFile
<1>3. /\ ~There(b) /\ head' = [head EXCEPT ![b] = n] /\ b # Default
      /\ n \in DOMAIN commit
  BY <1>1, <1>2, WasType DEF MakeBranch, ReqInv, At
<1> DEFINE r == [pc |-> "read", by |-> by, branch |-> b,
                 path |-> q.path, todo |-> {}, edit |-> q.edit,
                 source |-> source, base |-> q.base, sha |-> NoFile]
<1>4. r \in Request /\ Idle \in Request
  BY <1>1, <1>2 DEF Request, NameRequest
<1>5. PICK next \in Request : Goto(w, next) /\ (next = Idle \/ next = r)
  BY <1>2, <1>4 DEF MakeBranch
<1>6. next = Idle \/ (next.pc = "read" /\ next.by = by /\ next.branch = b)
  BY <1>5
<1>7. Moved(w) /\ req'[w] = next /\ req' \in [Worker -> Request]
  BY <1>1, <1>5, GotoMoves
<1>8. head' \in [Branch -> 0 .. Len(commit)]
  BY <1>1, <1>3 DEF TypeOK
<1>9. TypeOK' /\ Grown
  <2>1. \A a \in Branch : There(a) => a # b /\ head'[a] = head[a] /\ head[a] \in Nat
    BY <1>1, <1>3 DEF TypeOK
  <2>2. \A a \in Branch : Was(a) \subseteq Was(a)'
    BY <1>1, <2>1 DEF Was, There
  <2> QED BY <1>1, <1>7, <1>8, <2>1, <2>2 DEF TypeOK, Grown
<1>10. ReqInv(w)'
  <2>1. MayWrite(by, b)'
    BY <1>3 DEF MayWrite
  <2> QED BY <1>6, <1>7, <2>1 DEF ReqInv, At, Idle
<1> QED BY <1>1, <1>7, <1>9, <1>10, Assemble DEF Moved

\* A reply confirms what was committed before the look.
LEMMA VerifyStep ==
  ASSUME IInv, NEW w \in Worker, Verify(w) \/ VerifyBatch(w)
  PROVE  IInv'
<1>1. TypeOK /\ ReqInv(w) /\ UNCHANGED <<mainAllowed, head, commit, edits>>
      /\ Goto(w, Idle) /\ Idle \in Request
  BY DEF IInv, Verify, VerifyBatch, Request
<1>2. PICK e \in Edit, paths \in SUBSET Path :
        /\ Committed(e, paths)
        /\ confirmed' = confirmed \/ Confirm("done", e, paths)
  <2>1. CASE Verify(w)
    <3>1. req[w].edit \in Edit /\ {req[w].path} \in SUBSET Path
      BY <1>1, <2>1, RequestType DEF Verify, At, FileRequest
    <3>2. Committed(req[w].edit, {req[w].path})
      BY <1>1, <2>1 DEF Verify, ReqInv
    <3> QED BY <2>1, <3>1, <3>2 DEF Verify
  <2>2. CASE VerifyBatch(w)
    <3>1. req[w].edit \in Edit /\ Path \in SUBSET Path
      BY <1>1, <2>2, RequestType DEF VerifyBatch
    <3>2. Committed(req[w].edit, Path)
      BY <1>1, <2>2 DEF VerifyBatch, ReqInv
    <3> QED BY <2>2, <3>1, <3>2 DEF VerifyBatch
  <2> QED BY <2>1, <2>2
<1>3. Moved(w) /\ req'[w] = Idle /\ req' \in [Worker -> Request]
  BY <1>1, GotoMoves
<1>4. TypeOK' /\ Grown
  <2>1. confirmed' \subseteq [how : {"done", "prepared"}, edit : Edit, paths : SUBSET Path]
    BY <1>1, <1>2 DEF TypeOK, Confirm
  <2> QED BY <1>1, <1>3, <2>1 DEF TypeOK, Grown, There, Was
<1>5. ReqInv(w)'
  BY <1>3 DEF ReqInv, At, Idle
<1>6. DoneIsCommitted'
  <2>1. \A r \in confirmed' : r.how = "done" => Committed(r.edit, r.paths)
    BY <1>2 DEF Confirm, IInv, DoneIsCommitted
  <2> QED BY <1>1, <2>1 DEF DoneIsCommitted, Committed, Mine
<1> QED BY <1>1, <1>3, <1>4, <1>5, <1>6, Assemble DEF Moved

-----------------------------------------------------------------------------
\* The inductive invariant, for every set of workers, files and branches.
THEOREM GitHubCorrect == Spec => []IInv
<1>1. Init => IInv
  <2> SUFFICES ASSUME Init PROVE IInv
    OBVIOUS
  <2>1. PICK p \in Path :
          commit = <<[branch |-> Default, parent |-> None, by |-> "other",
                      path |-> {p}, edit |-> 1, read |-> Everywhere(NoFile),
                      tree |-> [q \in Path |-> IF q = p THEN {1} ELSE NoFile]]>>
    BY DEF Init
  <2>2. NoFile \in Content /\ {1} \in Content /\ None \in Nat /\ Default \in Branch
        /\ "other" \in By
    BY DefaultIsBranch DEF NoFile, Content, Edit, None, By
  <2>3. /\ Everywhere(NoFile) \in [Path -> Content]
        /\ [q \in Path |-> IF q = p THEN {1} ELSE NoFile] \in [Path -> Content]
    BY <2>2, EverywhereType
  <2>4. commit[1] \in Commit /\ commit[1].by = "other" /\ commit[1].parent = 0
    BY <2>1, <2>2, <2>3 DEF Commit, None
  <2>5. commit \in Seq(Commit) /\ Len(commit) = 1 /\ DOMAIN commit = {1}
    BY <2>1, <2>4
  <2>6. TypeOK
    BY <2>2, <2>5 DEF Init, TypeOK, Request, None
  <2>7. \A c \in DOMAIN commit : CommitInv(c)
    <3>1. There(commit[1].branch)
      BY <2>1, <2>2 DEF Init, There, None
    <3> QED BY <2>4, <2>5, <3>1 DEF CommitInv, Mine
  <2>8. \A w \in Worker : ReqInv(w)
    BY DEF Init, ReqInv, At, Idle
  <2> QED BY <2>6, <2>7, <2>8 DEF IInv, DoneIsCommitted, Init
<1>2. IInv /\ [Next]_vars => IInv'
  <2> SUFFICES ASSUME IInv, [Next]_vars PROVE IInv'
    OBVIOUS
  <2>1. CASE UNCHANGED vars
    <3>1. TypeOK' /\ Grown
      BY <2>1 DEF IInv, TypeOK, Grown, vars, There, Was
    <3> QED BY <2>1, <3>1, Assemble DEF vars
  <2>2. ASSUME NEW b \in Branch, NEW p \in Path, OthersPush(b, p)
        PROVE  IInv'
    BY <2>2, OthersPushStep
  <2>3. ASSUME NEW w \in Worker, Start(w)
        PROVE  IInv'
    BY <2>3, StartStep
  <2>4. ASSUME NEW w \in Worker, ReadFile(w) \/ ReadFails(w)
        PROVE  IInv'
    BY <2>4, ReadStep
  <2>5. ASSUME NEW w \in Worker, PutFile(w) \/ PutFails(w)
        PROVE  IInv'
    BY <2>5, PutFileStep, PutFailsStep
  <2>6. ASSUME NEW w \in Worker,
               \/ GiveUp(w) \/ ReadBase(w) \/ ReadForAppend(w) \/ MakeCommit(w)
               \/ ReadSource(w)
        PROVE  IInv'
    BY <2>6, BetweenStep
  <2>7. ASSUME NEW w \in Worker, MoveRef(w) \/ MakeBranch(w)
        PROVE  IInv'
    BY <2>7, MoveRefStep, MakeBranchStep
  <2>8. ASSUME NEW w \in Worker, Verify(w) \/ VerifyBatch(w)
        PROVE  IInv'
    BY <2>8, VerifyStep
  <2> QED
    BY <2>1, <2>2, <2>3, <2>4, <2>5, <2>6, <2>7, <2>8 DEF Next
<1> QED BY <1>1, <1>2, PTL DEF Spec

\* A change computed from a file replaces just what was read of it
\* (_github_update_file_capability, _github_commit_batch_capability,
\* git_commit_file, _write_files).
THEOREM NoPushIsLostHolds == Spec => []NoPushIsLost
<1>1. IInv => NoPushIsLost
  BY DEF IInv, CommitInv, NoPushIsLost
<1> QED BY <1>1, GitHubCorrect, PTL

\* Without the environment's leave only the writer of pull requests commits to
\* the default branch (_guard_branch_write and the capabilities' own guards).
THEOREM DefaultIsGuardedHolds == Spec => []DefaultIsGuarded
<1>1. IInv => DefaultIsGuarded
  BY DEF IInv, CommitInv, DefaultIsGuarded
<1> QED BY <1>1, GitHubCorrect, PTL

-----------------------------------------------------------------------------
(* Each edit is made once: what a request has still to write was not written *)
(* for its edit, and no other request has that edit.                         *)

Pending(r) ==
  CASE r.pc \in {"read", "put"} -> {r.path} \cup r.todo
    [] r.pc \in {"source", "name"} -> {r.path}
    [] r.pc \in {"base", "tree", "ref"} -> Path
    [] OTHER -> {}

Unwritten(e, paths) ==
  \A c \in DOMAIN commit : commit[c].edit = e => commit[c].path \cap paths = {}

OnceReq(w) ==
  ~At(w, "idle") =>
    /\ req[w].edit <= edits
    /\ Unwritten(req[w].edit, Pending(req[w]))
    /\ req[w].pc \in {"read", "put"} =>
         /\ req[w].path \notin req[w].todo
         /\ req[w].by = "proposal" => req[w].branch # Default

Distinct(w, v) ==
  ~At(w, "idle") /\ ~At(v, "idle") => req[w].edit # req[v].edit

\* A change that was only prepared is nobody's to commit.
Prepared == {r.edit : r \in {q \in confirmed : q.how = "prepared"}}
Unused(e) ==
  /\ e <= edits
  /\ \A c \in DOMAIN commit : commit[c].edit # e
  /\ \A w \in Worker : ~At(w, "idle") => req[w].edit # e

OnceInv ==
  /\ \A e \in Prepared : Unused(e)
  /\ \A c \in DOMAIN commit : commit[c].edit <= edits
  /\ \A w \in Worker : OnceReq(w)
  /\ \A w, v \in Worker : w # v => Distinct(w, v)

LEMMA EditType ==
  ASSUME TypeOK
  PROVE  /\ \A c \in DOMAIN commit : commit[c].edit \in Nat /\ commit[c].path \subseteq Path
         /\ \A w \in Worker : ~At(w, "idle") => req[w].edit \in Nat
         /\ edits \in Nat /\ Prepared \subseteq Nat
<1>1. \A c \in DOMAIN commit : commit[c] \in Commit
  BY DEF TypeOK
<1>2. \A w \in Worker : ~At(w, "idle") => req[w].edit \in Edit
  BY DEF TypeOK, Request, Idle, At
<1>3. Prepared \subseteq Edit
  BY DEF TypeOK, Prepared
<1> QED BY <1>1, <1>2, <1>3 DEF TypeOK, Commit, Edit

\* A step of one request: it goes on with its edit, and what it puts on a
\* branch it will not put again; the others know nothing of its edit.
Appended(e, paths) ==
  /\ DOMAIN commit \subseteq DOMAIN commit'
  /\ \A c \in DOMAIN commit : commit'[c] = commit[c]
  /\ \A c \in DOMAIN commit' \ DOMAIN commit : commit'[c].edit = e /\ commit'[c].path = paths

GoesOn(r, next, paths) ==
  \/ next.pc = "idle"
  \/ /\ r.pc # "idle" /\ next.pc # "idle" /\ next.edit = r.edit
     /\ Pending(next) \subseteq Pending(r) /\ Pending(next) \cap paths = {}
     /\ next.pc \in {"read", "put"} =>
          next.path \notin next.todo /\ (next.by = "proposal" => next.branch # Default)

LEMMA OnceGoesOn ==
  ASSUME TypeOK, OnceInv, NEW w \in Worker, ~At(w, "idle"), Moved(w), edits' = edits,
         Prepared' \subseteq Prepared, NEW paths, Appended(req[w].edit, paths), GoesOn(req[w], req'[w], paths)
  PROVE  OnceInv'
<1>1. \A c \in DOMAIN commit' : commit'[c].edit <= edits'
  BY DEF OnceInv, OnceReq, Appended
<1>2. ASSUME NEW e, NEW ps, Unwritten(e, ps), e # req[w].edit
      PROVE  Unwritten(e, ps)'
  BY <1>2 DEF Unwritten, Appended
<1>3. ASSUME NEW v \in Worker
      PROVE  OnceReq(v)'
  <2>1. CASE v # w
    <3>1. req'[v] = req[v]
      BY <2>1 DEF Moved
    <3>2. CASE At(v, "idle")
      BY <3>1, <3>2 DEF OnceReq, At
    <3>3. CASE ~At(v, "idle")
      <4>1. OnceReq(v) /\ req[v].edit # req[w].edit
        BY <2>1, <3>3 DEF OnceInv, Distinct
      <4>2. PICK e, ps : e = req[v].edit /\ ps = Pending(req[v]) /\ Unwritten(e, ps)
        BY <3>3, <4>1 DEF OnceReq
      <4>3. Unwritten(e, ps)'
        BY <1>2, <4>1, <4>2
      <4> QED BY <3>1, <3>3, <4>1, <4>2, <4>3 DEF OnceReq, At
    <3> QED BY <3>2, <3>3
  <2>2. CASE v = w /\ req'[w].pc # "idle"
    <3>1. PICK e, ps, next : e = req[w].edit /\ next = req'[w] /\ ps = Pending(next)
      OBVIOUS
    <3>2. /\ next.edit = e /\ ps \subseteq Pending(req[w]) /\ ps \cap paths = {}
          /\ next.pc \in {"read", "put"} =>
               next.path \notin next.todo /\ (next.by = "proposal" => next.branch # Default)
      BY <2>2, <3>1 DEF GoesOn
    <3>3. OnceReq(w) /\ e <= edits /\ Unwritten(e, Pending(req[w]))
      BY <3>1 DEF OnceInv, OnceReq
    <3>4. Unwritten(e, ps)'
      BY <3>1, <3>2, <3>3 DEF Unwritten, Appended
    <3> QED BY <2>2, <3>1, <3>2, <3>3, <3>4 DEF OnceReq
  <2>3. CASE v = w /\ req'[w].pc = "idle"
    BY <2>3 DEF OnceReq, At
  <2> QED BY <2>1, <2>2, <2>3
<1>4. ASSUME NEW u \in Worker, NEW v \in Worker, u # v
      PROVE  Distinct(u, v)'
  <2>1. Distinct(u, v)
    BY <1>4 DEF OnceInv
  <2>2. \A x \in Worker : ~At(x, "idle")' => ~At(x, "idle") /\ req'[x].edit = req[x].edit
    BY DEF GoesOn, Moved, At
  <2> QED BY <2>1, <2>2 DEF Distinct
<1>5. ASSUME NEW e \in Prepared'
      PROVE  Unused(e)'
  <2>1. Unused(e)
    BY DEF OnceInv
  <2>2. \A x \in Worker : ~At(x, "idle")' => ~At(x, "idle") /\ req'[x].edit = req[x].edit
    BY DEF GoesOn, Moved, At
  <2> QED BY <2>1, <2>2 DEF Unused, Appended
<1> QED BY <1>1, <1>3, <1>4, <1>5 DEF OnceInv

\* A request that begins gets an edit that nobody has had.
LEMMA OnceStarts ==
  ASSUME TypeOK, OnceInv, NEW w \in Worker, At(w, "idle"), Moved(w), UseEdit,
         UNCHANGED <<commit, confirmed>>, req'[w].pc # "idle", req'[w].edit = Fresh,
         req'[w].pc \in {"read", "put"} =>
           /\ req'[w].path \notin req'[w].todo
           /\ req'[w].by = "proposal" => req'[w].branch # Default
  PROVE  OnceInv'
<1>1. edits' = edits + 1 /\ edits \in Nat /\ Fresh = edits'
  BY DEF UseEdit, Fresh, TypeOK
<1>2. \A c \in DOMAIN commit : commit[c].edit <= edits /\ commit[c].edit \in Nat
  BY EditType DEF OnceInv
<1>3. ASSUME NEW v \in Worker
      PROVE  OnceReq(v)'
  <2>1. CASE v # w
    <3>1. req'[v] = req[v] /\ OnceReq(v) /\ (~At(v, "idle") => req[v].edit \in Nat)
      BY <2>1, EditType DEF Moved, OnceInv
    <3> QED BY <1>1, <3>1 DEF OnceReq, Unwritten, At
  <2>2. CASE v = w
    <3>1. PICK e, ps : e = Fresh /\ ps = Pending(req'[w])
      OBVIOUS
    <3>2. Unwritten(e, ps)'
      BY <1>1, <1>2, <3>1 DEF Unwritten
    <3> QED BY <1>1, <2>2, <3>1, <3>2 DEF OnceReq
  <2> QED BY <2>1, <2>2
<1>4. ASSUME NEW v \in Worker, v # w
      PROVE  ~At(v, "idle")' => req'[v].edit # Fresh
  BY <1>1, <1>4, EditType DEF Moved, OnceInv, OnceReq, At
<1>5. ASSUME NEW u \in Worker, NEW v \in Worker, u # v
      PROVE  Distinct(u, v)'
  <2>1. CASE u # w /\ v # w
    BY <1>5, <2>1 DEF OnceInv, Distinct, Moved, At
  <2>2. CASE u = w \/ v = w
    BY <1>4, <1>5, <2>2 DEF Distinct
  <2> QED BY <2>1, <2>2
<1>6. ASSUME NEW e \in Prepared'
      PROVE  Unused(e)'
  <2>1. Unused(e) /\ e \in Nat
    BY EditType DEF OnceInv, Prepared
  <2> QED BY <1>1, <2>1 DEF Unused, Moved, At
<1> QED BY <1>1, <1>2, <1>3, <1>5, <1>6 DEF OnceInv

\* Steps that neither commit nor hand out an edit.
LEMMA OnceQuiet ==
  ASSUME TypeOK, OnceInv, NEW w \in Worker, ~At(w, "idle"), NEW next, Goto(w, next),
         UNCHANGED <<commit, edits>>, Prepared' \subseteq Prepared, GoesOn(req[w], next, {})
  PROVE  OnceInv'
<1>1. Moved(w) /\ req'[w] = next /\ Appended(req[w].edit, {})
  BY GotoMoves DEF Appended
<1> QED BY <1>1, OnceGoesOn

LEMMA OnceStart ==
  ASSUME IInv, OnceInv, NEW w \in Worker, Start(w)
  PROVE  OnceInv'
<1>1. TypeOK
  BY DEF IInv
<1>2. ASSUME NEW by, NEW b, NEW p, NEW todo, by # "proposal", p \notin todo,
             At(w, "idle"), UseEdit, UNCHANGED <<commit, confirmed>>,
             Goto(w, OneFileRequest(by, b, p, todo))
      PROVE  OnceInv'
  <2>1. /\ Moved(w) /\ req'[w].pc = "read" /\ req'[w].by = by /\ req'[w].path = p
        /\ req'[w].todo = todo /\ req'[w].edit = Fresh
    BY <1>1, <1>2, GotoMoves DEF OneFileRequest
  <2> QED BY <1>1, <1>2, <2>1, OnceStarts
<1>3. ASSUME NEW b \in Branch, NEW p \in Path, NEW by \in OneFile, StartFile(w, by, b, p)
      PROVE  OnceInv'
  <2>1. by # "proposal" /\ p \notin {}
    BY <1>3 DEF StartFile, Capability
  <2> QED BY <1>2, <1>3, <2>1 DEF StartFile
<1>4. ASSUME NEW b \in Branch, NEW p \in Path, Propose(w, b, p)
      PROVE  OnceInv'
  <2>1. Moved(w) /\ req'[w].pc = "source" /\ req'[w].edit = Fresh
    BY <1>1, <1>4, GotoMoves DEF Propose, BranchRequest
  <2> QED BY <1>1, <1>4, <2>1, OnceStarts DEF Propose
<1>5. ASSUME NEW b \in Branch, NEW appends \in SUBSET Path, StartBatch(w, b, appends)
      PROVE  OnceInv'
  <2>1. Moved(w) /\ req'[w].pc = "base" /\ req'[w].edit = Fresh
    BY <1>1, <1>5, GotoMoves DEF StartBatch
  <2> QED BY <1>1, <1>5, <2>1, OnceStarts DEF StartBatch
<1>6. ASSUME NEW b \in Branch, NEW p \in Path, NEW source \in Branch,
             CreateBranch(w, b, p, source)
      PROVE  OnceInv'
  <2>1. Moved(w) /\ req'[w].pc = "source" /\ req'[w].edit = Fresh
    BY <1>1, <1>6, GotoMoves DEF CreateBranch, BranchRequest
  <2> QED BY <1>1, <1>6, <2>1, OnceStarts DEF CreateBranch
<1>8. ASSUME NEW paths, Prepare(w, paths)
      PROVE  OnceInv'
  <2>1. /\ UNCHANGED <<commit, req>> /\ edits' = edits + 1 /\ edits \in Nat
        /\ \A c \in DOMAIN commit : commit[c].edit \in Nat
        /\ \A v \in Worker : ~At(v, "idle") => req[v].edit \in Nat
    BY <1>1, <1>8, EditType DEF Prepare, UseEdit, Fresh
  <2>2. ASSUME NEW e \in Prepared'
        PROVE  Unused(e)'
    <3>1. e \in Prepared \/ e = Fresh
      BY <1>8 DEF Prepare, Confirm, Prepared
    <3>2. CASE e \in Prepared
      <4>1. Unused(e) /\ e \in Nat
        BY <1>1, <3>2, EditType DEF OnceInv
      <4> QED BY <2>1, <4>1 DEF Unused, At
    <3>3. CASE e = Fresh
      <4>1. /\ \A c \in DOMAIN commit : commit[c].edit <= edits
            /\ \A v \in Worker : ~At(v, "idle") => req[v].edit <= edits
        BY DEF OnceInv, OnceReq
      <4> QED BY <2>1, <3>3, <4>1 DEF Unused, Fresh, At
    <3> QED BY <3>1, <3>2, <3>3
  <2> QED BY <2>1, <2>2 DEF OnceInv, OnceReq, Unwritten, Distinct, At
<1>7. CASE StartWriter(w)
  <2>1. PICK p \in Path : Goto(w, OneFileRequest("writer", Default, p, Path \ {p}))
    BY <1>7 DEF StartWriter
  <2> QED BY <1>2, <1>7, <2>1 DEF StartWriter
<1> QED BY <1>3, <1>4, <1>5, <1>6, <1>7, <1>8 DEF Start

LEMMA ReadGoesOn ==
  ASSUME OnceInv, NEW w \in Worker, req[w] \in FileRequest, At(w, "read"), NEW found
  PROVE  GoesOn(req[w], AfterRead(req[w], found), {})
<1> PICK r \in FileRequest : r = req[w]
  OBVIOUS
<1>1. r.pc = "read" /\ r.path \notin r.todo /\ (r.by = "proposal" => r.branch # Default)
  BY DEF At, OnceInv, OnceReq
<1>2. ASSUME NEW next \in {[r EXCEPT !.pc = "put", !.sha = found],
                           [r EXCEPT !.pc = "put", !.sha = found, !.base = found]}
      PROVE  GoesOn(r, next, {})
  <2>1. /\ next.pc = "put" /\ next.path = r.path /\ next.todo = r.todo /\ next.edit = r.edit
        /\ next.by = r.by /\ next.branch = r.branch
    BY DEF FileRequest
  <2> QED BY <1>1, <2>1 DEF GoesOn, Pending
<1>3. GoesOn(r, Idle, {})
  BY DEF GoesOn, Idle
<1> QED BY <1>2, <1>3 DEF AfterRead

LEMMA PutGoesOn ==
  ASSUME OnceInv, NEW w \in Worker, req[w] \in FileRequest, At(w, "put"),
         NEW ok, NEW next \in AfterPut(req[w], ok), NEW paths \in {{}, {req[w].path}}
  PROVE  GoesOn(req[w], next, paths)
<1> PICK r \in FileRequest : r = req[w]
  OBVIOUS
<1>1. r.pc = "put" /\ r.path \notin r.todo /\ (r.by = "proposal" => r.branch # Default)
  BY DEF At, OnceInv, OnceReq
<1>2. CASE next = Idle
  BY <1>2 DEF GoesOn, Idle
<1>3. CASE next = [r EXCEPT !.pc = "verify"]
  <2>1. next.pc = "verify" /\ next.edit = r.edit
    BY <1>3 DEF FileRequest
  <2> QED BY <1>1, <2>1 DEF GoesOn, Pending
<1>4. ASSUME r.by = "writer", NEW p \in r.todo,
             next = [r EXCEPT !.pc = "read", !.path = p, !.todo = @ \ {p}]
      PROVE  GoesOn(r, next, paths)
  <2>1. /\ next.pc = "read" /\ next.path = p /\ next.todo = r.todo \ {p}
        /\ next.edit = r.edit /\ next.by = r.by
    BY <1>4 DEF FileRequest
  <2>2. Pending(next) = r.todo /\ Pending(r) = {r.path} \cup r.todo
    BY <1>1, <2>1 DEF Pending
  <2> QED BY <1>1, <1>4, <2>1, <2>2 DEF GoesOn
<1> QED BY <1>2, <1>3, <1>4 DEF AfterPut

LEMMA OncePutStep ==
  ASSUME IInv, OnceInv, NEW w \in Worker, PutFile(w)
  PROVE  OnceInv'
<1>1. TypeOK /\ At(w, "put") /\ ~At(w, "idle") /\ edits' = edits
      /\ Prepared' \subseteq Prepared
  BY DEF IInv, PutFile, Prepared, At
<1>2. req[w] \in FileRequest
  BY <1>1, RequestType DEF At
<1> PICK r \in FileRequest : r = req[w]
  BY <1>2
<1>3. PICK ok, next : next \in AfterPut(r, ok) /\ Goto(w, next)
  BY DEF PutFile
<1>4. Moved(w) /\ req'[w] = next
  BY <1>1, <1>3, GotoMoves
<1>5. Appended(r.edit, {r.path})
  BY <1>1 DEF PutFile, Put, Pushed, Appended, TypeOK
<1>6. GoesOn(r, next, {r.path})
  BY <1>1, <1>3, PutGoesOn
<1> QED BY <1>1, <1>4, <1>5, <1>6, OnceGoesOn

LEMMA OnceMoveRef ==
  ASSUME IInv, OnceInv, NEW w \in Worker, MoveRef(w)
  PROVE  OnceInv'
<1>1. TypeOK /\ At(w, "ref") /\ ~At(w, "idle") /\ edits' = edits
      /\ Prepared' \subseteq Prepared
  BY DEF IInv, MoveRef, Prepared, At
<1>2. Appended(req[w].edit, Path)
  BY <1>1 DEF MoveRef, Pushed, Appended, TypeOK
<1>3. Moved(w) /\ GoesOn(req[w], req'[w], Path)
  BY <1>1, GotoMoves DEF MoveRef, GoesOn, Idle, Pending, At
<1> QED BY <1>1, <1>2, <1>3, OnceGoesOn

LEMMA OnceMakeBranch ==
  ASSUME IInv, OnceInv, NEW w \in Worker, MakeBranch(w)
  PROVE  OnceInv'
<1>1. TypeOK /\ At(w, "name") /\ ~At(w, "idle") /\ UNCHANGED <<commit, edits>>
      /\ req[w].branch # Default /\ Prepared' \subseteq Prepared
  BY DEF IInv, ReqInv, MakeBranch, Prepared, At
<1>2. Moved(w) /\ GoesOn(req[w], req'[w], {})
  BY <1>1, GotoMoves DEF MakeBranch, GoesOn, Idle, Pending, At
<1>3. Appended(req[w].edit, {})
  BY <1>1 DEF Appended
<1> QED BY <1>1, <1>2, <1>3, OnceGoesOn

\* The other steps of a request put nothing on a branch.
LEMMA OnceBetween ==
  ASSUME IInv, OnceInv, NEW w \in Worker,
         \/ ReadFile(w) \/ ReadFails(w) \/ PutFails(w) \/ ReadBase(w) \/ ReadForAppend(w)
         \/ MakeCommit(w) \/ Verify(w) \/ VerifyBatch(w) \/ ReadSource(w) \/ GiveUp(w)
  PROVE  OnceInv'
<1>1. TypeOK /\ ~At(w, "idle") /\ UNCHANGED <<commit, edits>>
  BY DEF IInv, ReadFile, ReadFails, PutFails, ReadBase, ReadForAppend, MakeCommit,
         Verify, VerifyBatch, ReadSource, GiveUp, At
<1>10. Prepared' \subseteq Prepared
  <2>1. confirmed' = confirmed \/ \E e, paths : Confirm("done", e, paths)
    BY DEF ReadFile, ReadFails, PutFails, ReadBase, ReadForAppend, MakeCommit, Verify,
           VerifyBatch, ReadSource, GiveUp
  <2>2. \A r \in confirmed' : r.how = "prepared" => r \in confirmed
    BY <2>1 DEF Confirm
  <2> QED BY <2>2 DEF Prepared
<1>2. CASE Goto(w, Idle)
  BY <1>1, <1>2, <1>10, OnceQuiet DEF GoesOn, Idle
<1>3. CASE ReadFile(w) \/ ReadFails(w)
  <2>1. At(w, "read") /\ req[w] \in FileRequest
    BY <1>1, <1>3, RequestType DEF ReadFile, ReadFails, At
  <2>2. Goto(w, Idle) \/ \E found : Goto(w, AfterRead(req[w], found))
    BY <1>3 DEF ReadFile, ReadFails
  <2> QED BY <1>1, <1>2, <2>1, <2>2, ReadGoesOn, <1>10, OnceQuiet
<1>4. CASE PutFails(w)
  <2>1. At(w, "put") /\ req[w] \in FileRequest
    BY <1>1, <1>4, RequestType DEF PutFails, At
  <2>2. PICK next \in AfterPut(req[w], FALSE) : Goto(w, next)
    BY <1>4 DEF PutFails
  <2> QED BY <1>1, <2>1, <2>2, PutGoesOn, <1>10, OnceQuiet
<1>5. CASE ReadBase(w)
  BY <1>1, <1>5, <1>10, OnceQuiet DEF ReadBase, GoesOn, Pending, At
<1>6. ASSUME NEW next, At(w, "tree"), Goto(w, next),
             next.pc \in {"tree", "ref"}, next.edit = req[w].edit
      PROVE  OnceInv'
  BY <1>1, <1>6, <1>10, OnceQuiet DEF GoesOn, Pending, At
<1>7. CASE ReadForAppend(w)
  <2>1. PICK r \in TreeRequest : r = req[w] /\ r.pc = "tree"
    BY <1>1, <1>7, RequestType DEF ReadForAppend, At
  <2>2. PICK p, found :
          \/ Goto(w, Idle)
          \/ Goto(w, [r EXCEPT !.appends = @ \ {p}, !.read[p] = found])
    BY <1>7, <2>1 DEF ReadForAppend
  <2>3. /\ [r EXCEPT !.appends = @ \ {p}, !.read[p] = found].pc = "tree"
        /\ [r EXCEPT !.appends = @ \ {p}, !.read[p] = found].edit = r.edit
    BY <2>1 DEF TreeRequest
  <2> QED BY <1>2, <1>6, <1>7, <2>1, <2>2, <2>3 DEF ReadForAppend
<1>8. CASE MakeCommit(w)
  <2>1. PICK r \in TreeRequest : r = req[w]
    BY <1>1, <1>8, RequestType DEF MakeCommit
  <2>2. [r EXCEPT !.pc = "ref"].pc = "ref" /\ [r EXCEPT !.pc = "ref"].edit = r.edit
    BY DEF TreeRequest
  <2> QED BY <1>6, <1>8, <2>1, <2>2 DEF MakeCommit
<1>9. CASE ReadSource(w)
  <2>1. PICK r \in NameRequest : r = req[w]
    BY <1>1, <1>9, RequestType DEF ReadSource, At
  <2>2. PICK next : next = [r EXCEPT !.pc = "name", !.at = head[r.source]]
    OBVIOUS
  <2>3. next.pc = "name" /\ next.edit = r.edit /\ next.path = r.path
    BY <2>2 DEF NameRequest
  <2>4. GoesOn(r, next, {})
    BY <1>9, <2>1, <2>3 DEF GoesOn, Pending, ReadSource, At
  <2> QED BY <1>1, <1>9, <2>1, <2>2, <2>4, <1>10, OnceQuiet DEF ReadSource
<1> QED
  BY <1>2, <1>3, <1>4, <1>5, <1>7, <1>8, <1>9 DEF Verify, VerifyBatch, GiveUp

LEMMA OnceOthers ==
  ASSUME IInv, OnceInv, NEW b \in Branch, NEW p \in Path, OthersPush(b, p)
  PROVE  OnceInv'
<1>1. TypeOK
  BY DEF IInv
<1>2. edits' = edits + 1 /\ edits \in Nat /\ req' = req
  BY <1>1 DEF OthersPush, UseEdit, Fresh, TypeOK
<1>3. Appended(edits', {p})
  BY <1>1 DEF OthersPush, UseEdit, Pushed, Appended, TypeOK
<1>4. \A c \in DOMAIN commit' : commit'[c].edit <= edits'
  BY <1>1, <1>2, <1>3, EditType DEF OnceInv, Appended
<1>5. ASSUME NEW v \in Worker
      PROVE  OnceReq(v)'
  BY <1>1, <1>2, <1>3, EditType DEF OnceInv, OnceReq, Unwritten, Appended, At
<1>6. ASSUME NEW e \in Prepared'
      PROVE  Unused(e)'
  <2>1. Unused(e) /\ e \in Nat
    BY <1>1, EditType DEF OnceInv, OthersPush, Prepared
  <2> QED BY <1>2, <1>3, <2>1 DEF Unused, Appended, At
<1> QED BY <1>2, <1>4, <1>5, <1>6 DEF OnceInv, Distinct, At

\* A capability never writes a file it has written: what is left of its files,
\* between its calls of GitHub, is in no commit of its own, whatever answers are
\* lost, and no other capability writes under its edit.
THEOREM EditsAreMadeOnce == Spec => []OnceInv
<1>1. Init => OnceInv
  <2> SUFFICES ASSUME Init PROVE OnceInv
    OBVIOUS
  <2>1. DOMAIN commit = {1} /\ commit[1].edit = 1 /\ edits = 1
    BY DEF Init
  <2>2. \A w \in Worker : At(w, "idle")
    BY DEF Init, At, Idle
  <2> QED BY <2>1, <2>2 DEF Init, OnceInv, OnceReq, Distinct, Prepared
<1>2. IInv /\ OnceInv /\ [Next]_vars => OnceInv'
  <2> SUFFICES ASSUME IInv, OnceInv, [Next]_vars PROVE OnceInv'
    OBVIOUS
  <2>1. CASE UNCHANGED vars
    BY <2>1 DEF vars, OnceInv, OnceReq, Unwritten, Distinct, Prepared, Unused, At
  <2> QED
    BY <2>1, OnceStart, OncePutStep, OnceMoveRef, OnceMakeBranch, OnceBetween, OnceOthers
       DEF Next
<1> QED BY <1>1, <1>2, GitHubCorrect, PTL DEF Spec

\* A reply that confirms a change is about one that was committed, whatever was
\* lost, refused or pushed meanwhile; one that is about a change prepared only
\* is about one that stays uncommitted (_github_*_capability, prepared_only).
THEOREM ConfirmedIsCommittedHolds == Spec => []ConfirmedIsCommitted
<1>1. IInv /\ OnceInv => ConfirmedIsCommitted
  <2> SUFFICES ASSUME IInv, OnceInv, NEW r \in confirmed, r.how = "prepared"
               PROVE  ~Committed(r.edit, {})
    BY DEF IInv, DoneIsCommitted, ConfirmedIsCommitted
  <2>1. Unused(r.edit)
    BY DEF OnceInv, Prepared
  <2> QED BY <2>1 DEF Unused, Committed
<1> QED BY <1>1, GitHubCorrect, EditsAreMadeOnce, PTL

-----------------------------------------------------------------------------
(* What everybody sees of the steps is what Branches specifies.             *)

NewTree(b, paths, contents) ==
  [p \in Path |-> IF p \in paths THEN contents[p] ELSE File(b, p)]

LEMMA ChangesGrow ==
  ASSUME TypeOK, NEW b \in Branch, NEW by, NEW e \in Edit,
         NEW paths \in SUBSET Path, NEW contents, NEW read,
         Pushed(b, by, e, paths, contents, read), There(b), Unwritten(e, paths),
         NEW ch, ch = [branch |-> b, edit |-> e, paths |-> paths]
  PROVE  /\ ch \in Branches!Logged \cap Branches!Change /\ Branches!Once(ch)
         /\ Existing' = Existing /\ b \in Existing
         /\ Contents' = [Contents EXCEPT ![b] = NewTree(b, paths, contents)]
<1> DEFINE tree == [p \in Path |-> IF p \in paths THEN contents[p] ELSE File(b, p)]
<1> DEFINE new == [branch |-> b, parent |-> head[b], by |-> by, edit |-> e,
                   path |-> paths, read |-> read, tree |-> tree]
<1>1. PICK n \in Nat : n = Len(commit) /\ DOMAIN commit = 1 .. n
  BY DEF TypeOK
<1>2. commit' = Append(commit, new) /\ head' = [head EXCEPT ![b] = n + 1]
  BY <1>1 DEF Pushed
<1>3. /\ new.branch = b /\ new.edit = e /\ new.path = paths /\ new.tree = tree
  OBVIOUS
<1> HIDE DEF new, tree
<1>4. /\ DOMAIN commit' = 1 .. n + 1 /\ commit'[n + 1] = new
      /\ \A c \in 1 .. n : commit'[c] = commit[c]
  BY <1>1, <1>2 DEF TypeOK
<1> DEFINE Any == [branch : Branch, edit : Nat, paths : SUBSET Path]
<1>5. Changes \in [1 .. n -> Any] /\ ch \in Any /\ ch \in Branches!Change
  <2>1. \A c \in 1 .. n : commit[c] \in Commit
    BY <1>1 DEF TypeOK
  <2>2. \A c \in 1 .. n :
          [branch |-> commit[c].branch, edit |-> commit[c].edit, paths |-> commit[c].path] \in Any
    BY <2>1 DEF Commit
  <2>3. e \in Nat
    BY DEF Edit
  <2> QED BY <1>1, <2>2, <2>3 DEF Changes, Branches!Change
<1>6. /\ DOMAIN Changes' = 1 .. n + 1 /\ Changes'[n + 1] = ch
      /\ \A c \in 1 .. n : Changes'[c] = Changes[c]
      /\ Changes' = [c \in 1 .. n + 1 |-> Changes'[c]]
  BY <1>1, <1>3, <1>4 DEF Changes
<1> HIDE DEF Any
<1>7. Changes' = Append(Changes, ch)
  <2>1. Changes \in Seq(Any) /\ Len(Changes) = n
    BY <1>5
  <2>2. /\ Append(Changes, ch) \in [1 .. n + 1 -> Any] /\ Append(Changes, ch)[n + 1] = ch
        /\ \A c \in 1 .. n : Append(Changes, ch)[c] = Changes[c]
    <3>1. Append(Changes, ch) \in Seq(Any) /\ Len(Append(Changes, ch)) = n + 1
      BY <1>5, <2>1
    <3>2. Append(Changes, ch)[n + 1] = ch /\ \A c \in 1 .. n : Append(Changes, ch)[c] = Changes[c]
      BY <1>5, <2>1
    <3> QED BY <3>1, <3>2, LenProperties
  <2> QED BY <1>6, <2>2
<1>8. ch \in Branches!Logged
  BY <1>5, <1>6 DEF Branches!Logged
<1>9. Branches!Once(ch)
  <2>1. \A c \in DOMAIN Changes : Changes[c].edit = ch.edit => Changes[c].paths \cap ch.paths = {}
    BY DEF Changes, Unwritten
  <2> QED BY <1>7, <2>1 DEF Branches!Once
<1>10. \A a \in Branch : head[a] \in 0 .. n /\ head'[a] = IF a = b THEN n + 1 ELSE head[a]
  BY <1>1, <1>2 DEF TypeOK
<1>11. Existing' = Existing /\ b \in Existing
  BY <1>10 DEF Existing, There, None
<1>12. \A a \in Branch, p \in Path : File(a, p)' = IF a = b THEN tree[p] ELSE File(a, p)
  BY <1>3, <1>4, <1>10 DEF File, There, None
<1>13. Contents' = [Contents EXCEPT ![b] = tree]
  BY <1>12 DEF Contents, tree
<1> QED BY <1>5, <1>8, <1>9, <1>11, <1>13 DEF tree, NewTree

\* A branch remembers what it comes to be at, and nothing else.
LEMMA Remembers ==
  ASSUME IInv, TypeOK',
         \A c \in DOMAIN commit : commit'[c] = commit[c],
         \A b \in Branch : Was(b)' = Was(b) \cup (IF There(b)' THEN {head'[b]} ELSE {})
  PROVE  Branches!Remembered
<1>1. ASSUME NEW b \in Branch
      PROVE  Pasts'[b] = IF b \in Existing' THEN Pasts[b] \cup {Contents'[b]} ELSE Pasts[b]
  <2>1. Was(b) \subseteq DOMAIN commit
    BY WasType
  <2>2. \A c \in Was(b) : commit'[c].tree = commit[c].tree
    BY <2>1
  <2>3. /\ Pasts[b] = {commit[c].tree : c \in Was(b)}
        /\ Pasts'[b] = {commit'[c].tree : c \in Was(b)'}
        /\ b \in Existing' <=> There(b)'
    BY DEF Pasts, Existing
  <2>4. CASE There(b)'
    <3>1. Contents'[b] = commit'[head'[b]].tree
      <4>1. /\ head'[b] \in DOMAIN commit' /\ commit' \in Seq(Commit)
        BY <2>4 DEF TypeOK, There, None
      <4>2. commit'[head'[b]].tree \in [Path -> Content]
        <5>1. commit'[head'[b]] \in Commit
          BY <4>1
        <5> QED BY <5>1 DEF Commit
      <4> QED BY <2>4, <4>2 DEF Contents, File, There
    <3>2. Was(b)' = Was(b) \cup {head'[b]}
      BY <2>4
    <3> QED BY <2>2, <2>3, <2>4, <3>1, <3>2
  <2>5. CASE ~There(b)'
    BY <2>2, <2>3, <2>5
  <2> QED BY <2>4, <2>5
<1>2. Pasts' = [b \in Branch |-> Pasts'[b]]
  BY DEF Pasts
<1> QED BY <1>1, <1>2 DEF Branches!Remembered

LEMMA PushRemembers ==
  ASSUME IInv, TypeOK', NEW b \in Branch, NEW by, NEW e, NEW paths, NEW contents, NEW read,
         Pushed(b, by, e, paths, contents, read)
  PROVE  Branches!Remembered
<1> DEFINE new == [branch |-> b, parent |-> head[b], by |-> by, edit |-> e,
                   path |-> paths, read |-> read,
                   tree |-> [p \in Path |-> IF p \in paths THEN contents[p] ELSE File(b, p)]]
<1>1. PICK n \in Nat : n = Len(commit) /\ DOMAIN commit = 1 .. n
  BY DEF IInv, TypeOK
<1>2. commit' = Append(commit, new) /\ head' = [head EXCEPT ![b] = n + 1]
  BY <1>1 DEF Pushed
<1>3. new.branch = b /\ new.parent = head[b]
  OBVIOUS
<1> HIDE DEF new
<1>4. /\ DOMAIN commit' = 1 .. n + 1 /\ commit'[n + 1] = new
      /\ \A c \in 1 .. n : commit'[c] = commit[c]
  BY <1>1, <1>2 DEF IInv, TypeOK
<1>5. \A a \in Branch : head'[a] = IF a = b THEN n + 1 ELSE head[a]
  BY <1>2 DEF IInv, TypeOK
<1>6. ASSUME NEW a \in Branch
      PROVE  Was(a)' = Was(a) \cup (IF There(a)' THEN {head'[a]} ELSE {})
  <2>1. ASSUME NEW c
        PROVE  (\E d \in DOMAIN commit' : commit'[d].branch = a /\ c = commit'[d].parent)
               <=> \/ \E d \in DOMAIN commit : commit[d].branch = a /\ c = commit[d].parent
                   \/ a = b /\ c = head[b]
    BY <1>1, <1>3, <1>4
  <2>2. ASSUME NEW c
        PROVE  c \in Was(a) <=>
                 /\ c # None
                 /\ \/ c = head[a]
                    \/ \E d \in DOMAIN commit : commit[d].branch = a /\ c = commit[d].parent
    BY DEF Was
  <2>3. ASSUME NEW c
        PROVE  c \in Was(a)' <=>
                 /\ c # None
                 /\ \/ c = head'[a]
                    \/ \E d \in DOMAIN commit' : commit'[d].branch = a /\ c = commit'[d].parent
    BY DEF Was
  <2> QED BY <1>5, <2>1, <2>2, <2>3 DEF There, None
<1> QED BY <1>1, <1>4, <1>6, Remembers

\* What becomes of the files when some are replaced.
EditedTo(ch, replaced) ==
  [p \in Path |-> IF p \in replaced THEN {ch.edit}
                  ELSE IF p \in ch.paths THEN Contents[ch.branch][p] \cup {ch.edit}
                  ELSE Contents[ch.branch][p]]

LEMMA EditedIs ==
  ASSUME NEW ch, NEW replaced \in SUBSET ch.paths
  PROVE  EditedTo(ch, replaced) \in Branches!Edited(ch)
  BY DEF Branches!Edited, EditedTo

\* A commit of one file is an edit of it, but for a proposal's.
LEMMA PutIsEdit ==
  ASSUME IInv, OnceInv, TypeOK', NEW w \in Worker, PutFile(w)
  PROVE  Branches!Next
<1>1. TypeOK /\ ReqInv(w) /\ OnceReq(w) /\ At(w, "put")
  BY DEF IInv, OnceInv, PutFile
<1>2. PICK r \in FileRequest : r = req[w]
  BY <1>1, RequestType DEF At
<1>3. r.branch \in Branch /\ r.path \in Path /\ r.edit \in Edit
  BY DEF FileRequest
<1> PICK b \in Branch, p \in Path, e \in Edit : b = r.branch /\ p = r.path /\ e = r.edit
  BY <1>3
<1> PICK content, contents, read, by, paths :
      /\ content = NewContent(r) /\ contents = Everywhere(content)
      /\ read = Everywhere(r.base) /\ by = r.by /\ paths = {p}
  OBVIOUS
<1>4. There(b) /\ File(b, p) = r.sha /\ Pushed(b, by, e, paths, contents, read)
  BY <1>2 DEF PutFile, Put, Accepts
<1>5. Unwritten(e, paths) /\ (by = "proposal" => b # Default)
  BY <1>1, <1>2 DEF OnceReq, Unwritten, Pending, At
<1> PICK ch : ch = [branch |-> b, edit |-> e, paths |-> paths]
  OBVIOUS
<1> PICK new : new = NewTree(b, paths, contents)
  OBVIOUS
<1>6. /\ ch \in Branches!Logged \cap Branches!Change /\ Branches!Once(ch)
      /\ Existing' = Existing /\ b \in Existing /\ Contents' = [Contents EXCEPT ![b] = new]
  <2>1. paths \in SUBSET Path
    OBVIOUS
  <2> QED BY <1>1, <1>4, <1>5, <2>1, ChangesGrow
<1>7. /\ new[p] = content /\ \A q \in Path : q # p => new[q] = Contents[b][q]
      /\ new = [q \in Path |-> new[q]] /\ Contents[b][p] = File(b, p)
  BY DEF Everywhere, Contents, NewTree
<1>8. ch.branch = b /\ ch.edit = e /\ ch.paths = {p}
  OBVIOUS
<1>9. Contents[b] = [q \in Path |-> Contents[b][q]] /\ Contents = [a \in Branch |-> Contents[a]]
  BY DEF Contents
<1>10. CASE by = "proposal"
  <2>1. content = r.base \cup {e}
    BY <1>10 DEF NewContent
  <2>2. Contents'[b][p] = content
    BY <1>6, <1>7, <1>9
  <2>3. new = [Contents[b] EXCEPT ![p] = content]
    BY <1>7, <1>9
  <2>4. Contents' = [Contents EXCEPT ![b][p] = content]
    BY <1>6, <2>3
  <2>5. Branches!Propose(ch)
    BY <1>5, <1>6, <1>8, <1>10, <2>1, <2>2, <2>4 DEF Branches!Propose
  <2> QED BY <1>4, <1>6, <2>5, PushRemembers DEF Branches!Next
<1>11. CASE by # "proposal"
  <2>1. content \in {{e}, File(b, p) \cup {e}}
    BY <1>1, <1>2, <1>4, <1>11 DEF NewContent, ReqInv, At
  <2>2. ASSUME NEW replaced \in SUBSET ch.paths,
               content = IF p \in replaced THEN {e} ELSE File(b, p) \cup {e}
        PROVE  new \in Branches!Edited(ch)
    <3>1. new = EditedTo(ch, replaced)
      <4>1. new[p] = EditedTo(ch, replaced)[p]
        BY <1>7, <1>8, <2>2 DEF EditedTo
      <4>2. ASSUME NEW q \in Path, q # p
            PROVE  new[q] = EditedTo(ch, replaced)[q]
        BY <1>7, <1>8, <2>2, <4>2 DEF EditedTo
      <4>3. EditedTo(ch, replaced) = [q \in Path |-> EditedTo(ch, replaced)[q]]
        BY DEF EditedTo
      <4> QED BY <1>7, <4>1, <4>2, <4>3
    <3> QED BY <3>1, EditedIs
  <2>3. new \in Branches!Edited(ch)
    <3>1. {} \in SUBSET ch.paths /\ {p} \in SUBSET ch.paths
      BY <1>8
    <3> QED BY <2>1, <2>2, <3>1
  <2>4. Branches!Apply(ch)
    BY <1>6, <1>8, <2>3 DEF Branches!Apply
  <2> QED BY <1>4, <1>6, <2>4, PushRemembers DEF Branches!Next
<1> QED BY <1>10, <1>11

\* The commit of a batch edits every file of the branch as it is now.
LEMMA MoveRefIsEdit ==
  ASSUME IInv, OnceInv, TypeOK', NEW w \in Worker, MoveRef(w)
  PROVE  Branches!Next
<1>1. TypeOK /\ ReqInv(w) /\ OnceReq(w) /\ At(w, "ref")
  BY DEF IInv, OnceInv, MoveRef
<1> PICK r \in TreeRequest : r = req[w]
  BY <1>1, RequestType
<1> PICK b \in Branch, e \in Edit : b = r.branch /\ e = r.edit
  BY DEF TreeRequest
<1> PICK read : read = r.read
  OBVIOUS
<1> PICK contents : contents = [p \in Path |-> read[p] \cup {e}]
  OBVIOUS
<1>2. Pushed(b, "batch", e, Path, contents, read) /\ head[b] = r.base
  BY DEF MoveRef, FastForward
<1>3. /\ There(b) /\ Unwritten(e, Path)
      /\ \A p \in Path : read[p] = NoFile \/ read[p] = File(b, p)
  BY <1>1, <1>2 DEF ReqInv, OnceReq, Pending, At, There, File
<1> PICK ch : ch = [branch |-> b, edit |-> e, paths |-> Path]
  OBVIOUS
<1> PICK new : new = NewTree(b, Path, contents)
  OBVIOUS
<1>4. /\ ch \in Branches!Logged \cap Branches!Change /\ Branches!Once(ch)
      /\ Existing' = Existing /\ b \in Existing /\ Contents' = [Contents EXCEPT ![b] = new]
  <2>1. Path \in SUBSET Path
    OBVIOUS
  <2> QED BY <1>1, <1>2, <1>3, <2>1, ChangesGrow
<1>5. ch.branch = b /\ ch.edit = e /\ ch.paths = Path
  OBVIOUS
<1>6. new \in Branches!Edited(ch)
  <2>1. PICK absent \in SUBSET ch.paths : absent = {p \in Path : read[p] = NoFile}
    BY <1>5
  <2>2. ASSUME NEW p \in Path
        PROVE  new[p] = EditedTo(ch, absent)[p]
    <3>1. new[p] = read[p] \cup {e} /\ Contents[b][p] = File(b, p)
      BY DEF NewTree, Contents
    <3>2. CASE read[p] = NoFile
      BY <1>5, <2>1, <3>1, <3>2 DEF EditedTo, NoFile
    <3>3. CASE read[p] # NoFile
      BY <1>3, <1>5, <2>1, <3>1, <3>3 DEF EditedTo
    <3> QED BY <3>2, <3>3
  <2>3. /\ new = [p \in Path |-> new[p]]
        /\ EditedTo(ch, absent) = [p \in Path |-> EditedTo(ch, absent)[p]]
    BY DEF NewTree, EditedTo
  <2>4. new = EditedTo(ch, absent)
    BY <2>2, <2>3
  <2> QED BY <2>4, EditedIs
<1>7. Branches!Apply(ch)
  BY <1>4, <1>5, <1>6 DEF Branches!Apply
<1> QED BY <1>2, <1>4, <1>7, PushRemembers DEF Branches!Next

LEMMA OthersPushIsEdit ==
  ASSUME IInv, OnceInv, TypeOK', NEW b \in Branch, NEW p \in Path, OthersPush(b, p)
  PROVE  Branches!Next
<1>1. TypeOK /\ Fresh \in Edit /\ There(b)
  BY DEF IInv, TypeOK, Fresh, Edit, OthersPush
<1> PICK e \in Edit : e = Fresh
  BY <1>1
<1> PICK contents, read, paths :
      /\ contents = Everywhere(File(b, p) \cup {e})
      /\ read = Everywhere(File(b, p)) /\ paths = {p}
  OBVIOUS
<1>2. Pushed(b, "other", e, paths, contents, read)
  BY DEF OthersPush
<1>3. Unwritten(e, paths)
  BY <1>1, EditType DEF OnceInv, Unwritten, Fresh
<1> PICK ch : ch = [branch |-> b, edit |-> e, paths |-> paths]
  OBVIOUS
<1> PICK new : new = NewTree(b, paths, contents)
  OBVIOUS
<1>4. /\ ch \in Branches!Logged \cap Branches!Change /\ Branches!Once(ch)
      /\ Existing' = Existing /\ b \in Existing /\ Contents' = [Contents EXCEPT ![b] = new]
  <2>1. paths \in SUBSET Path
    OBVIOUS
  <2> QED BY <1>1, <1>2, <1>3, <2>1, ChangesGrow
<1>5. ch.branch = b /\ ch.edit = e /\ ch.paths = {p}
  OBVIOUS
<1>6. new \in Branches!Edited(ch)
  <2>1. PICK none \in SUBSET ch.paths : none = {}
    OBVIOUS
  <2>2. ASSUME NEW q \in Path
        PROVE  new[q] = EditedTo(ch, none)[q]
    BY <1>5, <2>1 DEF EditedTo, NewTree, Contents, Everywhere
  <2>3. /\ new = [q \in Path |-> new[q]]
        /\ EditedTo(ch, none) = [q \in Path |-> EditedTo(ch, none)[q]]
    BY DEF NewTree, EditedTo
  <2>4. new = EditedTo(ch, none)
    BY <2>2, <2>3
  <2> QED BY <2>4, EditedIs
<1>7. Branches!Apply(ch)
  BY <1>4, <1>5, <1>6 DEF Branches!Apply
<1> QED BY <1>2, <1>4, <1>7, PushRemembers DEF Branches!Next

\* A new branch shows what its source showed when it was looked at.
LEMMA BranchIsCreated ==
  ASSUME IInv, TypeOK', NEW w \in Worker, MakeBranch(w)
  PROVE  Branches!Next
<1>1. TypeOK /\ ReqInv(w) /\ At(w, "name") /\ commit' = commit
  BY DEF IInv, MakeBranch
<1>2. PICK r \in NameRequest : r = req[w]
  BY <1>1, RequestType DEF At
<1> PICK b \in Branch, source \in Branch, at \in Nat :
      b = r.branch /\ source = r.source /\ at = r.at
  BY DEF NameRequest
<1>3. /\ ~There(b) /\ head' = [head EXCEPT ![b] = at] /\ at \in Was(source)
      /\ at \in DOMAIN commit
  BY <1>1, <1>2, WasType DEF MakeBranch, ReqInv, At
<1>4. at # None /\ \A a \in Branch : head'[a] = IF a = b THEN at ELSE head[a]
  BY <1>1, <1>3 DEF TypeOK, Was
<1>5. There(source)
  BY <1>1, <1>3, SourceIsThere
<1>6. /\ b \notin Existing /\ source \in Existing /\ Existing' = Existing \cup {b}
      /\ Changes' = Changes
  BY <1>1, <1>3, <1>4, <1>5 DEF Existing, Changes, There
<1>7. commit[at].tree \in Pasts[source] /\ commit[at].tree \in [Path -> Content]
  <2>1. commit[at] \in Commit
    BY <1>1, <1>3 DEF TypeOK
  <2> QED BY <1>3, <2>1 DEF Pasts, Commit
<1> PICK old \in [Path -> Content] : old = commit[at].tree
  BY <1>7
<1>8. \A a \in Branch, p \in Path : File(a, p)' = IF a = b THEN old[p] ELSE File(a, p)
  BY <1>1, <1>4 DEF File, There
<1>9. Contents' = [Contents EXCEPT ![b] = old]
  <2>1. \A a \in Branch : Contents'[a] = IF a = b THEN old ELSE Contents[a]
    <3> TAKE a \in Branch
    <3>1. CASE a = b
      BY <1>8, <3>1 DEF Contents
    <3>2. CASE a # b
      BY <1>8, <3>2 DEF Contents
    <3> QED BY <3>1, <3>2
  <2>2. Contents' = [a \in Branch |-> Contents'[a]] /\ Contents = [a \in Branch |-> Contents[a]]
    BY DEF Contents
  <2> QED BY <2>1, <2>2
<1>10. Branches!Create(b, source)
  BY <1>6, <1>7, <1>9 DEF Branches!Create
<1>11. \A a \in Branch : Was(a)' = Was(a) \cup (IF There(a)' THEN {head'[a]} ELSE {})
  BY <1>1, <1>3, <1>4 DEF Was, There
<1> QED BY <1>1, <1>10, <1>11, Remembers DEF Branches!Next

\* The writers of GitHub keep the promise of Branches, for every set of
\* workers, files and branches: read-modify-write over several calls, with
\* pushes of others in between and answers lost, is one step of a branch
\* (the capabilities, git_commit_file, _write_files, _github_commit_batch_capability).
THEOREM WritesRefineBranches == Spec => EditsAreAtomic
<1>1. Init => Branches!Init
  <2> SUFFICES ASSUME Init PROVE Branches!Init
    OBVIOUS
  <2>1. PICK p \in Path :
          commit = <<[branch |-> Default, parent |-> None, by |-> "other",
                      path |-> {p}, edit |-> 1, read |-> Everywhere(NoFile),
                      tree |-> [q \in Path |-> IF q = p THEN {1} ELSE NoFile]]>>
    BY DEF Init
  <2>2. Existing = {Default}
    BY DefaultIsBranch DEF Init, Existing, There, None
  <2>3. \A b \in Branch, q \in Path : File(b, q) \in SUBSET Edit
    BY <2>1 DEF Init, File, There, None, NoFile, Edit
  <2>4. Changes \in Seq(Branches!Change)
    <3>1. DOMAIN commit = 1 .. 1
          /\ [branch |-> commit[1].branch, edit |-> commit[1].edit, paths |-> commit[1].path]
             \in Branches!Change
      BY <2>1, DefaultIsBranch DEF Branches!Change, Edit
    <3>2. Changes \in [1 .. 1 -> Branches!Change]
      BY <3>1 DEF Changes
    <3> QED BY <3>2, SeqDef
  <2>5. Pasts = [b \in Branch |-> IF b \in Existing THEN {Contents[b]} ELSE {}]
    <3>1. \A b \in Branch : Was(b) = IF b = Default THEN {1} ELSE {}
      BY <2>1 DEF Init, Was, None
    <3>2. Contents[Default] = commit[1].tree
      BY <2>1, DefaultIsBranch DEF Init, Contents, File, There, None
    <3> QED BY <2>2, <3>1, <3>2 DEF Pasts
  <2> QED BY <2>2, <2>3, <2>4, <2>5 DEF Branches!Init, Contents
<1>2. IInv /\ IInv' /\ OnceInv /\ [Next]_vars => [Branches!Next]_(Branches!vars)
  <2> SUFFICES ASSUME IInv, IInv', OnceInv, [Next]_vars PROVE [Branches!Next]_(Branches!vars)
    OBVIOUS
  <2>1. TypeOK'
    BY DEF IInv
  <2>2. ASSUME UNCHANGED <<head, commit>>
        PROVE  UNCHANGED Branches!vars
    BY <2>2 DEF Branches!vars, Existing, Contents, Changes, There, File, Pasts, Was
  <2>3. CASE UNCHANGED vars
    BY <2>2, <2>3 DEF vars
  <2>4. ASSUME NEW b \in Branch, NEW p \in Path, OthersPush(b, p)
        PROVE  Branches!Next
    BY <2>1, <2>4, OthersPushIsEdit
  <2>5. ASSUME NEW w \in Worker, PutFile(w) \/ MoveRef(w)
        PROVE  Branches!Next
    BY <2>1, <2>5, PutIsEdit, MoveRefIsEdit
  <2>6. ASSUME NEW w \in Worker, MakeBranch(w)
        PROVE  Branches!Next
    BY <2>1, <2>6, BranchIsCreated
  <2>7. ASSUME NEW w \in Worker, Start(w)
        PROVE  UNCHANGED <<head, commit>>
    BY <2>7 DEF Start, StartFile, Propose, StartBatch, StartWriter, CreateBranch, Prepare
  <2>8. ASSUME NEW w \in Worker,
               \/ ReadFile(w) \/ ReadFails(w) \/ PutFails(w) \/ ReadBase(w) \/ ReadForAppend(w)
               \/ MakeCommit(w) \/ Verify(w) \/ VerifyBatch(w) \/ ReadSource(w) \/ GiveUp(w)
        PROVE  UNCHANGED <<head, commit>>
    BY <2>8 DEF ReadFile, ReadFails, PutFails, ReadBase, ReadForAppend, MakeCommit, Verify,
                VerifyBatch, ReadSource, GiveUp
  <2> QED BY <2>2, <2>3, <2>4, <2>5, <2>6, <2>7, <2>8 DEF Next
<1> QED
  BY <1>1, <1>2, GitHubCorrect, EditsAreMadeOnce, PTL DEF Spec, EditsAreAtomic, Branches!Spec
=============================================================================
