----------------------------- MODULE ThreadAcl -----------------------------
(* Threads, their membership rows and the authorship of their messages, as *)
(* the request handlers of app/main.py change them.                        *)
(*                                                                         *)
(* A handler runs in a worker of the thread pool against a READ COMMITTED  *)
(* database: every db.commit() is a step of its own, and so is what a      *)
(* handler remembers between a SELECT and the statement that relies on it. *)
(* A request in flight is a record of req; its field pc says which step    *)
(* comes next.  A request that fails a guard is answered 4xx and leaves no *)
(* trace.  A worker may die between two commits (Crash).                   *)
(*                                                                         *)
(* The deletion of a thread is a transaction of several DELETEs, each with *)
(* a snapshot of its own: what is committed between a DELETE and the       *)
(* transaction's commit survives it.  A statement that meets a row another *)
(* open transaction has deleted waits for that one; the model lets it go   *)
(* on, which adds behaviours and removes none.                             *)
EXTENDS FiniteSets

CONSTANTS
  Thread,         \* thread identifiers (uuid4: used once)
  User,           \* user ids
  PlatformAdmin,  \* the users whose token has role "admin"
  Worker,         \* thread-pool workers, each serving one request at a time
  Assistant       \* stands for the user_id of a message no user wrote (NULL)

ASSUME AdminsAreUsers == PlatformAdmin \subseteq User
ASSUME AssistantIsNoUser == Assistant \notin User

VARIABLES
  exists,   \* threads with a row in table threads
  deleted,  \* threads whose row was deleted
  role,     \* role[t][u]: the thread_members row of u in t, NoRow when absent
  author,   \* author[t]: user_ids of the messages stored for t
  req,      \* req[w]: the request worker w is serving
  doomed,   \* doomed[w]: authors, all of whose messages w's open transaction deleted
  dropped,  \* dropped[w]: users whose row w's open transaction deleted
  \* History, read by no action:
  creator,     \* creator[t]: who became owner when t was created
  granted,     \* granted[t]: creators and users some owner/admin meant to add
  removed,     \* removed[t]: users who lost their row in t
  overlapped,  \* threads on which the removals of two owners overlapped
  met,         \* workers whose open deletion met another request about its thread
  late         \* threads whose deletion met another request, or an admin later

tables == <<exists, deleted, role, author>>
open == <<doomed, dropped>>
history == <<creator, granted, removed, overlapped, met, late>>
vars == <<exists, deleted, role, author, req, doomed, dropped, creator, granted,
          removed, overlapped, met, late>>

NoRow == "none"
\* "member" stands for the role "viewer" too: no handler tells them apart.
GrantableRole == {"admin", "member"}
Role == GrantableRole \cup {"owner"}

Op == {"post", "read", "rename", "delete", "add", "remove"}
Idle == [pc |-> "idle"]
\* u is the caller, and from the check of a removal on the member it removes.
\* The other arguments of a request are chosen by the step that reads them.
Request == {Idle} \cup
  [pc : {"own", "heal", "work", "answer", "remove", "gone", "members", "thread"},
   op : Op, t : Thread, u : User]

\* Requests past the point where they were let through.
Pending(t) == {w \in Worker : req[w].pc # "idle" /\ req[w].t = t}
\* w's transaction has deleted messages of t, and perhaps rows, uncommitted.
Deleting(w, t) == req[w].pc \in {"members", "thread"} /\ req[w].t = t
\* The thread_members table after an INSERT, which the handlers do not reach
\* and the unique index refuses where there is a row, and after a DELETE.
InsertRow(t, u, r) == [role EXCEPT ![t][u] = IF @ = NoRow THEN r ELSE @]
DeleteRow(t, u) == [role EXCEPT ![t][u] = NoRow]
Owners(t) == {u \in User : role[t][u] = "owner"}
\* A message of u is committed: no DELETE issued before has seen it.
StoreMessage(t, u) ==
  /\ author' = [author EXCEPT ![t] = @ \cup {u}]
  /\ doomed' = [v \in Worker |-> IF Deleting(v, t) THEN doomed[v] \ {u} ELSE doomed[v]]

TypeOK ==
  /\ exists \subseteq Thread
  /\ deleted \subseteq Thread
  /\ role \in [Thread -> [User -> Role \cup {NoRow}]]
  /\ author \in [Thread -> SUBSET (User \cup {Assistant})]
  /\ req \in [Worker -> Request]
  /\ doomed \in [Worker -> SUBSET (User \cup {Assistant})]
  /\ dropped \in [Worker -> SUBSET User]
  /\ creator \in [Thread -> SUBSET User]
  /\ granted \in [Thread -> SUBSET User]
  /\ removed \in [Thread -> SUBSET User]
  /\ overlapped \subseteq Thread
  /\ met \subseteq Worker
  /\ late \subseteq Thread

Init ==
  /\ exists = {}
  /\ deleted = {}
  /\ role = [t \in Thread |-> [u \in User |-> NoRow]]
  /\ author = [t \in Thread |-> {}]
  /\ req = [w \in Worker |-> Idle]
  /\ doomed = [w \in Worker |-> {}]
  /\ dropped = [w \in Worker |-> {}]
  /\ creator = [t \in Thread |-> {}]
  /\ granted = [t \in Thread |-> {}]
  /\ removed = [t \in Thread |-> {}]
  /\ overlapped = {}
  /\ met = {}
  /\ late = {}

-----------------------------------------------------------------------------
(* Creating a thread: POST /api/threads, or POST /api/chat without a       *)
(* thread_id.  The thread's row is committed first, the owner's row second.*)

CreateThread(w, op, t, u) ==
  /\ req[w] = Idle
  /\ t \notin exists \cup deleted
  /\ op \in {"rename", "post"}   \* "post": the chat goes on to store a message
  /\ exists' = exists \cup {t}
  /\ req' = [req EXCEPT ![w] = [pc |-> "own", op |-> op, t |-> t, u |-> u]]
  /\ UNCHANGED <<deleted, role, author, open, history>>

\* Worker w is about to make step pc of a request about thread t and user u.
At(w, pc, t, u) == req[w].pc = pc /\ req[w].t = t /\ req[w].u = u
Continue(w, pc) == req' = [req EXCEPT ![w].pc = pc]
Finish(w) == req' = [req EXCEPT ![w] = Idle]

EnsureOwner(w, t, u) ==
  /\ At(w, "own", t, u)
  /\ role' = InsertRow(t, u, "owner")
  /\ creator' = [creator EXCEPT ![t] = @ \cup {u}]
  /\ granted' = [granted EXCEPT ![t] = @ \cup {u}]
  /\ IF req[w].op = "post" THEN Continue(w, "work") ELSE Finish(w)
  /\ UNCHANGED <<exists, deleted, author, open, removed, overlapped, met, late>>

-----------------------------------------------------------------------------
(* The access check in front of every other operation.                     *)

NeedsOwnerOrAdmin(op) == op \in {"delete", "add", "remove"}
BypassesAcl(op, u) == u \in PlatformAdmin /\ op \in {"post", "read"}
MayDo_AnyonePosts(op, r) == NeedsOwnerOrAdmin(op) => r \in {"owner", "admin"}
MayDo(op, r) == r # NoRow /\ (NeedsOwnerOrAdmin(op) => r \in {"owner", "admin"})

Enter(w, op, t, u, pc) ==
  /\ req[w] = Idle
  /\ t \in exists \cup deleted     \* an id some client has seen
  /\ req' = [req EXCEPT ![w] = [pc |-> pc, op |-> op, t |-> t, u |-> u]]
  /\ met' = met \cup {v \in Worker : Deleting(v, t)}
  /\ UNCHANGED <<tables, open, creator, granted, removed, overlapped>>

\* A platform admin chats or reads without a membership check.
EnterAsPlatformAdmin(w, op, t, u) ==
  /\ BypassesAcl(op, u)
  /\ Enter(w, op, t, u, "work")
  /\ late' = IF t \in deleted THEN late \cup {t} ELSE late

EnterAsMember(w, op, t, u) ==
  /\ ~ BypassesAcl(op, u)
  /\ MayDo(op, role[t][u])
  /\ op # "rename"                 \* nothing left to change for a member
  /\ Enter(w, op, t, u, "work")
  /\ UNCHANGED late

\* No row, but a message of the user's: the row is about to be recreated.
EnterAsAuthor(w, op, t, u) ==
  /\ ~ BypassesAcl(op, u)
  /\ role[t][u] = NoRow
  /\ u \in author[t]
  /\ Enter(w, op, t, u, "heal")
  /\ UNCHANGED late

\* The recreated row has role "owner", whatever the user's role was.  When
\* another request has inserted a row meanwhile, the unique index refuses
\* this one and the request fails.
Heal(w, t, u) ==
  /\ At(w, "heal", t, u)
  /\ role' = InsertRow(t, u, "owner")
  /\ IF role[t][u] = NoRow /\ req[w].op # "rename"
     THEN Continue(w, "work")
     ELSE Finish(w)
  /\ UNCHANGED <<exists, deleted, author, open, history>>

-----------------------------------------------------------------------------
(* What the operations do once they were let through.                      *)

Serves(w, op, t, u) == At(w, "work", t, u) /\ req[w].op = op

\* A chat stores the user's message, calls the model, stores the answer.  It
\* never looks at the thread's row.
PostMessage(w, t, u) ==
  /\ Serves(w, "post", t, u)
  /\ StoreMessage(t, u)
  /\ Continue(w, "answer")
  /\ UNCHANGED <<exists, deleted, role, dropped, history>>

PostAnswer(w, t, u) ==
  /\ At(w, "answer", t, u)
  /\ StoreMessage(t, Assistant)
  /\ Finish(w)
  /\ UNCHANGED <<exists, deleted, role, dropped, history>>

\* GET /api/messages stores a welcome message in a thread without messages.
ReadMessages(w, t, u) ==
  /\ Serves(w, "read", t, u)
  /\ IF author[t] = {} THEN StoreMessage(t, Assistant) ELSE UNCHANGED <<author, doomed>>
  /\ Finish(w)
  /\ UNCHANGED <<exists, deleted, role, dropped, history>>

AddMember_RoleUnchecked(w, t, u, x, r) ==
  /\ Serves(w, "add", t, u)
  /\ role' = InsertRow(t, x, "guest")
  /\ granted' = [granted EXCEPT ![t] = @ \cup {x}]
  /\ Finish(w)
  /\ UNCHANGED <<exists, deleted, author, open, creator, removed, overlapped, met, late>>

AddMember_AsOwner(w, t, u, x, r) ==
  /\ Serves(w, "add", t, u)
  /\ role' = InsertRow(t, x, "owner")
  /\ granted' = [granted EXCEPT ![t] = @ \cup {x}]
  /\ Finish(w)
  /\ UNCHANGED <<exists, deleted, author, open, creator, removed, overlapped, met, late>>

AddMember(w, t, u, x, r) ==
  /\ Serves(w, "add", t, u)
  /\ role' = InsertRow(t, x, r)           \* or 409
  /\ granted' = [granted EXCEPT ![t] = @ \cup {x}]
  /\ Finish(w)
  /\ UNCHANGED <<exists, deleted, author, open, creator, removed, overlapped, met, late>>

\* The check of a removal: the row exists, and is not the last owner's.
LastOwner_OffByOne(t, x) == Owners(t) = {}
LastOwner(t, x) == Owners(t) = {x}

RemoveCheck(w, t, u, x) ==
  /\ Serves(w, "remove", t, u)
  /\ IF role[t][x] = NoRow \/ LastOwner(t, x)
     THEN Finish(w)                       \* 404, or 400
     ELSE req' = [req EXCEPT ![w] = [@ EXCEPT !.pc = "remove", !.u = x]]
  /\ overlapped' =
       IF \E v \in Worker, y \in User :
            At(v, "remove", t, y) /\ x # y /\ {x, y} \subseteq Owners(t)
       THEN overlapped \cup {t}
       ELSE overlapped
  /\ UNCHANGED <<tables, open, creator, granted, removed, met, late>>

\* The rows of users X in t are deleted and that is committed: a removal that
\* had loaded one of them deletes by the row's id, and will find nothing, as
\* will the commit of another deletion of the thread.
Gone(q, t, X) ==
  IF q.pc = "remove" /\ q.t = t /\ q.u \in X THEN [q EXCEPT !.pc = "gone"] ELSE q
FinishDeleting(w, t, X) ==
  /\ req' = [v \in Worker |-> IF v = w THEN Idle ELSE Gone(req[v], t, X)]
  /\ dropped' = [v \in Worker |-> IF v = w THEN {}
                                  ELSE IF Deleting(v, t) THEN dropped[v] \ X
                                  ELSE dropped[v]]

RemoveMember(w, t, x) ==
  /\ At(w, "remove", t, x)
  /\ role' = DeleteRow(t, x)
  /\ removed' = [removed EXCEPT ![t] = @ \cup {x}]
  /\ FinishDeleting(w, t, {x})
  /\ UNCHANGED <<exists, deleted, author, doomed, creator, granted, overlapped, met, late>>

RemoveNothing(w, t, x) ==
  /\ At(w, "gone", t, x)
  /\ Finish(w)
  /\ UNCHANGED <<tables, open, history>>

\* One transaction deletes the messages (and the files), the membership rows
\* and the thread's row.  It meets the requests let through before, and those
\* that come until it commits.
DeleteMessages(w, t, u) ==
  /\ Serves(w, "delete", t, u)
  /\ t \in exists
  /\ doomed' = [doomed EXCEPT ![w] = author[t]]
  /\ Continue(w, "members")
  /\ met' = IF Pending(t) = {w} THEN met ELSE met \cup {w}
  /\ UNCHANGED <<tables, dropped, creator, granted, removed, overlapped, late>>

DeleteMembers_CallerOnly(w, t, u) ==
  /\ At(w, "members", t, u)
  /\ dropped' = [dropped EXCEPT ![w] = {u} \cap {x \in User : role[t][x] # NoRow}]
  /\ Continue(w, "thread")
  /\ UNCHANGED <<tables, doomed, history>>

DeleteMembers(w, t, u) ==
  /\ At(w, "members", t, u)
  /\ dropped' = [dropped EXCEPT ![w] = {x \in User : role[t][x] # NoRow}]
  /\ Continue(w, "thread")
  /\ UNCHANGED <<tables, doomed, history>>

\* A request let through earlier goes on after the commit.
DeleteThread(w, t, u) ==
  /\ At(w, "thread", t, u)
  /\ exists' = exists \ {t}
  /\ deleted' = deleted \cup {t}
  /\ author' = [author EXCEPT ![t] = @ \ doomed[w]]
  /\ role' = [role EXCEPT ![t] =
                [x \in User |-> IF x \in dropped[w] THEN NoRow ELSE role[t][x]]]
  /\ removed' = [removed EXCEPT ![t] = @ \cup dropped[w]]
  /\ doomed' = [doomed EXCEPT ![w] = {}]
  /\ FinishDeleting(w, t, dropped[w])
  /\ late' = IF w \in met THEN late \cup {t} ELSE late
  /\ met' = met \ {w}
  /\ UNCHANGED <<creator, granted, overlapped>>

DeleteNothing(w, t, u) ==
  /\ Serves(w, "delete", t, u)
  /\ t \notin exists                     \* 404
  /\ Finish(w)
  /\ UNCHANGED <<tables, open, history>>

\* The process dies, or the handler raises, before the next commit: what its
\* transaction had deleted is there again.
Crash(w) ==
  /\ req[w] # Idle
  /\ Finish(w)
  /\ doomed' = [doomed EXCEPT ![w] = {}]
  /\ dropped' = [dropped EXCEPT ![w] = {}]
  /\ met' = met \ {w}
  /\ UNCHANGED <<tables, creator, granted, removed, overlapped, late>>

-----------------------------------------------------------------------------
Arrive(w, t, u) ==
  \/ \E op \in {"rename", "post"} : CreateThread(w, op, t, u)
  \/ \E op \in Op :
       \/ EnterAsPlatformAdmin(w, op, t, u)
       \/ EnterAsMember(w, op, t, u)
       \/ EnterAsAuthor(w, op, t, u)

Proceed(w, t, u) ==
  \/ EnsureOwner(w, t, u) \/ Heal(w, t, u)
  \/ PostMessage(w, t, u) \/ PostAnswer(w, t, u) \/ ReadMessages(w, t, u)
  \/ \E x \in User, r \in GrantableRole : AddMember(w, t, u, x, r)
  \/ \E x \in User : RemoveCheck(w, t, u, x)
  \/ RemoveMember(w, t, u) \/ RemoveNothing(w, t, u)
  \/ DeleteMessages(w, t, u) \/ DeleteMembers(w, t, u) \/ DeleteThread(w, t, u)
  \/ DeleteNothing(w, t, u)

Next ==
  \E w \in Worker :
    \/ Crash(w)
    \/ \E t \in Thread, u \in User : Arrive(w, t, u) \/ Proceed(w, t, u)

Spec == Init /\ [][Next]_vars

-----------------------------------------------------------------------------
\* Whoever has a row or a message in a thread created it, was added to it, or
\* is a platform admin: the healing of rows, which trusts authorship, and the
\* posting of messages, which trusts a check made earlier, never let a
\* stranger in (_require_thread_member, chat).
AccessIsGranted ==
  \A t \in Thread, u \in User :
    role[t][u] # NoRow \/ u \in author[t]
      => u \in granted[t] \cup PlatformAdmin

\* Nobody is made owner by add_thread_member, and a healed row makes an owner
\* only of a user who had lost a row, besides creators and platform admins.
OwnerByCreationOrHealing ==
  \A t \in Thread : Owners(t) \subseteq creator[t] \cup removed[t] \cup PlatformAdmin

\* remove_thread_member counts the owners in one statement and deletes in
\* another.  A thread that got an owner keeps one, through every interleaving
\* of additions, removals, healings and crashes in which the removals of two
\* different owners do not overlap.
OwnerKept ==
  \A t \in exists \ overlapped : creator[t] # {} => Owners(t) # {}

\* A deleted thread has neither messages nor members, and gets none, although
\* its deletion takes four statements and neither chat nor the membership
\* handlers look at the thread's row: unless another request about the thread
\* was past its access check at some moment of the deletion's transaction,
\* which is when a row can slip in after the DELETE that should have seen it
\* (or a platform admin, who needs no row, comes by later).
DeletedStaysEmpty ==
  \A t \in deleted \ late :
    author[t] = {} /\ \A u \in User : role[t][u] = NoRow

\* The comment "Cannot remove the last owner" of remove_thread_member, as it
\* stands: a thread that got an owner has one as long as it exists.
LastOwnerStays == \A t \in exists : creator[t] # {} => Owners(t) # {}

\* The docstring of _require_thread_member says what it heals: threads from
\* before thread_members existed.  In a thread that got its owner's row at
\* creation, then, nobody else is made owner.
HealsOnlyLegacyThreads ==
  \A t \in exists : creator[t] # {} => Owners(t) \subseteq creator[t]
=============================================================================
