# A TLA+ model of the Orkio API

The Orkio API (`src/app/main.py` and the packages beside it) is a FastAPI
server: chat with one or several agents over threads, a token-by-token chat
stream, realtime voice sessions, accounts, files, and tools that work on a
repository. This directory models the parts of it where several requests share
state, checks them with TLC on small instances, and proves most of what it
checks with TLAPS for every instance.

`PROJECT.json` lists the components, the runs, the line ranges each definition
models, the mutants that show each property can fail, the findings, the
hazards and the theorems. Line numbers below are those of `src/app/main.py`.

`main.py` does not parse at this commit: a string is not closed (`"\" in path"`,
4557, and again near 4600 and 4650), three functions have a second header
without a body (4571, 4602, 4685), and the body of
`_github_create_branch_capability` (5087) stands behind another function
(5704-5811), after its `return`, so that it never runs. The modules read each
function as it is written, with that repair and no other.

## How the server runs

* **Plain functions.** FastAPI runs a `def` handler in a thread of a pool. Most
  handlers are plain: chat, threads, members, realtime events, accounts.
  Requests overlap statement by statement. Each has its own database session
  on one READ COMMITTED database, so what a request wrote is seen by others at
  its `db.commit()`, and what it read may be stale at its next statement.
* **Coroutines.** `/api/chat/stream` and `/api/orchestrate` are coroutines of
  one event loop. They overlap at `await` and `yield` only; a call of the model
  runs in a thread (`asyncio.to_thread`).
* **Background tasks** run after the response: giving back a stream's slot, and
  punctuating realtime transcripts. Starlette runs a plain function in a thread.
* **Memory of a replica**: the gate's counters (2071), the founder guidance
  (94), the duplication guard (`self_heal/realtime_guard.py`), rate limiters.
  Lost on a restart. Everything else is in tables.

## Inventory

| component | state | operations | where it is hard | what makes it correct |
|---|---|---|---|---|
| threads and membership (230-241 of `models.py`; 1925-1992, 3637-3739, 7194-7276) | `threads`, `thread_members`, `messages` | create, rename, delete, read, post, add and remove members, heal a lost row | check and act are separate statements; creation is two commits; authorship outlives membership | nobody gets in uninvited; an owner remains; a deleted thread is empty |
| chat stream (8754-9353) and gate (2071-2127) | two counters, the generator, the events sent, `messages` | acquire, refuse, release; per agent: start, poll, time out, fail, store, send | slow and failing models, clients that leave, a limit shared by all | slots counted, limits kept; order of the events; what is sent is stored; every stream ends |
| realtime events (10443-11019, `realtime_punctuate.py`, `realtime_guard.py`) | `realtime_events`, `messages`, the guard | single event, batch, the agents' turn, punctuation | retries, two paths for one event, swallowed failures, background work lost | one line per final; a 200 means stored; a stored transcript is served |
| realtime sessions (10073-10240, 11022-11180) | `realtime_sessions` | start, end, read, score | little: `ended_at` is checked by nobody | - |
| chat turn (6347-6690, 1234-1266, 6082-6243) | `messages`, `cost_events`, the repository, founder guidance | idempotent insert, ask each agent, execute a repository operation, store, cost | a commit per agent; a retry after any of them; effects outside the database | answers are a prefix, in order; commits are reported; answers are costed; guidance is bounded |
| orchestration (9424-9758) | a thread | none that works: the agents are selected by `Agent.active` (9470), which the model does not have | every request fails there, after its thread was committed | - |
| accounts and access codes (3151-3176, 3305-3531, 12313-12380) | `users`, `signup_codes` | register, log in, make and switch codes | counter under a row lock that lasts until the account's commit; several commits after it; codes checked, then inserted without a unique index | uses are accounts; nobody passes Summit mode's gate without a use; configured addresses become admins; nobody waits for ever for the lock |
| passwords, one-time codes, sessions (3519-3612, 11614-11924, 12499-12516) | `otp_codes`, `password_reset_tokens`, `user_sessions` | issue, verify, mistake, reset, log out | issue in two commits; rows are read, then written without a lock; five endpoints whose rules depend on the mode | the old ones end; a code counts once; tries are bounded; in Summit mode nobody is signed in on a code given to an address alone |
| user administration (7749-7890) | `users` | approve, reject, delete | counting admins, then deleting | an admin remains |
| files, knowledge, requests (7278-7580, 7894-7964, 8063-8190) | `files`, `file_texts`, `file_requests`, the event in a thread | upload with three intents, announce, request, approve, reject | a chain of commits each of which may be swallowed; `ensure_core_agents` commits in the middle of an approval | nothing is lost in silence; a decision and the file agree |
| agents and links (951-1110, 8284-8500) | `agents`, `agent_links` | make the core agents, create, edit, delete, link | upserts by name without an index; one commit per agent | one default; the links are those of one request |
| founder escalations (3798-3843, 11926-12091) | `founder_escalations`, guidance | hand off, act, join | guidance shared by overlapping requests | guidance is bounded |
| planner, DAG, execution review (`app/runtime`; 6414-6530, 8690-9010) | `execution_events` | name the agents of a message, reorder them, record the turn | four rules for one order, fed by the telemetry of earlier turns; agents made and deleted meanwhile | who answers is what the message said |
| GitHub capability (4411-6270; `git_internal.py`, `orion_internal.py`, `github_pr_writer.py`, `evolution_internal.py`) | the repository on GitHub | create, replace, append, batch, branch, propose | several calls, each of which may be lost after it was carried out; others push in between | what is confirmed is committed; no push is lost; the default branch is guarded |
| schema and boot (`db.py`, `alembic/`, `db_internal.py`, `schema_patch_engine.py`, startup and guards of `main.py`) | the tables and their columns, `alembic_version` | reconcile, `create_all`, guard, upgrade, stamp, repair at run time | four ways to make a table, run by several replicas and alembic at a time; failures swallowed | a replica that is up has the columns it uses |
| memory and trial records, self-heal loop | rows that shape prompts; a log | upsert; propose | - | see "Not modelled" |
| pricing, reports, speech, leads, terms, flags | rows read or written once | - | - | - |

Interactions: the chat, the stream and the realtime endpoints all pass
`_require_thread_member` and write `messages`; a founder's action writes the
guidance the chat reads; the realtime handlers hand transcripts to a background
task; the stream hands its slot to one. The modules meet at these points
through what they assume of each other: `ChatStream` and `ChatTurn` start after
the access check that `ThreadAcl` models, and `ThreadAcl`'s `PostMessage` and
`PostAnswer` are the commits that `ChatTurn` and `ChatStream` look into.

## The modules

### ThreadAcl (with `MCThreadAcl`, `ThreadAclProofs`)

`exists`, `role` and `author` are the tables `threads`, `thread_members` and the
authors in `messages`; `req[w]` is the request a pool thread serves, with the
step it is at. Every `db.commit()` is a step, and so is the gap between
`remove_thread_member`'s count of the owners and its delete. The deletion of a
thread is a transaction of four DELETEs, each of which sees what is committed
when it starts (3668-3672): `doomed` and `dropped` are the messages and the
members it has found, which go when it commits, and a row committed after its
DELETE survives. A worker may stop between any two steps (`Crash`). Role
`viewer` is not told from `member`, since no handler does; titles and files are
left out. History variables record who was ever let in and where removals
overlapped; no action reads them.

Run `thread_acl`: one ordinary user, one platform admin, two workers, one
thread (1 100 971 states). Threads do not interact, and each property is about
one thread; two workers are a check and what is committed behind it. The
properties say who has a row or a message in a thread
(`AccessIsGranted`), how one becomes owner (`OwnerByCreationOrHealing`), that an
owner remains unless two removals overlap (`OwnerKept`), and that a deleted
thread stays empty unless another request about it was past its check at some
moment of the deletion's transaction (`DeletedStaysEmpty`).

Run `thread_last_owner` shows where the code and its comment part: overlapping
removals leave no owner. It uses three users and no admin.

### ChatStream (with `MCChatStream`, `ChatStreamProofs`)

`ChatStream` has the gate's two counters, in all and per address, and for each
stream where its generator is, the state of its model call, the answers stored,
the events sent. A step runs from one `await` or `yield` to the next;
`_stream_acquire` is one step because it holds its lock and awaits nothing. An
error event and the `done` or `agent_done` right after it are one step. Prompts,
retrieval and the insert of the user's message come before the gate and are left
out. `ReleaseInBackground` does what the code does: the exception of
`asyncio.get_event_loop()` in a worker thread is swallowed, so no slot is
released.

Run `chat_stream`: two streams, two addresses, one slot in all and per address,
two agents, one chunk, a time limit of one polling turn (36 676 states). Streams
share nothing but the gate, so two of them over one slot show its races; two
agents and one chunk are enough for an agent to follow another that was
answered, failed, timed out or was not stored. `GateCounts`, `DoneEndsStream`,
`AgentsTakeTurns`, `SentIsStored` and `AgeBounded` are invariants, `StreamsEnd`
is liveness.

Fairness: the event loop resumes a generator that can run, the server runs the
background task of a response, and a model call ends, because the client of the
provider is built with a timeout. Nothing is assumed of the client.

### Realtime (with `MCRealtime`, `RealtimeProofs`)

`stored` and `timeline` are the rows of `realtime_events` and of `messages`,
`punct` the rows with a `transcript_punct`, `guarded` the duplication guard's
window, `req[w]` a request with its events, the positions its lookup did not
find, the transcripts still to answer, and then the background task's rows. A
single event is committed by `_audit`, which swallows a failure (`LoseEvent`);
a batch has a commit of its own (`FailBatch` is a 500). `Restart` loses
requests, tasks and the guard and keeps the tables. `why[e]` is a history of
what went wrong for an event, so that the properties can say "unless".

Assumed: every event has a `client_event_id` and a text, the session has a host
agent, the two lookups of a handler (session, then event) see the same table.
Batches are of two events, equal ones included. `ended_at` is not there because
no handler looks at it.

Run `realtime`: two transcripts and a response, two workers, two requests, one
restart (877 272 states). Each hazard is about one event, two requests that
carry it, and one neighbour in its session; a run with three requests passed
three million states at depth 20 without an error and was not finished.

Fairness: a thread that has work takes its next step; a call of the model
returns or raises within the timeout of its client (3949), and so does a
statement, as connecting and waiting for a connection are limited (`db.py`) and
no handler waits for another while it holds a lock. Clients need not retry, and
the guard's window need not end.

### ChatTurn (with `MCChatTurn`, `ChatTurnProofs`)

`asked`, `answers` and `costs` are the tables, `commits` what was committed in
the repository for a message, `guidance` the turns left of the founder's
guidance, `req[w]` a request with the agent whose turn it is, `out` what became
of each attempt. An attempt is one request; another one with the same message is
the client's retry. `InsertFails` is both the unique index refusing a racing
copy and a failing database: neither is caught. `Execute` does nothing in the
repository, or commits and says so, or commits and says that it failed, since
an answer may be lost after the PUT was carried out (4494-4506) and the read
that verifies it may fail (5874-5894). Prompts, history, trial and
runtime records are best effort and left out.

Run `chat_turn`: a plain message and one that asks for a repository operation,
two agents, two workers, two attempts, guidance of one turn, one restart
(1 321 183 states). With two attempts each of two agents there is every order of
a first attempt, its failure and its retry, overlapping or not; one agent with
three attempts passed too.

Fairness: as for Realtime.

### Accounts (with `MCAccounts`, `AccountsProofs`)

`account` and `code` are the committed rows of `users` and of `signup_codes`
for the code people give, `req[w]` the request with what its transaction has not
committed: the row it has locked and the use it will write. `Unlocked` is
derived from the requests, because `SELECT ... FOR UPDATE` keeps a row until the
transaction ends, which is `Insert` or whatever makes the request idle. The
checks of terms, window and e-mail come after the use is counted and undo it
(`Refuse`). The commits after the account's are one step, `Sync`, with the
promotion as its effect; a stop or a swallowed failure among them is `Crash`,
recorded in `cut`. Deleted accounts keep their place in `account`, so that uses
can be compared with accounts ever made. `summit` is chosen at the start.

Assumed: one organisation; an e-mail is unique (`0001_init.py:40`); the caller of
the administration holds the admin key, who has no account of its own to spare,
so that every other caller does less. Rate limits, audit and sessions are left
out, and so is approval, as `register` makes accounts that need none.

Run `accounts`: the addresses of an admin and of a super admin, two workers, a
code of one use, two rows of it, two registrations besides the first admin
(437 063 states). One use and two workers race for the last use, two rows need
two overlapping creations, three accounts let two be removed while one is
promoted. Without the liveness property, a third address that nobody configured
passed (1.18 million states) and so did three workers (4.85 million).

Fairness: a worker goes on with its request (`WF` on `Advance`); a statement that
waits for a row gets it in the end (`SF` on `Wait`), because the database queues
those who wait for a row lock.

### Logins (with `MCLogins`, `LoginsProofs`)

`code` holds the rows of `otp_codes` and of `password_reset_tokens`, told apart
by who issued them, `session` the rows of `user_sessions`, `req[w]` what the
request of worker w has read. Issuing is two steps, the UPDATE that ends the old
rows and the insert: of `login` each is a commit, of `otp_request` and
`forgot_password` there is one, so that the UPDATE shows only at the insert.
`EndOldFails` is the swallowed failure of the first. A row is read in one step
and written in a later one, which does not look again. `summit` and `twoSteps`
are the deployment's. `access` holds the access tokens handed out, with the code
each rests on and the session made with it: `get_current_user` takes any,
whether there is a row of a session or not, and `reset_password` hands one out
(11882) without making a session. A row's `sees`, `missed`, `uses` and `met` are
history: `met` says that a write overlapped another request that had read the
row.

Run `logins`: two workers, two rows, one session, a lockout after two tries
(3 445 268 states). Two rows are an old and a new one; two workers are a use, a
try or an issue that meets another; the count to two has the last try but one
and the last. The code's five tries add states of the same kind.

Left out: the limit of calls per address and minute (a replica's memory), the
e-mail, which goes out after the commit, and the change of a known password.

### Branches and GitHubBridge (with `MCGitHubBridge`, `GitHubBridgeProofs`)

`Branches` is what the writers of a repository promise together: an edit changes
its files of one branch in a single step, each of them once, and nothing else; a
branch begins as what another is or was at: reading the source's head and making
the reference are two calls (`ReadSource`, `MakeBranch`), and others push in
between, so the copy may be an old one (`past`). Only a proposal makes of its
file what it wants, and not on the default branch.

`head` is where the branches are and `commit` the commits that were put on one.
A file is the set of edits in it: replacing gives it one, appending one more,
and equal sets have equal sha. Each call to GitHub is a step. What GitHub does
is external and modelled by what the code relies on: a file is taken only with
the sha of the one there, a branch moves only forward unless forced. An answer
may be lost whether or not the call was carried out (`answered`, `PutFails`,
`ReadFails`), and others push at any time.

The same steps serve the chat's capabilities, the internal routes, the proposals
and the writer of pull requests, which differ in where they look first, what
they do without an answer, and whether they mind the default branch (`MayWrite`).

What a read, a change and a put do over several calls is to be one step of
`Branches`, though others push between them and answers are lost: that is the
refinement `EditsAreAtomic`. The branches' heads, the files at each, those they
had (`Was`) and the commits' edits are what `Branches` calls `there`, `files`,
`past` and `log`. A request that is only to prepare a change (6146) commits
nothing and is answered as an executed one: `Prepare`, and `confirmed` has what
became of it.

Run `github`: two workers, two files, two branches, three commits, four edits
(1 135 535 states). Two branches are the default and another; a batch and an
append need two files; three commits are the first, one of a request, and one
that comes between a read and a write.

### Agents and Files (with `MCFiles`, `FilesProofs`)

`Agents` has the steps of the requests on agents and links, and
`ensure_core_agents` as steps of whoever calls it (`then`); `Files` extends it
with the uploads, which call it after an institutional file, and with the
decisions, which call it in the middle of an approval: `CarriesFile` is the
change of the file that its commits carry with them. `Fail` leaves the session
broken until the handler of the text rolls it back, as the code does. An upload
from a chat then commits a message "Arquivo anexado" (7522), whose failure is
rolled back and told to nobody (`Attach`), and every upload ends with its answer
(`Answer`); `said` is what the uploader has been told.
`contested` and `torn` are history: two requests made the host, or put links of
one agent, at a time; an approval was cut short or met a rejection.

Run `files`: two workers, two core agents and one more name, three rows of
agents, two of links, one file, four requests (7 805 328 states). Four requests
are enough for agents to be made, an upload, a deletion and an approval that
misses what was deleted. Two files meet only where their uploads look for the
thread with the title of the institutional documents and make one; as anybody
may have given a thread that title, `shelves` starts with none, one or two,
which is all that another upload could have left. `MCFilesTarget.cfg` ends in a
state where no agent is the default (`AlwaysATarget`).

Read there and modelled as it is: `UPDATE agents SET is_default=0` (8413, 8443)
is no assignment to a boolean for PostgreSQL, so an administrator never makes
another agent the default; two Orkios make `scalar_one_or_none` raise (4137);
the unique index of revision 0003 refuses links that were disabled and come
back (500).

### Schema (with `MCSchema`, `LoginsProofs`)

`has` is the committed schema, pairs of a table and a group of columns that every
source adds together; `"base"` are the ones a table is created with. `Models`
says what `models.py` maps, `Described` what the revisions up to a version make.
A process that imports `app/db.py` goes through its four reconciliations
(`Boots`), each a transaction; a replica then starts up, where the guard and
`create_all` may run (`Guard*`, `CreateAll`), and serves; alembic imports the same
module, so it reconciles too and upgrades then. `lock` is the lock a `CREATE
TABLE IF NOT EXISTS` takes on a new name: who waits for it fails with what it has
done so far, and swallows that (`Commit`); an outage is `Swallowed`. `RunAll` runs
the statements of a transaction one after the other (`RunOne`) up to the first
that is refused. A database may be at any revision of `Earlier`, or new.

Run `schema`: one replica beside alembic, any of ten revisions (1.47 million
states); the others are like one of these. `schema_stamp` is the finding on
`env.py` below. Two replicas and alembic at a time passed too, over a new database
and over one at revision 13 (1.96 million states).

Read there: revisions from 0007 add columns without asking, so they fail on any
database that the application made; the SELECTs of `env.py` open a transaction
that only the stamp commits, so that an upgrade without a stamp is rolled back
in silence; `realtime_events.role` of revision 0016 may not be null and is not
mapped, so inserts fail on a database that alembic made; only some tables are
repaired while the server runs (2755-2775).

### TurnPlan (with `MCTurnPlan`, `ChatTurnProofs`)

How a message becomes a list of agents: `Requested` and `Tokens` are what it
names, `Selected` is `_select_target_agents`, `Explicit`
`_apply_explicit_agent_request`; then come the planner (`Reordered`), the
telemetry (`Adjusted`), and the names again. They are operators on lists, each a
choice of the positions it keeps (`Kept`); a turn is four actions, with
administrators making and deleting agents between them. A chat's rows expire
with its first commit, a stream's are copies. `Bookkept` is the list of executed
agents: the code appends to lists that it defines nowhere, the NameError is
swallowed, and the events come without names.

Run `turn_plan`: one turn at a time, five agents, two of them called by a titled
name and one that only a mention can name, seven kinds of message, the last two
events (5 592 118 states). The telemetry needs earlier turns, which follow
each other; overlapping turns would share the agents, which administrators
change between a turn's steps as well, and the events, which name nobody.

`SelectionStands` is about the three passes that make the list of agents anew:
nobody is listed twice, only who was selected, never nobody at all, and nobody
the message names is dropped or joined by one it does not name. It does not say
that the order is the message's (`UserOrderIsPreserved` is refuted: `@Orion
@Chris` is answered by Chris first), nor that the telemetry has a say
(`EventsNameTheExecuted` is refuted).

Read there: `@Aurora @Orion` is answered without Aurora; as the telemetry is
always empty, neither it nor the planner, whose order has one name, ever changes
who answers.

## What the properties say

| property | says | mutants break it by |
|---|---|---|
| `AccessIsGranted` | a row or a message belongs to someone let in | posting without a row |
| `OwnerByCreationOrHealing` | adding never makes an owner | adding as owner |
| `OwnerKept` | an owner remains but for overlapping removals | an off-by-one in the last-owner check |
| `DeletedStaysEmpty` | a deleted thread has no rows and gets none, unless a request past its check met the deletion | leaving the members |
| `GateCounts` | counters and limits | not counting an address |
| `DoneEndsStream` | done is the last event, and sent unless the client left | going on after a timeout |
| `AgentsTakeTurns` | an agent's events are between its predecessors' ends and its own | no agent_done after an error |
| `SentIsStored` | chunks only of stored answers | ignoring a failed insert |
| `AgeBounded`, `StreamsEnd` | the wait is bounded per agent, every stream ends | a late limit, a task that needs the client |
| `NoLineTwice` | a final is in the timeline at most once, and only if its event is stored | dropping the unique index |
| `AnswersFollowWhatWasSaid` | an answer comes after its transcript | no message for transcripts |
| `AnsweredAgainOnlyAfterLostInsert` | a second answer needs a lost insert | going on after a failed batch |
| `AckedIsStored` | 200 means a row, unless the database failed | answering a failed batch with 200 |
| `StoredIsServed` | a stored transcript is answered and punctuated, unless something is in the way | no background task |
| `AnswersAreAPrefix` | an attempt leaves its agents' answers in order, all of them for a 200 | skipping an agent that failed |
| `CommitsAreReported` | a reported success has its commit; a commit has its own answer, which may call it a failure, or its own attempt that failed or was cut off | going on after a failed insert |
| `AnswersAreCosted` | an answered attempt's answers are costed or refused by the database | costing the model's answers only |
| `GuidanceIsBounded` | no more guided requests than turns | not taking a turn |
| `AttemptsEnd` | every attempt ends | an off-by-one at the last agent |
| `UsesAreAccounts` | the uses of a row are the accounts made with it, at most `max_uses` | reading without FOR UPDATE |
| `AccountsPassTheGate` | in Summit mode only admins' addresses get an account without a use | going on with a code that is over |
| `AnAdminStays` | an admin is left unless removals of admins race or one is rejected | an off-by-one in the last-admin check |
| `ConfiguredAreAdmins` | a configured address's account is an admin's once its registration is over and whole | promoting `ADMIN_EMAILS` only |
| `RequestsEnd` | nobody waits for ever for the code's row | trying a refused insert again and again |
| `OldOnesEnd` | the rows an issue found are ended once its own is there | inserting without ending |
| `UsedOnce` | a code or token counts once, unless uses overlap | leaving it live |
| `LockoutHolds` | so many wrong tries end a code, unless tries overlap | one try more |
| `SummitSignIns` | in Summit mode nobody is signed in on a code given to an address alone, and a reset token signs in only when it is spent, without a session | issuing codes in any mode |
| `ConfirmedIsCommitted` | a change confirmed as made is in a commit, in all its files, and a prepared one in none | looking at the file after a failed put |
| `NoPushIsLost` | a change computed from a file replaces what was read | moving the branch by force |
| `EditsAreAtomic` | every write is one step of its branch, and is made once | a capability that starts over when its put got no answer |
| `SilentLossIsFlagged` | an upload answered or called attached has its event and request, or is marked as failed | rolling back at each failure |
| `DecisionHolds` | a file is institutional if approved, and only then, but for torn approvals | deciding what is decided |
| `OneDefault` | one default agent, unless two requests made the host at a time | not taking the default from the others |
| `LinksAreOnePut` | the enabled links of an agent are one request's | not disabling the old ones |
| `BootCovers` | a replica that is up has every reconciled column, unless an outage lost a reconciliation | the old form of the chunks' table |
| `NewDatabaseServes` | a new database is whole after one `create_all` | making a table that is there |
| `SelectionStands` | nobody answers twice or unasked, a selection does not come to nothing, and nobody named is dropped | listing an agent again whom the planner put first |

Each module but `Branches` and `Agents`, whose variables are in the `TypeOK` of
`Files`, also has a type invariant: `TypeOK`, and `PlanTypeOK` and
`SchemaTypeOK` where two modules share a module of proofs. It is proved for each
of them. `DefaultIsGuarded`, that only the writer of pull requests commits to the
default branch without leave, is an invariant without a run; it is proved.

## What is proved

All theorems hold for every value of the constants, under the named assumptions
of the modules: admins are users and the assistant is none; limits, counts and
bounds are naturals; the kinds of events are disjoint; the host is a core agent.
Each invariant of a run that is not inductive is part of one that is, which TLC
checked on the run's instance before it was proved.

* `ThreadAclProofs!TypeCorrect`, then `AccessGranted`. `AccessIsGranted` is not
  inductive: a request that was let in acts later. `AccessInv` adds that a
  request past its check, or about to heal, acts for a user who was let in;
  `granted` only grows, so a removal in between does not matter.
  `OwnersWereMade` adds to `OwnerByCreationOrHealing` that who heals, or ever
  wrote, has a row, lost one, or is a platform admin (`OwnerInv`).
  `DeletedEmpty` is about threads whose deletion met nobody past the check: such
  a deletion is alone with the thread, so what it found is all there is
  (`AloneInv`), and afterwards nobody gets in without a row (`GoneInv`).
  `OwnerRemains` is the hard one: a removal counts the owners first and deletes
  later. `KeptInv` says that, while no two removals have overlapped, the row a
  removal is about to delete is there and is not the only owner's, and that the
  removals of owners under way are of one owner.
* `ChatStreamProofs!GenCorrect`: `GenInv`, where a generator is and which agent
  has its turn. On it rest `GateInvariant` (`GateInv`: a stream in front of the
  gate has not been let in, the holders are finitely many, the counters are
  their numbers) and `GateCountsCorrect`. `StreamsCorrect` has one part for each
  question about the events: `EndInv` (nothing about the stream as a whole
  before it is over), `TurnInv` (the agents before the current one are done, the
  later ones have not begun), `StoredInv` (what is stored of the agents done so
  far) and `AgeInv` (the turns waited, from the place of the generator and
  `waited`). From it follow `DoneIsLast`, `TurnsAreKept`, `ChunksAreStored` and
  `AgesAreBounded`.
* `RealtimeProofs!AckedStored`. `AckInv` says what a request knows of its events
  at each step: before the insert, those that are not new have a row; after it,
  all have one or a reason "failed". Rows and reasons are only added
  (`OnlyAdded`), so what one thread knows survives the steps of the others. The
  case that needs care is the copy that lost the race: its row is the other's.
  `TimelineCorrect` adds what the timeline says: a final's line is the event's
  row (`SaidInv`), and a transcript none of whose copies was lost is answered,
  or is still to be answered by one request at one position, or neither
  (`OnceInv`). The two must hold together, as an answer comes after its line
  only if what is still to be answered has one. Hence `NoLineTwiceHolds`,
  `AnswersFollow` and `AnsweredOnceUnlessLost`.
* `AccountsProofs!TypeCorrect`, with `Refers`: requests act on rows that exist,
  since rows are never taken away. `UsesCounted` rests on `LockInv`: a row has
  one holder, and what the holder read is still there when it writes, so that
  `seen + 1` is the count plus one; `MadeWithRows` keeps a new row free of
  accounts. `GateHolds`: a registration past the code has a use or needs none.
  `AdminLeft` needs `SpareAdmin`, an admin whom no removal under way is about to
  delete. `ConfiguredSynced` is inductive as it stands.
* `ChatTurnProofs!GuidanceBounded`: turns taken plus turns left stay within the
  turns set (`TurnsInv`), for any overlap, because taking one holds the lock.
  `TurnsCorrect`: an attempt is served by one worker, whose place in the loop is
  the number of its answers (`ReqInv`), and the answer at each row is the next
  agent's (`RowsInv`); hence `AnswersInOrder`. `CostsAreThere` needs who is
  about to store a cost (`CostInv`); `CommitsAreToldOf` three counts which each
  step changes in one place: the commits are at least the answers that tell of
  one and the answers about to (`Told`, `Unsaved`), and at most those and the
  attempts cut short (`Failed`, `CommitInv`).
* `LoginsProofs!LoginsCorrect`: `IInv` has a part for each row, each request and
  each session. What makes it inductive is what a request knows of a row it has
  read: as long as `met` is false the row still has the tries that were read,
  and has not been used (`Unnoticed`, `RequestStays`); a write that finds
  another reader sets `met` (`TouchStep`). `OldOnesEndHolds` needs in addition
  that the rows an issue of `login` saw are ended before it inserts. From it
  follow `UsedOnceHolds`, `LockoutHoldsAlways` and `SummitSignInsHold`, for
  which `IInv` has a part about each access token.
* `GitHubBridgeProofs!GitHubCorrect`: commits stay as they are and branches only
  move forward (`Grown`). So if a branch is still where a batch found it, nobody
  has committed to it in between, and what the batch read is what is there; of
  one file the sha says the same. `ConfirmedIsCommittedHolds`,
  `NoPushIsLostHolds` and `DefaultIsGuardedHolds` are its parts.
  `EditsAreMadeOnce` says what a request has still to write (`Pending`), file by
  file: nothing of it is in a commit of the same edit, and no two requests have
  one edit (`OnceInv`). With both invariants `WritesRefineBranches` maps every
  step to one of `Branches`: a put that GitHub took and a branch moved forward
  are an `Apply` or a `Propose` of what the commit changes (`PutIsEdit`,
  `MoveRefIsEdit`), as the file read is the file replaced; a push of others is
  one of its own (`OthersPushIsEdit`); a branch made is a `Create` from what its
  source was at when it was read; every other step stutters.
* `FilesProofs!TypesCorrect`: rows are only added or changed in place
  (`FileSteps`, `AgentsStay`), a request about a file is about one that is
  there. `HostInv` is about the time between the look for a host and its insert:
  no default comes in between, because only another such request would make one,
  and then the two are `contested`; hence `DefaultIsOne`. `PutInv` says the same
  of the links of an agent; `LinksAreOne` rests on it. `UploadInv` is what a
  request still knows of its file at each step (`UploadFits`), which is never
  undone (`Grown`), and a step that tells of a file finds it whole or marks it
  (`Whole`, `WholeStays`); hence `LossIsFlagged`. `DecisionInv` (`DecisionFits`,
  one file at a time) relates the file to the requests that upload, approve and
  reject it: every step of a worker is to a file one of six kinds
  (`DecisionSteps`), and each keeps it (`DecisionStays`); hence `DecisionsHold`.

* `ChatTurnProofs!SelectionIsKept`, about `TurnPlan`. `Kept` returns the entries
  at the positions it is given, each once and in their order (by induction on
  the number of positions, as a least counterexample), so no list of agents has
  one twice. `SelectionInv` says that what a turn works out is stable under all
  that is done to it afterwards: a requested name that somebody of the
  organization bears has a bearer among the selected, so that applying the names
  a second time changes nothing; `orkio` is the first of them or not among them,
  so the planner's order of one name moves nobody; the events carry no names, so
  the telemetry's order is the one there was. `SelectionAlwaysStands` follows,
  with agents made and deleted between any two steps, and `PlanTypes`.
* `LoginsProofs!SchemaIsReconciled`, about `Schema`, in one module with the
  proofs about `Logins`. `RunIs` says what a transaction leaves, for any list of
  statements: it only adds what they name; statements that ask first are never
  refused; a transaction that ends open has made the tables it creates and
  completed those it adds columns to later. Each list of the code is then read
  once (`BootsAre`, `GuardRestIs`, `TurnIs`). `SchemaInv`: what a process has
  behind it is in the database (`Behind`), so it does not matter who put it
  there, and the two tables that no reconciliation completes are there whole or
  not at all while the database is new (`Anew`), so `create_all` skips none that
  is half made. Hence `BootAlwaysCovers` and `NewDatabaseAlwaysServes`;
  `SchemaTypes` reads every revision too (`RevisionsAre`, `FlattenIs`).

Only model-checked: the liveness properties (`StreamsEnd`, `StoredIsServed`,
`AttemptsEnd`, `RequestsEnd`), as liveness under fairness and ENABLED are out of
the prover's reach. Every other property of the runs is a theorem. Induction over
data is made by hand where a proof needs it, since no backend instantiates the
library's induction rules: the set of the numbers that fail has a least one
(`Smallest`, `UpTo`). No module of the project declares a RECURSIVE operator.

## Findings

Two runs expect a violation, and `PROJECT.json` quotes the sentences:
`thread_last_owner` (7264: overlapping removals take the last owner) and
`schema_stamp` (`env.py:103`: the version it records is not what is there).

Other sentences of the repository that the code does not keep have a property
and a configuration beside those of the runs, which ends in a counterexample:

| configuration | property | the sentence |
|---|---|---|
| `MCThreadHealsOnlyLegacyThreads` | `HealsOnlyLegacyThreads` | healing is for threads without members (1959), and brings back a removed member as owner |
| `MCChatStreamCap` | `TotalCap` | the limit of a stream (9086) starts again at each agent |
| `MCChatStreamSlots` | `SlotsComeBack` | a slot is given back when its stream is over (2124) |
| `MCRealtimeOnce` | `AnsweredOnce` | one key, one event (10820): two copies are both answered |
| `MCRealtimePunctuated` | `FinalsPunctuated` | finals are punctuated (`realtime_punctuate.py:98`) |
| `MCRealtimeBatch` | `BatchesStayOut` | finals of a batch "MUST NOT pollute the text chat timeline" (10868): they are written there |
| `MCChatTurnOnce` | `KeyAnsweredOnce` | one key, one message (6423): it is answered twice |
| `MCChatTurnReported` | `FailuresCommitNothing` | an operation reported as a failure ("Falha ao atualizar arquivo no GitHub.", 5877) made no commit: its answer was lost |
| `MCLoginsSummit` | `SummitNeedsPassword` | "Summit 2FA: password + OTP" (3539): an e-mailed reset token signs in by itself (11882) |
| `MCLoginsLogout` | `LogoutEndsOwn` | "End the user's current session." (12500) ends the newest |
| `MCGitHubBridgePrepared` | `ConfirmedMeansExecuted` | the reply tells of an execution with a verifiable confirmation (4775): the change was only prepared (6146, 6193) |
| `MCGitHubBridgeProposals` | `ProposalsOnlyAdd` | idempotent patches (`schema_patch_engine.py:2`) undo what is on their branch |
| `MCTurnPlanOrder` | `UserOrderIsPreserved` | an explicit order of the user's is kept (8701): it is the detection's |
| `MCTurnPlanEvents` | `EventsNameTheExecuted` | an event names the agents executed, and the telemetry reorders by them (6283; 4227, 8587, 8665): the lists are undefined and the NameError is swallowed |
| `MCFilesTarget` | `AlwaysATarget` | there is always an agent to answer |

Read on the way and not modelled: threads created by the stream and by
orchestration have no `created_at`, which the table requires (8802, 9449);
`punct_ready` counts raw text (11115); the capability of a message that names
several agents runs once for each (6560, 9062), so that an append is made
several times. Modelled without a run of their own: two deletions at a time, or
one rejection, take the last admin (7842, 7874), and two creations at a time
make two rows of a code, which then refuse everybody (12326).

## Not modelled

* **Orchestration** (9424-9758): no request passes the selection of the agents
  (9470), so that a model of what comes after would be of code that never runs.
* **Realtime sessions** (10073-10240, 11022-11180): one insert, one update,
  reads. No other handler looks at `ended_at`.
* **Runtime memory, trial records, arcangelic overlays, summit and numerology**:
  scores, hints and texts for a prompt. No branch of the code depends on them,
  and what a model answers is any answer here.
* **The self-heal loop**: the policy's action for a drift
  (`propose_schema_patch`) is refused by the validator, and the executor only
  logs. `realtime_self_heal.py` is imported by nothing.
* **Pricing, cost reports, exports**: floating-point sums over rows, read only.
* **Leads, terms, privacy, flags, heartbeats**: single commits on one row.
* **Speech, the Manus tool, delegation**: one call of a service each.
* **Rate limiters** and the audit: neither changes what a request does once it
  is let in.
* Of what is modelled: extraction and ranking of documents, renaming agents in
  `TurnPlan`, `downgrade()`, indexes, column types and updates of data in
  `Schema`; how a message becomes an operation on the repository in
  `GitHubBridge`.

## What comes next

A composition of `ThreadAcl` and `ChatTurn`: that `ChatTurn` implements the
posting of `ThreadAcl` for the threads that are not deleted.

## Running

    tlc -workers 2 -config MCThreadAcl.cfg MCThreadAcl
    tlapm ThreadAclProofs.tla

and likewise for the other MC modules and proof modules. The run names and their
configurations are in `PROJECT.json`.
