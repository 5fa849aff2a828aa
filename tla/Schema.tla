-------------------------------- MODULE Schema --------------------------------
(***************************************************************************)
(* What the database looks like when a server of this release meets it.    *)
(* Three hands change the schema: app/db.py reconciles four groups of      *)
(* tables when it is imported (by every replica, and by alembic, whose     *)
(* env.py imports it), the startup of main.py may run the schema guard and *)
(* create_all, and an operator runs "alembic upgrade head".                *)
(*                                                                         *)
(* A schema is a set of pairs <<table, group>>: a group is a set of        *)
(* columns that every source adds together, "base" the ones a table is     *)
(* created with.  Indexes, types and defaults are left out, except         *)
(* "role_required": the column role of realtime_events, NOT NULL without a *)
(* default and mapped by no model.                                         *)
(***************************************************************************)
EXTENDS Naturals, FiniteSets, Sequences, SequencesExt

CONSTANTS
    Replica,    \* the server processes
    Alembic,    \* the process of "alembic upgrade head"
    Earlier     \* where earlier releases left the database: numbers of revisions

ASSUME AlembicIsApart == Alembic \notin Replica
ASSUME EarlierAssumption == Earlier \subseteq Nat

VARIABLES
    has,        \* the committed schema: pairs <<table, group>>
    version,    \* how many revisions of Chain alembic_version records, 0: none
    versioned,  \* whether the table alembic_version exists
    pc,         \* process -> "down" | "boot" | "up"
    at,         \* process -> the reconciliation it is at, 1..5
    inside,     \* the processes with the transaction of a reconciliation open
    lock,       \* reconciliation -> the processes that hold its tables
    jobs,       \* process -> what its startup still has to run
    lost,       \* history: an outage rolled a reconciliation back
    fresh,      \* history: the database was empty
    done        \* history: the jobs of startup that committed

schemaVars == <<has, version, versioned, pc, at, inside, lock, jobs, lost, fresh, done>>

Proc == Replica \cup {Alembic}
Jobs == {"guard", "create_all"}

-------------------------------------------------------------------------------
(* What models.py maps                                                     *)

\* The tables whose columns were all there from the start.
Plain == {"threads", "file_texts", "audit_logs", "agents", "agent_knowledge",
    "agent_links", "file_requests", "pricing_snapshots", "leads",
    "thread_members", "realtime_sessions", "signup_codes", "otp_codes",
    "user_sessions", "usage_events", "feature_flags", "contact_requests",
    "marketing_consents", "terms_acceptances", "password_reset_tokens",
    "founder_escalations", "runtime_memories", "trial_events",
    "numerology_profiles"}

UserGroups == {"base", "approval", "summit", "profile", "locale"}
FileGroups == {"base", "content", "institutional", "original", "scope", "uploader"}
MessageGroups == {"base", "agent", "author", "client_id"}
CostGroups == {"base", "money", "split"}
EventGroups == {"base", "speaker", "punct", "client_id"}

Grown == {"users", "files", "messages", "cost_events", "realtime_events",
    "file_chunks", "trial_states"}

Models == [t \in Plain \cup Grown |->
    CASE t = "users" -> UserGroups
      [] t = "files" -> FileGroups
      [] t = "messages" -> MessageGroups
      [] t = "cost_events" -> CostGroups
      [] t = "realtime_events" -> EventGroups
      [] t = "file_chunks" -> {"base", "agent"}
      [] t = "trial_states" -> {"base", "score"}
      [] OTHER -> {"base"}]

Columns(t, groups) == {t} \X groups
Exists(t, schema) == <<t, "base">> \in schema

-------------------------------------------------------------------------------
(* Statements and what one transaction of them does                        *)

Create(t, groups)   == [op |-> "create", t |-> t, g |-> groups]
CreateIf(t, groups) == [op |-> "create_if", t |-> t, g |-> groups]
Add(t, groups)      == [op |-> "add", t |-> t, g |-> groups]
AddIf(t, groups)    == [op |-> "add_if", t |-> t, g |-> groups]
Update(t)           == [op |-> "update", t |-> t, g |-> {}]
\* 0014 adds its columns without a type, which no dialect can compile.
AddUntyped(t, groups) == [op |-> "untyped", t |-> t, g |-> groups]

\* DuplicateTable, DuplicateColumn, UndefinedTable.
Refused(st, schema) ==
    \/ st.op = "create" /\ Exists(st.t, schema)
    \/ st.op \in {"add", "update", "untyped"} /\ ~Exists(st.t, schema)
    \/ st.op = "add" /\ Columns(st.t, st.g) \cap schema # {}
    \/ st.op = "untyped" /\ ~(Columns(st.t, st.g) \subseteq schema)

Effect(st, schema) ==
    IF \/ st.op = "create_if" /\ Exists(st.t, schema)
       \/ st.op = "add_if" /\ ~Exists(st.t, schema)
    THEN schema
    ELSE schema \cup Columns(st.t, st.g)

\* One statement after the other; a refused one aborts the transaction, and
\* nothing more is done.
RunOne(st, db) ==
    IF db.tx = "aborted" \/ Refused(st, db.has)
    THEN [tx |-> "aborted", has |-> db.has]
    ELSE [tx |-> "open", has |-> Effect(st, db.has)]

RunAll(stmts, schema) ==
    LET db[i \in 0..Len(stmts)] ==
            IF i = 0 THEN [tx |-> "open", has |-> schema] ELSE RunOne(stmts[i], db[i - 1])
    IN db[Len(stmts)]

-------------------------------------------------------------------------------
(* The revisions of alembic/versions, in the order of down_revision        *)

R0001 == << Create("users", {"base"}), Create("threads", {"base"}),
            Create("messages", {"base"}), Create("files", {"base", "content"}),
            Create("file_texts", {"base"}), Create("file_chunks", {"base"}),
            Create("audit_logs", {"base"}) >>
R0002 == <<>>
R0003 == << AddIf("files", {"institutional"}), CreateIf("agent_links", {"base"}),
            CreateIf("agent_knowledge", {"base"}) >>
R0006 == << AddIf("files", {"original", "scope"}), AddIf("messages", {"agent"}) >>
R0007 == << Add("users", {"approval"}), Add("messages", {"author"}),
            Create("cost_events", {"base"}) >>
R0008 == << Create("file_requests", {"base"}) >>
R0009 == << Add("cost_events", {"money"}) >>
R0010 == << Create("pricing_snapshots", {"base"}) >>
R0011 == << Add("files", {"uploader"}) >>
R0012 == << Create("leads", {"base"}) >>
R0013 == << Create("thread_members", {"base"}) >>
R0014 == << AddUntyped("cost_events", {"split"}) >>
R0015 == <<>>
R0016 == << Create("realtime_sessions", {"base"}),
            Create("realtime_events", {"base", "role", "role_required"}) >>
R0017 == << Add("realtime_events", {"punct"}) >>
R0018 == << Add("users", {"summit"}) >> \o
         [i \in 1..8 |-> Create(<<"signup_codes", "otp_codes", "user_sessions",
             "usage_events", "feature_flags", "contact_requests",
             "marketing_consents", "terms_acceptances">>[i], {"base"})]
R0019 == << Add("messages", {"client_id"}), Add("realtime_events", {"client_id"}) >>
R0020 == << Add("users", {"profile"}) >>
R0021 == << Add("threads", {"meta"}) >>
R0022 == << Create("runtime_memories", {"base"}), Create("trial_states", {"base"}),
            Create("numerology_profiles", {"base"}) >>
R0023 == << Create("trial_events", {"base"}) >>
R0024 == << Add("trial_states", {"score"}) >>
R0025 == << AddIf("files", {"original", "scope", "uploader", "institutional"}),
            AddIf("messages", {"agent"}), AddIf("users", UserGroups \ {"base"}) >>
R0026 == << AddIf("realtime_events", {"role", "punct", "client_id"}) >>
R0027 == << Update("files") >>   \* its thread_id is one of the base columns

Chain == << R0001, R0002, R0003, R0006, R0007, R0008, R0009, R0010, R0011, R0012,
    R0013, R0014, R0015, R0016, R0017, R0018, R0019, R0020, R0021, R0022, R0023,
    R0024, R0025, R0026, R0027 >>
Latest == Len(Chain)
Recovered == Latest - 1   \* the revision env.py stamps: 0026

\* 0001 leaves a database that has users alone.
Revisions(first, last, schema) ==
    FlattenSeq([i \in 1..(last - first + 1) |->
        IF first + i = 2 /\ Exists("users", schema) THEN <<>> ELSE Chain[first + i - 1]])

\* The schema the first n revisions describe.  0014 never added its columns
\* itself: a database got past it when the guard of a startup had.
Described(n) ==
    LET Typed(st) == IF st.op = "untyped" THEN AddIf(st.t, st.g) ELSE st
        stmts == Revisions(1, n, {})
    IN RunAll([i \in 1..Len(stmts) |-> Typed(stmts[i])], {}).has

-------------------------------------------------------------------------------
(* What app/db.py and the startup of main.py run                           *)

\* _reconcile_core_auth_schema_boot, table by table.
BootUsers == << CreateIf("users", UserGroups \cup {"legacy"}),
                AddIf("users", UserGroups \cup {"legacy"}) >>
BootLogins == << CreateIf("otp_codes", {"base"}), CreateIf("user_sessions", {"base"}) >>
BootConsents == << CreateIf("terms_acceptances", {"base"}),
                   CreateIf("marketing_consents", {"base"}) >>
BootThreads == << CreateIf("threads", {"base"}), AddIf("threads", {"created_by"}) >>
BootMessages == << CreateIf("messages", MessageGroups), AddIf("messages", MessageGroups) >>
BootCoreAuth == BootUsers \o BootLogins \o BootConsents \o BootThreads \o BootMessages

BootAgents == << CreateIf("agents", {"base"}), CreateIf("agent_knowledge", {"base"}),
                 CreateIf("agent_links", {"base"}) >>

BootCollab == << CreateIf("thread_members", {"base"}),
                 CreateIf("realtime_sessions", {"base"}),
                 CreateIf("realtime_events", EventGroups),
                 AddIf("realtime_events", EventGroups) >>

\* _reconcile_files_schema_boot, table by table; files gets the columns of an
\* older table only after signup_codes.
BootFileTable == << CreateIf("files", FileGroups \cup {"legacy"}),
                    CreateIf("signup_codes", {"base"}),
                    AddIf("files", FileGroups \cup {"legacy"}) >>

\* A bug the checks must find: file_chunks stays as 0001 made it.
BootTexts_OldChunks == << CreateIf("file_texts", {"base"}),
                          CreateIf("file_chunks", {"base", "agent"}) >>

BootTexts == << CreateIf("file_texts", {"base"}),
                CreateIf("file_chunks", {"base", "agent"}),
                AddIf("file_chunks", {"agent"}) >>
BootAudit == << CreateIf("audit_logs", {"base"}) >>
BootFiles == BootFileTable \o BootTexts \o BootAudit

Boots == << BootCoreAuth, BootAgents, BootCollab, BootFiles >>

\* The tables a boot answers for, as models.py maps them.
Reconciled == UNION {{Boots[k][i].t : i \in 1..Len(Boots[k])} : k \in 1..4}

\* The files table of _ensure_files_table_exists, which commits.
EnsureFiles == << CreateIf("files", {"base", "scope"}) >>

\* ensure_schema up to the call of _ensure_files_table_exists ...
GuardUsers == << AddIf("users", UserGroups \ {"base", "summit"}),
                 AddIf("threads", {"meta"}), AddIf("messages", {"agent"}) >>
\* ... and after it.
GuardFiles == << AddIf("files", {"uploader", "scope", "original", "institutional"}),
                 AddIf("file_chunks", {"agent"}), Update("file_chunks") >>
GuardCosts == << CreateIf("cost_events", {"base", "money"}),
                 AddIf("cost_events", {"base", "money"}),
                 CreateIf("thread_members", {"base"}),
                 AddIf("cost_events", {"split"}) >>
GuardSummit == << AddIf("users", {"summit"}) >> \o
    [i \in 1..10 |-> CreateIf(<<"signup_codes", "otp_codes", "user_sessions",
        "usage_events", "feature_flags", "contact_requests", "marketing_consents",
        "terms_acceptances", "password_reset_tokens", "founder_escalations">>[i],
        {"base"})]
GuardEvents == << CreateIf("execution_events", {"base"}) >>
GuardRest == GuardFiles \o GuardCosts \o GuardSummit \o GuardEvents

\* The tables only the guard answers for in production's place.
Guarded == {"cost_events", "usage_events", "feature_flags", "contact_requests",
            "password_reset_tokens", "founder_escalations"}

\* A bug the checks must find: create_all without its look at what is there.
CreateAll_NoCheck(schema) ==
    IF \E t \in DOMAIN Models : Exists(t, schema)
    THEN schema
    ELSE UNION {Columns(t, Models[t]) : t \in DOMAIN Models}

\* Base.metadata.create_all: the mapped tables that are missing, whole.
CreateAll(schema) ==
    schema \cup UNION {Columns(t, Models[t]) : t \in {m \in DOMAIN Models : ~Exists(m, schema)}}

\* What a server repairs while it runs.  An error that names one of these
\* tables makes it: schema_patch_engine.py has no other template.
Template == [t \in {"thread_members", "realtime_sessions", "realtime_events"} |->
    IF t = "realtime_events" THEN EventGroups ELSE {"base"}]
Missing(schema) == {t \in DOMAIN Template : ~Exists(t, schema)}
Patched(t, schema) == Effect(CreateIf(t, Template[t]), schema)

\* A cost event that could not be stored, and the schema fix of an operator.
CostSchema == << CreateIf("cost_events", CostGroups), AddIf("cost_events", CostGroups) >>

-------------------------------------------------------------------------------
Table == DOMAIN Models \cup {"execution_events"}
Group == UserGroups \cup FileGroups \cup MessageGroups \cup CostGroups \cup EventGroups
    \cup {"score", "meta", "legacy", "created_by", "role", "role_required"}

SchemaTypeOK ==
    /\ has \subseteq Table \X Group
    /\ version \in 0..Latest
    /\ {versioned, lost, fresh} \subseteq BOOLEAN
    /\ pc \in [Proc -> {"down", "boot", "up"}]
    /\ at \in [Proc -> 1..5]
    /\ inside \subseteq Proc
    /\ lock \in [1..4 -> SUBSET Proc]
    /\ jobs \in [Proc -> SUBSET Jobs]
    /\ done \subseteq Jobs

\* An empty database, or one an earlier release left at some revision; the
\* table alembic_version may have been lost or emptied since.
SchemaInit ==
    /\ \E n \in Earlier \cap 0..Latest :
        /\ has = Described(n)
        /\ fresh = (n = 0)
        /\ versioned \in (IF n = 0 THEN {FALSE} ELSE BOOLEAN)
        /\ version \in (IF versioned THEN {0, n} ELSE {0})
    /\ pc = [p \in Proc |-> "down"]
    /\ at = [p \in Proc |-> 1]
    /\ inside = {}
    /\ lock = [k \in 1..4 |-> {}]
    /\ jobs = [p \in Proc |-> {}]
    /\ lost = FALSE
    /\ done = {}

\* A process starts: import app.db.
Start(p) ==
    /\ pc[p] = "down"
    /\ pc' = [pc EXCEPT ![p] = "boot"]
    /\ UNCHANGED <<has, version, versioned, at, inside, lock, jobs, lost, fresh, done>>

\* with ENGINE.begin(): the first to get there holds the tables.
Begin(p) ==
    /\ pc[p] = "boot"
    /\ at[p] \in 1..4
    /\ p \notin inside
    /\ inside' = inside \cup {p}
    /\ lock' = [lock EXCEPT ![at[p]] = IF @ = {} THEN {p} ELSE @]
    /\ UNCHANGED <<has, version, versioned, pc, at, jobs, lost, fresh, done>>

\* The processes that leave their reconciliation k, in whatever way.
Leave(ps, k) ==
    /\ inside' = inside \ ps
    /\ at' = [p \in Proc |-> IF p \in ps THEN k + 1 ELSE at[p]]
    /\ lock' = [lock EXCEPT ![k] = {}]

\* The ones that wait for the holder inside the same reconciliation.
Waiting(p) == {q \in inside \ {p} : at[q] = at[p]}

\* The holder commits.  If it created a table, the ones that waited for it
\* fail on the catalogue's unique index, and swallow that with their own work.
Commit(p) ==
    LET k == at[p]
        run == RunAll(Boots[k], has)
        created == \E f \in run.has \ has : f[2] = "base"
    IN
    /\ p \in inside
    /\ lock[k] \subseteq {p}
    /\ run.tx = "open"
    /\ has' = run.has
    /\ Leave({p} \cup (IF created THEN Waiting(p) ELSE {}), k)
    /\ UNCHANGED <<version, versioned, pc, jobs, lost, fresh, done>>

\* An outage, a lock or statement timeout: rolled back, printed, swallowed.
Swallowed(p) ==
    /\ p \in inside
    /\ lock[at[p]] \subseteq {p}
    /\ Leave({p}, at[p])
    /\ lost' = TRUE
    /\ UNCHANGED <<has, version, versioned, pc, jobs, fresh, done>>

\* The startup of a replica: what it runs besides depends on its environment
\* (APP_ENV with ENABLE_SCHEMA_GUARD, ENABLE_STARTUP_CREATE_ALL).  Each runs in
\* a thread that startup stops waiting for after a while.
StartUp(p) ==
    /\ p \in Replica
    /\ pc[p] = "boot"
    /\ at[p] = 5
    /\ pc' = [pc EXCEPT ![p] = "up"]
    /\ \E todo \in SUBSET Jobs : jobs' = [jobs EXCEPT ![p] = todo]
    /\ UNCHANGED <<has, version, versioned, at, inside, lock, lost, fresh, done>>

RunCreateAll(p) ==
    /\ "create_all" \in jobs[p]
    /\ has' = CreateAll(has)
    /\ done' = done \cup {"create_all"}
    /\ jobs' = [jobs EXCEPT ![p] = @ \ {"create_all"}]
    /\ UNCHANGED <<version, versioned, pc, at, inside, lock, lost, fresh>>

\* ensure_schema: what comes before the files table is committed with it, and
\* stays when a statement of the rest is refused.
RunGuard(p) ==
    LET first == RunAll(GuardUsers \o EnsureFiles, RunAll(EnsureFiles, has).has)
        rest == RunAll(GuardRest, first.has)
    IN
    /\ "guard" \in jobs[p]
    /\ has' = IF rest.tx = "open" THEN rest.has ELSE first.has
    /\ done' = IF rest.tx = "open" THEN done \cup {"guard"} ELSE done
    /\ jobs' = [jobs EXCEPT ![p] = @ \ {"guard"}]
    /\ UNCHANGED <<version, versioned, pc, at, inside, lock, lost, fresh>>

\* request_id_mw or /runtime-trigger: CREATE IF NOT EXISTS for a table that an
\* error says is missing.  Behind a boot that has the tables, it waits.
PatchMissing(p) ==
    /\ pc[p] = "up"
    /\ lock[3] = {}
    /\ \E t \in Missing(has) : has' = Patched(t, has)
    /\ UNCHANGED <<version, versioned, pc, at, inside, lock, jobs, lost, fresh, done>>

\* A turn of chat: the first execution event of a database makes its table
\* (_ensure_execution_events_schema_runtime), and a cost event that could not
\* be stored has its table reconciled before the second try.
ServeTurn(p) ==
    /\ pc[p] = "up"
    /\ has' = RunAll(GuardEvents \o CostSchema, has).has
    /\ has' # has
    /\ UNCHANGED <<version, versioned, pc, at, inside, lock, jobs, lost, fresh, done>>

\* db_schema_fix: the statements of a plan made from the columns that are there.
FixCosts(p) ==
    LET drift == Columns("cost_events", CostGroups) \ has
    IN
    /\ pc[p] = "up"
    /\ drift # {}
    /\ has' = has \cup drift
    /\ UNCHANGED <<version, versioned, pc, at, inside, lock, jobs, lost, fresh, done>>

\* The process is killed; an open transaction is rolled back.
Stop(p) ==
    /\ pc[p] # "down"
    /\ pc' = [pc EXCEPT ![p] = "down"]
    /\ at' = [at EXCEPT ![p] = 1]
    /\ jobs' = [jobs EXCEPT ![p] = {}]
    /\ inside' = inside \ {p}
    /\ lock' = [k \in 1..4 |-> lock[k] \ {p}]
    /\ lost' = (lost \/ p \in inside)
    /\ UNCHANGED <<has, version, versioned, fresh, done>>

\* run_migrations_online.  Its first SELECT opens a transaction that only the
\* stamp commits; alembic takes an open one for the caller's and leaves the
\* commit to it.  So what follows is kept after a stamp and dropped otherwise.
UpgradeHead ==
    LET stamps == Exists("users", has) /\ versioned /\ version = 0
        run == RunAll(Revisions(Recovered + 1, Latest, has), has)
    IN
    /\ pc[Alembic] = "boot"
    /\ at[Alembic] = 5
    /\ pc' = [pc EXCEPT ![Alembic] = "down"]
    /\ at' = [at EXCEPT ![Alembic] = 1]
    /\ version' = IF ~stamps THEN version ELSE IF run.tx = "open" THEN Latest ELSE Recovered
    /\ has' = IF stamps /\ run.tx = "open" THEN run.has ELSE has
    /\ UNCHANGED <<versioned, inside, lock, jobs, lost, fresh, done>>

\* An operator makes the empty table that env.py's recovery looks for.
EmptyVersions ==
    /\ version' = 0
    /\ versioned' = TRUE
    /\ UNCHANGED <<has, pc, at, inside, lock, jobs, lost, fresh, done>>

SchemaNext ==
    \/ \E p \in Proc : Start(p) \/ Begin(p) \/ Commit(p) \/ Swallowed(p) \/ StartUp(p)
                        \/ RunCreateAll(p) \/ RunGuard(p) \/ Stop(p)
                        \/ PatchMissing(p) \/ ServeTurn(p) \/ FixCosts(p)
    \/ UpgradeHead
    \/ EmptyVersions

SchemaSpec == SchemaInit /\ [][SchemaNext]_schemaVars

-------------------------------------------------------------------------------
Complete(tables) == \A t \in tables : Columns(t, Models[t]) \subseteq has

\* Whatever the database was and however many processes boot at a time, a
\* replica is up only when every table that db.py reconciles has every column
\* models.py maps, unless an outage lost a reconciliation: a process whose
\* reconciliation lost the race to create a table needs no second one.  After
\* a guard that went through, the tables only the guard knows are complete too.
BootCovers ==
    ~lost /\ (\E p \in Replica : pc[p] = "up")
        => Complete(Reconciled) /\ ("guard" \in done => Complete(Guarded))

\* An empty database serves after one create_all, whatever ran before it: every
\* mapped table is there whole, and none has a column that models.py does not
\* fill and that may not be empty.
NewDatabaseServes ==
    fresh /\ ~lost /\ "create_all" \in done
        /\ (\E p \in Replica : pc[p] = "up")
        => /\ Complete(DOMAIN Models)
           /\ <<"realtime_events", "role_required">> \notin has

\* env.py, of the version it stamps: "grava a revisao correta".  The tables of
\* the revisions the version records are there.  The code stamps 0026 on any
\* database with a users table, and nothing makes the others afterwards.
StampIsTrue ==
    version > 0 => {f[1] : f \in {g \in Described(version) : g[2] = "base"}}
                    \subseteq {f[1] : f \in {g \in has : g[2] = "base"}}
===============================================================================
