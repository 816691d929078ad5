------------------------------ MODULE Startup -------------------------------
(***************************************************************************)
(* main(): processes of the blog booting against one PostgreSQL database,  *)
(* concurrently and again after they stopped.  A process loads its         *)
(* configuration, connects (once more without TLS when the server does not *)
(* understand the TLS request), pings, runs the embedded migrations, seeds *)
(* the first admin, binds its address and serves.  pc names the call it is *)
(* about to make.                                                          *)
(*                                                                         *)
(* applied is the table _sqlx_migrations and lock the advisory lock that   *)
(* sqlx's migrator holds on its connection; the migrator itself is library *)
(* code, modelled from db::run_migrations and the files in migrations/.    *)
(***************************************************************************)
EXTENDS Naturals, Sequences

CONSTANTS
    Procs,       \* the processes
    Values,      \* values of environment variables
    Missing,     \* "the variable is not set"
    Blank,       \* the value that is empty once it is trimmed
    Trim,        \* Trim[v]: v without the white space around it
    Addrs,       \* values that are a socket address
    Urls,        \* ... a URL
    Sizes,       \* ... an unsigned number
    Long,        \* ... at least 32 bytes long
    DefaultAddr, \* 0.0.0.0:8080
    Envs,        \* the environments a process may be started with
    NoEnv,       \* "not started yet"
    Nobody,      \* "no holder", "no row"
    MaxStarts    \* bound: how often processes are started in one behaviour

\* What Config::from_env reads.
Variables == {"BLOG_BIND_ADDR", "BLOG_DATABASE_URL", "DATABASE_URL",
              "BLOG_BASE_URL", "BLOG_SESSION_SECRET", "BLOG_TITLE",
              "BLOG_RSS_LIMIT", "ADMIN_USERNAME", "ADMIN_PASSWORD"}

ASSUME ValuesAssumption ==
    /\ Blank \in Values /\ Missing \notin Values
    /\ Nobody \notin Values /\ DefaultAddr \in Addrs
    /\ Trim \in [Values -> Values] /\ \A v \in Values : Trim[Trim[v]] = Trim[v]
    /\ Envs \subseteq [Variables -> Values \cup {Missing}]
ASSUME ProcsAssumption == Nobody \notin Procs /\ MaxStarts \in Nat

VARIABLES
    applied,  \* versions in the order they were applied
    lock,     \* holder of the migration lock
    admins,   \* admins[u]: the password hashed in the row of user u
    pc,       \* where each process is
    env,      \* the environment each process was last started with
    todo,     \* the migrations a process found missing
    late,     \* history: processes whose boot began after a row was there
    starts    \* number of starts so far

vars == <<applied, lock, admins, pc, env, todo, late, starts>>

\* admins, posts, tags and post_tags, in the order of the files' timestamps.
Migrations == 1 .. 3

----------------------------------------------------------------------------
(* Config::from_env: the value of each variable, Missing or Blank when it  *)
(* is refused.                                                             *)

\* Faulty variant: the value is taken as it is
ReadRequiredUntrimmed(e, name) == e[name]

ReadRequired(e, name) == IF e[name] = Missing THEN Missing ELSE Trim[e[name]]

Given(v) == v \notin {Missing, Blank}

\* The fallback is for a variable that is not set, not for one left blank.
DatabaseUrl(e) ==
    LET primary == ReadRequired(e, "BLOG_DATABASE_URL")
    IN IF primary = Missing THEN ReadRequired(e, "DATABASE_URL") ELSE primary

\* Not trimmed.
BindAddr(e) ==
    IF e["BLOG_BIND_ADDR"] = Missing THEN DefaultAddr ELSE e["BLOG_BIND_ADDR"]

MinLength(e, name) == ReadRequired(e, name) \in Long

Url(e, name) == ReadRequired(e, name) \in Urls

SizeOrDefault(e, name) == e[name] # Missing => ReadRequired(e, name) \in Sizes

Configured(e) ==
    /\ BindAddr(e) \in Addrs
    /\ Given(DatabaseUrl(e))
    /\ Url(e, "BLOG_BASE_URL")
    /\ MinLength(e, "BLOG_SESSION_SECRET")
    /\ Given(ReadRequired(e, "BLOG_TITLE"))
    /\ SizeOrDefault(e, "BLOG_RSS_LIMIT")
    /\ Given(ReadRequired(e, "ADMIN_USERNAME"))
    /\ Given(ReadRequired(e, "ADMIN_PASSWORD"))

Username(e) == ReadRequired(e, "ADMIN_USERNAME")
Password(e) == ReadRequired(e, "ADMIN_PASSWORD")

\* A value that can be typed again: there is something, and nothing around it.
Typable == {v \in Values : v # Blank /\ Trim[v] = v}

----------------------------------------------------------------------------

\* off: not started, killed, or a call failed; exited: main returned an
\* error of its own (configuration, username taken, address in use).
Booting == {"connect", "connect_plain", "ping", "lock", "list", "apply",
            "check", "insert", "bind"}
Places == Booting \cup {"off", "exited", "serving"}

Init ==
    /\ applied = <<>>
    /\ lock = Nobody
    /\ admins = [u \in Values |-> Nobody]
    /\ pc = [p \in Procs |-> "off"]
    /\ env = [p \in Procs |-> NoEnv]
    /\ todo = [p \in Procs |-> {}]
    /\ late = {}
    /\ starts = 0

----------------------------------------------------------------------------

Goto(p, place) == pc' = [pc EXCEPT ![p] = place]
SameDb == UNCHANGED <<applied, lock, admins>>
SameProcess == UNCHANGED <<env, todo, late, starts>>

AdminExists == \E u \in Values : admins[u] # Nobody

\* Config::from_env is the first thing main does.
Start(p) ==
    /\ pc[p] \in {"off", "exited"}
    /\ starts < MaxStarts /\ starts' = starts + 1
    /\ \E e \in Envs :
          /\ env' = [env EXCEPT ![p] = e]
          /\ Goto(p, IF Configured(e) THEN "connect" ELSE "exited")
    /\ late' = IF AdminExists THEN late \cup {p} ELSE late \ {p}
    /\ SameDb /\ UNCHANGED todo

Connect(p) ==
    /\ pc[p] = "connect"
    /\ Goto(p, "ping")
    /\ SameDb /\ SameProcess

\* should_retry_without_tls: an unexpected answer to the SSLRequest.
ConnectRefusesTls(p) ==
    /\ pc[p] = "connect"
    /\ Goto(p, "connect_plain")
    /\ SameDb /\ SameProcess

\* Faulty variant: after the retry it starts over
ConnectPlainStartsOver(p) ==
    /\ pc[p] = "connect_plain"
    /\ Goto(p, "connect")
    /\ SameDb /\ SameProcess

ConnectPlain(p) ==
    /\ pc[p] = "connect_plain"
    /\ Goto(p, "ping")
    /\ SameDb /\ SameProcess

\* Faulty variant: migrations do not run at startup
PingSkipsMigrations(p) ==
    /\ pc[p] = "ping"
    /\ Goto(p, "check")
    /\ SameDb /\ SameProcess

Ping(p) ==
    /\ pc[p] = "ping"
    /\ Goto(p, "lock")
    /\ SameDb /\ SameProcess

----------------------------------------------------------------------------
(* run_migrations: under the lock, read what was applied, apply the rest,  *)
(* each migration in a transaction of its own.                             *)

\* Faulty variant: the migrator takes no lock
LockMigrationsNoWait(p) ==
    /\ pc[p] = "lock"
    /\ lock' = p
    /\ Goto(p, "list")
    /\ UNCHANGED <<applied, admins>> /\ SameProcess

LockMigrations(p) ==
    /\ pc[p] = "lock"
    /\ lock = Nobody /\ lock' = p
    /\ Goto(p, "list")
    /\ UNCHANGED <<applied, admins>> /\ SameProcess

ListMigrations(p) ==
    /\ pc[p] = "list"
    /\ todo' = [todo EXCEPT ![p] = Migrations \ {applied[i] : i \in DOMAIN applied}]
    /\ Goto(p, "apply")
    /\ SameDb /\ UNCHANGED <<env, late, starts>>

\* Version m is the next that p found missing.
IsNext(p, m) == m \in todo[p] /\ \A n \in todo[p] : m <= n

ApplyMigration(p) ==
    /\ pc[p] = "apply"
    /\ \E m \in Migrations :
          /\ IsNext(p, m)
          /\ applied' = Append(applied, m)
          /\ todo' = [todo EXCEPT ![p] = @ \ {m}]
    /\ UNCHANGED <<lock, admins, pc, env, late, starts>>

UnlockMigrations(p) ==
    /\ pc[p] = "apply" /\ todo[p] = {}
    /\ lock' = Nobody
    /\ Goto(p, "check")
    /\ UNCHANGED <<applied, admins>> /\ SameProcess

----------------------------------------------------------------------------
(* seed_admin: two statements, neither locks the table.                    *)

\* Faulty variant: the table is not looked at
CheckAdminsIgnoresRows(p) ==
    /\ pc[p] = "check"
    /\ Goto(p, "insert")
    /\ SameDb /\ SameProcess

CheckAdmins(p) ==
    /\ pc[p] = "check"
    /\ Goto(p, IF AdminExists THEN "bind" ELSE "insert")
    /\ SameDb /\ SameProcess

\* Faulty variant: INSERT ... ON CONFLICT DO UPDATE
SeedRowOverwrites(p) ==
    admins' = [admins EXCEPT ![Username(env[p])] = Password(env[p])]

\* The row that seed_admin inserts; it fails on a username that is taken.
SeedRow(p) ==
    /\ admins[Username(env[p])] = Nobody
    /\ admins' = [admins EXCEPT ![Username(env[p])] = Password(env[p])]

InsertAdmin(p) ==
    /\ pc[p] = "insert"
    /\ SeedRow(p)
    /\ Goto(p, "bind")
    /\ UNCHANGED <<applied, lock>> /\ SameProcess

InsertTaken(p) ==
    /\ pc[p] = "insert"
    /\ admins[Username(env[p])] # Nobody
    /\ Goto(p, "exited")
    /\ SameDb /\ SameProcess

\* TcpListener::bind, then axum::serve.
Bind(p) ==
    /\ pc[p] = "bind"
    /\ Goto(p, IF \E q \in Procs : pc[q] = "serving" /\ BindAddr(env[q]) = BindAddr(env[p])
               THEN "exited" ELSE "serving")
    /\ SameDb /\ SameProcess

----------------------------------------------------------------------------
(* A call fails or the process is killed, before or after the statement in *)
(* flight took effect; its connections, and with them the lock, are gone.  *)

Release(p) == lock' = IF lock = p THEN Nobody ELSE lock

Stop(p) ==
    /\ pc[p] \in Booting \cup {"serving"}
    /\ Goto(p, "off")
    /\ Release(p)
    /\ UNCHANGED <<applied, admins>> /\ SameProcess

StopAfterMigration(p) ==
    /\ pc[p] = "apply"
    /\ \E m \in Migrations : IsNext(p, m) /\ applied' = Append(applied, m)
    /\ Goto(p, "off")
    /\ Release(p)
    /\ UNCHANGED admins /\ SameProcess

StopAfterInsert(p) ==
    /\ pc[p] = "insert"
    /\ SeedRow(p)
    /\ Goto(p, "off")
    /\ Release(p)
    /\ UNCHANGED applied /\ SameProcess

----------------------------------------------------------------------------

\* main of p goes on.
Step(p) ==
    \/ Connect(p) \/ ConnectPlain(p) \/ Ping(p)
    \/ LockMigrations(p) \/ ListMigrations(p)
    \/ ApplyMigration(p) \/ UnlockMigrations(p)
    \/ CheckAdmins(p) \/ InsertAdmin(p) \/ InsertTaken(p)
    \/ Bind(p)

Next ==
    \E p \in Procs :
        \/ Start(p) \/ ConnectRefusesTls(p)
        \/ Step(p)
        \/ Stop(p) \/ StopAfterMigration(p) \/ StopAfterInsert(p)

Spec == Init /\ [][Next]_vars

\* A process keeps running while its calls return; the migration lock is
\* granted once its holder is done.
FairSpec == Spec /\ \A p \in Procs : WF_vars(Step(p))

----------------------------------------------------------------------------
(* Properties.                                                             *)

\* Types of the variables; the admins are people who can type their name and
\* password, which is what the rules for the environment are for.
TypeOK ==
    /\ applied \in Seq(Migrations)
    /\ lock \in Procs \cup {Nobody}
    /\ admins \in [Values -> Typable \cup {Nobody}]
    /\ \A u \in Values \ Typable : admins[u] = Nobody
    /\ pc \in [Procs -> Places]
    /\ env \in [Procs -> Envs \cup {NoEnv}]
    /\ todo \in [Procs -> SUBSET Migrations]
    /\ late \subseteq Procs
    /\ starts \in 0 .. MaxStarts

\* The schema is migrated in order and each version once, whatever boots
\* overlap and wherever one of them is cut off.
MigratedOnce == \A i \in DOMAIN applied : applied[i] = i

\* A process that serves has the whole schema and an admin who can log in,
\* also when other boots were cut off or raced with its own.
ServingReady ==
    \A p \in Procs :
        pc[p] = "serving" => /\ \A m \in Migrations : \E i \in DOMAIN applied : applied[i] = m
                             /\ AdminExists

\* README, Admin seeding: "If any admin already exists, the app does not
\* overwrite credentials or create another row": so it is for every boot that
\* begins when there is one, wherever earlier boots were cut off.
LateBootsSeedNothing == \A p \in late : pc[p] # "insert"

\* The credentials of an admin are never replaced by a later or a concurrent
\* boot, whatever its environment says (README, Admin seeding).
CredentialsKept ==
    [][\A u \in Values :
          admins[u] # Nobody => admins'[u] = admins[u]]_vars

\* README, Admin seeding: "If any admin already exists, the app does not
\* overwrite credentials or create another row."  Not so for boots that overlap.
NoSecondAdmin == [][AdminExists => admins' = admins]_vars

\* README, Startup behavior: "If an admin row already exists, seeding is
\* skipped and startup continues normally."  Seeding does not end a boot.
SeedingLetsBootContinue ==
    [][\A p \in Procs : pc[p] = "insert" => pc'[p] # "exited"]_vars

\* Every boot comes to an end: it serves, or it stops; none waits for ever
\* for a migration lock whose holder was cut off.
BootEnds ==
    \A p \in Procs : pc[p] \in Booting ~> pc[p] \in {"off", "exited", "serving"}
=============================================================================
