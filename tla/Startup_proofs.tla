---------------------------- MODULE Startup_proofs ----------------------------
(***************************************************************************)
(* For any number of processes, any environments and any number of starts: *)
(* the safety properties of Startup, from one inductive invariant.         *)
(*                                                                         *)
(* The invariant says what the migration lock stands for: its holder is    *)
(* the one process between reading the table of applied versions and       *)
(* releasing the lock, so what it found missing is what is still missing.  *)
(* Everything after the lock rests on the whole schema, everything after   *)
(* the seeding on a row that nobody takes away.                            *)
(***************************************************************************)
EXTENDS Startup, TLAPS

LockIsHeld == \A p \in Procs : lock = p <=> pc[p] \in {"list", "apply"}

TodoIsMissing ==
    \A p \in Procs :
        pc[p] = "apply" => todo[p] = {m \in Migrations : m > Len(applied)}

SchemaBehind ==
    \A p \in Procs :
        pc[p] \in {"check", "insert", "bind", "serving"} => Len(applied) = 3

AdminBehind ==
    /\ \A p \in Procs : pc[p] \in {"bind", "serving"} => AdminExists
    /\ \A p \in late : AdminExists /\ pc[p] # "insert"

EnvConfigured ==
    \A p \in Procs :
        pc[p] \in Booting \cup {"serving"} => env[p] \in Envs /\ Configured(env[p])

IInv ==
    /\ TypeOK /\ MigratedOnce
    /\ LockIsHeld /\ TodoIsMissing /\ SchemaBehind /\ AdminBehind /\ EnvConfigured

----------------------------------------------------------------------------

\* An environment that validates names an administrator who can be typed.
LEMMA ConfiguredTypable ==
    ASSUME NEW e \in Envs, Configured(e)
    PROVE  Username(e) \in Typable /\ Password(e) \in Typable
<1>1. /\ e["ADMIN_USERNAME"] \in Values \cup {Missing}
      /\ e["ADMIN_PASSWORD"] \in Values \cup {Missing}
  BY ValuesAssumption DEF Variables
<1> QED
  BY <1>1, ValuesAssumption
     DEF Configured, Username, Password, ReadRequired, Given, Typable

\* A row is there for ever.
LEMMA SeedRowKeeps ==
    ASSUME NEW p \in Procs, TypeOK, EnvConfigured, pc[p] = "insert", SeedRow(p)
    PROVE  /\ admins' \in [Values -> Typable \cup {Nobody}]
           /\ \A u \in Values \ Typable : admins'[u] = Nobody
           /\ AdminExists'
           /\ \A u \in Values : admins[u] # Nobody => admins'[u] = admins[u]
<1> DEFINE U == Username(env[p])  P == Password(env[p])
<1>1. U \in Typable /\ P \in Typable
  BY ConfiguredTypable DEF EnvConfigured, Booting
<1>2. U \in Values /\ P \in Values /\ P # Nobody
  BY <1>1, ValuesAssumption DEF Typable
<1>3. admins \in [Values -> Typable \cup {Nobody}]
  BY DEF TypeOK
<1>4. admins[U] = Nobody /\ admins' = [admins EXCEPT ![U] = P]
  BY DEF SeedRow
<1> HIDE DEF U, P
<1>5. admins'[U] = P
  BY <1>2, <1>3, <1>4
<1>6. \A u \in Values : u # U => admins'[u] = admins[u]
  BY <1>2, <1>3, <1>4
<1>7. admins' \in [Values -> Typable \cup {Nobody}]
  BY <1>1, <1>2, <1>3, <1>4
<1>8. AdminExists'
  BY <1>2, <1>5 DEF AdminExists
<1> QED
  BY <1>1, <1>2, <1>4, <1>6, <1>7, <1>8 DEF TypeOK

\* The next missing version is the one after the last applied.
LEMMA NextInOrder ==
    ASSUME IInv, NEW p \in Procs, pc[p] = "apply",
           NEW m \in Migrations, IsNext(p, m), applied' = Append(applied, m)
    PROVE  /\ m = Len(applied) + 1
           /\ applied' \in Seq(Migrations)
           /\ Len(applied') = Len(applied) + 1
           /\ MigratedOnce'
<1>1. applied \in Seq(Migrations)
  BY DEF IInv, TypeOK
<1>2. todo[p] = {n \in Migrations : n > Len(applied)}
  BY DEF IInv, TodoIsMissing
<1>3. m > Len(applied) /\ Len(applied) \in Nat /\ m \in 1 .. 3
  BY <1>1, <1>2 DEF IsNext, Migrations
<1>4. m = Len(applied) + 1
  <2>1. Len(applied) + 1 \in todo[p]
    BY <1>2, <1>3 DEF Migrations
  <2> QED
    BY <2>1, <1>3 DEF IsNext
<1>5. applied' \in Seq(Migrations) /\ Len(applied') = Len(applied) + 1
  BY <1>1
<1>6. \A i \in DOMAIN applied' : applied'[i] = i
  <2> SUFFICES ASSUME NEW i \in DOMAIN applied' PROVE applied'[i] = i
    OBVIOUS
  <2>1. i \in 1 .. Len(applied) + 1
    BY <1>5
  <2>2. CASE i = Len(applied) + 1
    BY <2>2, <1>1, <1>4
  <2>3. CASE i \in 1 .. Len(applied)
    BY <2>3, <1>1 DEF IInv, MigratedOnce
  <2> QED
    BY <2>1, <2>2, <2>3, <1>3
<1> QED
  BY <1>4, <1>5, <1>6 DEF MigratedOnce

----------------------------------------------------------------------------

LEMMA InitInv == Init => IInv
<1> SUFFICES ASSUME Init PROVE IInv
  OBVIOUS
<1>1. \A u \in Values : admins[u] = Nobody
  BY DEF Init
<1>2. TypeOK
  BY <1>1, ProcsAssumption DEF Init, TypeOK, Places
<1> QED
  BY <1>2, ProcsAssumption
     DEF Init, IInv, MigratedOnce, LockIsHeld, TodoIsMissing, SchemaBehind,
         AdminBehind, EnvConfigured, Booting

\* Steps that move one process and change neither the database nor what the
\* process knows.
LEMMA MoveInv ==
    ASSUME IInv, NEW p \in Procs, NEW place \in Places, Goto(p, place),
           SameDb, SameProcess,
           pc[p] \in Booting,
           pc[p] \notin {"list", "apply"}, place \notin {"list", "apply"},
           place \in {"check", "insert", "bind", "serving"} => Len(applied) = 3,
           place \in {"bind", "serving"} => AdminExists,
           place = "insert" => ~AdminExists
    PROVE  IInv'
<1> USE DEF Goto, SameDb, SameProcess
<1>1. pc' \in [Procs -> Places] /\ pc'[p] = place
      /\ \A q \in Procs : q # p => pc'[q] = pc[q]
  BY DEF IInv, TypeOK
<1>2. TypeOK'
  BY <1>1 DEF IInv, TypeOK
<1>3. MigratedOnce' /\ LockIsHeld' /\ TodoIsMissing' /\ SchemaBehind'
  BY <1>1 DEF IInv, MigratedOnce, LockIsHeld, TodoIsMissing, SchemaBehind
<1>4. AdminExists' <=> AdminExists
  BY DEF AdminExists
<1>5. AdminBehind'
  BY <1>1, <1>4 DEF IInv, AdminBehind, TypeOK
<1>6. EnvConfigured'
  BY <1>1 DEF IInv, EnvConfigured
<1> QED
  BY <1>2, <1>3, <1>5, <1>6 DEF IInv

LEMMA StartInv ==
    ASSUME IInv, NEW p \in Procs, Start(p)
    PROVE  IInv'
<1>1. PICK e \in Envs :
          /\ env' = [env EXCEPT ![p] = e]
          /\ Goto(p, IF Configured(e) THEN "connect" ELSE "exited")
  BY DEF Start
<1>2. /\ pc[p] \in {"off", "exited"}
      /\ pc' \in [Procs -> Places]
      /\ pc'[p] \in {"connect", "exited"}
      /\ pc'[p] = "connect" => Configured(e)
      /\ \A q \in Procs : q # p => pc'[q] = pc[q]
  BY <1>1 DEF Start, Goto, IInv, TypeOK, Places, Booting
<1>3. /\ env' \in [Procs -> Envs \cup {NoEnv}] /\ env'[p] = e
      /\ \A q \in Procs : q # p => env'[q] = env[q]
  BY <1>1 DEF IInv, TypeOK
<1>4. applied' = applied /\ lock' = lock /\ admins' = admins /\ todo' = todo
  BY DEF Start, SameDb
<1>5. starts' \in 0 .. MaxStarts
  BY ProcsAssumption DEF Start, IInv, TypeOK
<1>6. late' \subseteq Procs /\ late' \subseteq late \cup {p}
      /\ (p \in late' => AdminExists)
  BY DEF Start, IInv, TypeOK
<1>7. TypeOK'
  BY <1>2, <1>3, <1>4, <1>5, <1>6 DEF IInv, TypeOK
<1>8. MigratedOnce' /\ LockIsHeld' /\ TodoIsMissing' /\ SchemaBehind'
  BY <1>2, <1>4 DEF IInv, MigratedOnce, LockIsHeld, TodoIsMissing, SchemaBehind
<1>9. AdminExists' <=> AdminExists
  BY <1>4 DEF AdminExists
<1>10. AdminBehind'
  BY <1>2, <1>6, <1>9 DEF IInv, AdminBehind, TypeOK
<1>11. EnvConfigured'
  BY <1>2, <1>3 DEF IInv, EnvConfigured, Booting
<1> QED
  BY <1>7, <1>8, <1>10, <1>11 DEF IInv

LEMMA LockInv ==
    ASSUME IInv, NEW p \in Procs, LockMigrations(p)
    PROVE  IInv'
<1>1. /\ pc[p] = "lock" /\ lock = Nobody /\ lock' = p
      /\ pc' \in [Procs -> Places] /\ pc'[p] = "list"
      /\ \A q \in Procs : q # p => pc'[q] = pc[q]
      /\ UNCHANGED <<applied, admins, env, todo, late, starts>>
  BY DEF LockMigrations, Goto, SameProcess, IInv, TypeOK, Places, Booting
<1>2. \A q \in Procs : pc[q] \notin {"list", "apply"}
  BY <1>1, ProcsAssumption DEF IInv, LockIsHeld
<1>3. TypeOK'
  BY <1>1 DEF IInv, TypeOK
<1>4. MigratedOnce' /\ LockIsHeld' /\ TodoIsMissing' /\ SchemaBehind'
  BY <1>1, <1>2 DEF IInv, MigratedOnce, LockIsHeld, TodoIsMissing, SchemaBehind
<1>5. AdminExists' <=> AdminExists
  BY <1>1 DEF AdminExists
<1>6. AdminBehind'
  BY <1>1, <1>5 DEF IInv, AdminBehind, TypeOK
<1>7. EnvConfigured'
  BY <1>1 DEF IInv, EnvConfigured, Booting
<1> QED
  BY <1>3, <1>4, <1>6, <1>7 DEF IInv

LEMMA ListInv ==
    ASSUME IInv, NEW p \in Procs, ListMigrations(p)
    PROVE  IInv'
<1>1. /\ pc[p] = "list"
      /\ pc' \in [Procs -> Places] /\ pc'[p] = "apply"
      /\ \A q \in Procs : q # p => pc'[q] = pc[q]
      /\ todo' = [todo EXCEPT ![p] = Migrations \ {applied[i] : i \in DOMAIN applied}]
      /\ UNCHANGED <<applied, lock, admins, env, late, starts>>
  BY DEF ListMigrations, Goto, SameDb, IInv, TypeOK, Places, Booting
<1>2. /\ todo' \in [Procs -> SUBSET Migrations]
      /\ todo'[p] = Migrations \ {applied[i] : i \in DOMAIN applied}
      /\ \A q \in Procs : q # p => todo'[q] = todo[q]
  BY <1>1 DEF IInv, TypeOK
<1>3. todo'[p] = {m \in Migrations : m > Len(applied)}
  <2>1. applied \in Seq(Migrations) /\ \A i \in DOMAIN applied : applied[i] = i
    BY DEF IInv, TypeOK, MigratedOnce
  <2>2. DOMAIN applied = 1 .. Len(applied) /\ Len(applied) \in Nat
    BY <2>1
  <2> DEFINE n == Len(applied)  done == {applied[i] : i \in DOMAIN applied}
  <2>3. \A m : m \in done <=> m \in 1 .. n
    BY <2>1, <2>2
  <2>4. todo'[p] = Migrations \ done /\ n \in Nat
    BY <1>2, <2>2
  <2> HIDE DEF n, done
  <2>5. todo'[p] = {m \in Migrations : m > n}
    BY <2>3, <2>4 DEF Migrations
  <2> QED
    BY <2>5 DEF n
<1>4. TypeOK'
  BY <1>1, <1>2 DEF IInv, TypeOK
<1>5. MigratedOnce' /\ LockIsHeld' /\ TodoIsMissing' /\ SchemaBehind'
  BY <1>1, <1>2, <1>3
     DEF IInv, MigratedOnce, LockIsHeld, TodoIsMissing, SchemaBehind
<1>6. AdminExists' <=> AdminExists
  BY <1>1 DEF AdminExists
<1>7. AdminBehind'
  BY <1>1, <1>6 DEF IInv, AdminBehind, TypeOK
<1>8. EnvConfigured'
  BY <1>1 DEF IInv, EnvConfigured, Booting
<1> QED
  BY <1>4, <1>5, <1>7, <1>8 DEF IInv

\* Only the holder of the lock is behind it.
LEMMA OneApplies ==
    ASSUME IInv, NEW p \in Procs, pc[p] = "apply"
    PROVE  /\ lock = p
           /\ \A q \in Procs : q # p => pc[q] \notin {"list", "apply"}
BY DEF IInv, LockIsHeld

LEMMA ApplyInv ==
    ASSUME IInv, NEW p \in Procs, ApplyMigration(p)
    PROVE  IInv'
<1>1. PICK m \in Migrations :
          /\ IsNext(p, m) /\ applied' = Append(applied, m)
          /\ todo' = [todo EXCEPT ![p] = @ \ {m}]
  BY DEF ApplyMigration
<1>2. pc[p] = "apply" /\ UNCHANGED <<lock, admins, pc, env, late, starts>>
  BY DEF ApplyMigration
<1>3. /\ m = Len(applied) + 1 /\ applied' \in Seq(Migrations)
      /\ Len(applied') = Len(applied) + 1 /\ MigratedOnce'
  BY <1>1, <1>2, NextInOrder
<1>4. applied \in Seq(Migrations) /\ Len(applied) \in Nat /\ m \in 1 .. 3
  BY DEF IInv, TypeOK, Migrations
<1>5. /\ todo' \in [Procs -> SUBSET Migrations]
      /\ todo'[p] = todo[p] \ {m}
      /\ \A q \in Procs : q # p => todo'[q] = todo[q]
  BY <1>1 DEF IInv, TypeOK
<1>6. TypeOK'
  BY <1>2, <1>3, <1>5 DEF IInv, TypeOK
<1>7. TodoIsMissing'
  <2>1. todo[p] = {n \in Migrations : n > Len(applied)}
    BY <1>2 DEF IInv, TodoIsMissing
  <2>2. todo'[p] = {n \in Migrations : n > Len(applied')}
    BY <2>1, <1>3, <1>4, <1>5 DEF Migrations
  <2> QED
    BY <2>2, <1>2, OneApplies DEF TodoIsMissing
<1>8. SchemaBehind'
  BY <1>2, <1>3, <1>4 DEF IInv, SchemaBehind
<1>9. LockIsHeld' /\ EnvConfigured'
  BY <1>2 DEF IInv, LockIsHeld, EnvConfigured
<1>10. AdminBehind'
  BY <1>2 DEF IInv, AdminBehind, AdminExists
<1> QED
  BY <1>3, <1>6, <1>7, <1>8, <1>9, <1>10 DEF IInv

LEMMA UnlockInv ==
    ASSUME IInv, NEW p \in Procs, UnlockMigrations(p)
    PROVE  IInv'
<1>1. /\ pc[p] = "apply" /\ todo[p] = {} /\ lock' = Nobody
      /\ pc' \in [Procs -> Places] /\ pc'[p] = "check"
      /\ \A q \in Procs : q # p => pc'[q] = pc[q]
      /\ UNCHANGED <<applied, admins, env, todo, late, starts>>
  BY DEF UnlockMigrations, Goto, SameProcess, IInv, TypeOK, Places, Booting
<1>2. TypeOK'
  BY <1>1 DEF IInv, TypeOK
<1>3. Len(applied) = 3
  <2> DEFINE n == Len(applied)
  <2>1. applied \in Seq(Migrations) /\ todo[p] = {m \in Migrations : m > n}
    BY <1>1 DEF IInv, TypeOK, TodoIsMissing
  <2>2. n \in Nat /\ DOMAIN applied = 1 .. n
    BY <2>1
  <2>3. \A i \in 1 .. n : i \in 1 .. 3
    BY <2>1, <2>2 DEF IInv, MigratedOnce, Migrations
  <2> HIDE DEF n
  <2>4. ~(3 > n)
    BY <2>1, <2>2, <1>1 DEF Migrations
  <2>5. n = 3
    BY <2>2, <2>3, <2>4
  <2> QED
    BY <2>5 DEF n
<1>4. LockIsHeld'
  BY <1>1, OneApplies, ProcsAssumption DEF IInv, LockIsHeld
<1>5. MigratedOnce' /\ TodoIsMissing' /\ SchemaBehind'
  BY <1>1, <1>3 DEF IInv, MigratedOnce, TodoIsMissing, SchemaBehind
<1>6. AdminExists' <=> AdminExists
  BY <1>1 DEF AdminExists
<1>7. AdminBehind'
  BY <1>1, <1>6 DEF IInv, AdminBehind, TypeOK
<1>8. EnvConfigured'
  BY <1>1 DEF IInv, EnvConfigured, Booting
<1> QED
  BY <1>2, <1>4, <1>5, <1>7, <1>8 DEF IInv

LEMMA InsertInv ==
    ASSUME IInv, NEW p \in Procs, InsertAdmin(p)
    PROVE  IInv'
<1>1. /\ pc[p] = "insert" /\ SeedRow(p)
      /\ pc' \in [Procs -> Places] /\ pc'[p] = "bind"
      /\ \A q \in Procs : q # p => pc'[q] = pc[q]
      /\ UNCHANGED <<applied, lock, env, todo, late, starts>>
  BY DEF InsertAdmin, Goto, SameProcess, IInv, TypeOK, Places, Booting
<1>2. /\ admins' \in [Values -> Typable \cup {Nobody}]
      /\ \A u \in Values \ Typable : admins'[u] = Nobody
      /\ AdminExists'
  BY <1>1, SeedRowKeeps DEF IInv
<1>3. TypeOK'
  BY <1>1, <1>2 DEF IInv, TypeOK
<1>4. MigratedOnce' /\ LockIsHeld' /\ TodoIsMissing' /\ SchemaBehind'
  BY <1>1 DEF IInv, MigratedOnce, LockIsHeld, TodoIsMissing, SchemaBehind
<1>5. AdminBehind'
  BY <1>1, <1>2 DEF IInv, AdminBehind, TypeOK
<1>6. EnvConfigured'
  BY <1>1 DEF IInv, EnvConfigured, Booting
<1> QED
  BY <1>3, <1>4, <1>5, <1>6 DEF IInv

----------------------------------------------------------------------------
(* Processes that are cut off.                                             *)

\* What stopping p does, when the versions and the rows may have grown.
LEMMA StopKeeps ==
    ASSUME IInv, NEW p \in Procs, Goto(p, "off"), Release(p), SameProcess
    PROVE  /\ pc' \in [Procs -> Places] /\ pc'[p] = "off"
           /\ \A q \in Procs : q # p => pc'[q] = pc[q]
           /\ LockIsHeld' /\ EnvConfigured'
           /\ lock' \in Procs \cup {Nobody}
<1>1. /\ pc' \in [Procs -> Places] /\ pc'[p] = "off"
      /\ \A q \in Procs : q # p => pc'[q] = pc[q]
  BY DEF Goto, IInv, TypeOK, Places
<1>2. lock' \in Procs \cup {Nobody}
  BY DEF Release, IInv, TypeOK
<1>3. LockIsHeld'
  BY <1>1, ProcsAssumption DEF Release, IInv, LockIsHeld, TypeOK
<1>4. EnvConfigured'
  BY <1>1 DEF SameProcess, IInv, EnvConfigured, Booting
<1> QED
  BY <1>1, <1>2, <1>3, <1>4

LEMMA StopInv ==
    ASSUME IInv, NEW p \in Procs, Stop(p)
    PROVE  IInv'
<1>1. Goto(p, "off") /\ Release(p) /\ SameProcess /\ UNCHANGED <<applied, admins>>
  BY DEF Stop
<1>2. /\ pc' \in [Procs -> Places] /\ pc'[p] = "off"
      /\ \A q \in Procs : q # p => pc'[q] = pc[q]
      /\ LockIsHeld' /\ EnvConfigured'
      /\ lock' \in Procs \cup {Nobody}
  BY <1>1, StopKeeps
<1>3. TypeOK'
  BY <1>1, <1>2 DEF IInv, TypeOK, SameProcess
<1>4. MigratedOnce' /\ TodoIsMissing' /\ SchemaBehind'
  BY <1>1, <1>2 DEF IInv, MigratedOnce, TodoIsMissing, SchemaBehind, SameProcess
<1>5. AdminExists' <=> AdminExists
  BY <1>1 DEF AdminExists
<1>6. AdminBehind'
  BY <1>1, <1>2, <1>5 DEF IInv, AdminBehind, TypeOK, SameProcess
<1> QED
  BY <1>2, <1>3, <1>4, <1>6 DEF IInv

LEMMA StopAfterMigrationInv ==
    ASSUME IInv, NEW p \in Procs, StopAfterMigration(p)
    PROVE  IInv'
<1>1. PICK m \in Migrations : IsNext(p, m) /\ applied' = Append(applied, m)
  BY DEF StopAfterMigration
<1>2. /\ pc[p] = "apply" /\ Goto(p, "off") /\ Release(p) /\ SameProcess
      /\ admins' = admins
  BY DEF StopAfterMigration
<1>3. /\ m = Len(applied) + 1 /\ applied' \in Seq(Migrations)
      /\ Len(applied') = Len(applied) + 1 /\ MigratedOnce'
  BY <1>1, <1>2, NextInOrder
<1>4. /\ pc' \in [Procs -> Places] /\ pc'[p] = "off"
      /\ \A q \in Procs : q # p => pc'[q] = pc[q]
      /\ LockIsHeld' /\ EnvConfigured'
      /\ lock' \in Procs \cup {Nobody}
  BY <1>2, StopKeeps
<1>5. TypeOK'
  BY <1>2, <1>3, <1>4 DEF IInv, TypeOK, SameProcess
<1>6. TodoIsMissing'
  BY <1>2, <1>4, OneApplies DEF TodoIsMissing
<1>7. Len(applied) # 3
  BY <1>3 DEF Migrations
<1>8. SchemaBehind'
  BY <1>4, <1>7 DEF IInv, SchemaBehind
<1>9. AdminExists' <=> AdminExists
  BY <1>2 DEF AdminExists
<1>10. AdminBehind'
  BY <1>2, <1>4, <1>9 DEF IInv, AdminBehind, TypeOK, SameProcess
<1> QED
  BY <1>3, <1>4, <1>5, <1>6, <1>8, <1>10 DEF IInv

LEMMA StopAfterInsertInv ==
    ASSUME IInv, NEW p \in Procs, StopAfterInsert(p)
    PROVE  IInv'
<1>1. /\ pc[p] = "insert" /\ SeedRow(p) /\ Goto(p, "off") /\ Release(p)
      /\ SameProcess /\ applied' = applied
  BY DEF StopAfterInsert
<1>2. /\ admins' \in [Values -> Typable \cup {Nobody}]
      /\ \A u \in Values \ Typable : admins'[u] = Nobody
      /\ AdminExists'
  BY <1>1, SeedRowKeeps DEF IInv
<1>3. /\ pc' \in [Procs -> Places] /\ pc'[p] = "off"
      /\ \A q \in Procs : q # p => pc'[q] = pc[q]
      /\ LockIsHeld' /\ EnvConfigured'
      /\ lock' \in Procs \cup {Nobody}
  BY <1>1, StopKeeps
<1>4. TypeOK'
  BY <1>1, <1>2, <1>3 DEF IInv, TypeOK, SameProcess
<1>5. MigratedOnce' /\ TodoIsMissing' /\ SchemaBehind'
  BY <1>1, <1>3 DEF IInv, MigratedOnce, TodoIsMissing, SchemaBehind, SameProcess
<1>6. AdminBehind'
  BY <1>1, <1>2, <1>3 DEF IInv, AdminBehind, TypeOK, SameProcess
<1> QED
  BY <1>3, <1>4, <1>5, <1>6 DEF IInv

----------------------------------------------------------------------------

LEMMA NextInv == IInv /\ [Next]_vars => IInv'
<1> SUFFICES ASSUME IInv, [Next]_vars PROVE IInv'
  OBVIOUS
<1>1. CASE UNCHANGED vars
  BY <1>1 DEF vars, IInv, TypeOK, MigratedOnce, LockIsHeld, TodoIsMissing,
              SchemaBehind, AdminBehind, EnvConfigured, AdminExists
<1>2. CASE Next
  <2> PICK p \in Procs :
        \/ Start(p) \/ ConnectRefusesTls(p) \/ Step(p)
        \/ Stop(p) \/ StopAfterMigration(p) \/ StopAfterInsert(p)
    BY <1>2 DEF Next
  <2>1. CASE Start(p)
    BY <2>1, StartInv
  <2>2. CASE ConnectRefusesTls(p)
    BY <2>2, MoveInv DEF ConnectRefusesTls, Places, Booting
  <2>3. CASE Connect(p)
    BY <2>3, MoveInv DEF Connect, Places, Booting
  <2>4. CASE ConnectPlain(p)
    BY <2>4, MoveInv DEF ConnectPlain, Places, Booting
  <2>5. CASE Ping(p)
    BY <2>5, MoveInv DEF Ping, Places, Booting
  <2>6. CASE LockMigrations(p)
    BY <2>6, LockInv
  <2>7. CASE ListMigrations(p)
    BY <2>7, ListInv
  <2>8. CASE ApplyMigration(p)
    BY <2>8, ApplyInv
  <2>9. CASE UnlockMigrations(p)
    BY <2>9, UnlockInv
  <2>10. CASE CheckAdmins(p)
    <3>1. Len(applied) = 3
      BY <2>10 DEF CheckAdmins, IInv, SchemaBehind
    <3>2. CASE AdminExists
      BY <2>10, <3>1, <3>2, MoveInv DEF CheckAdmins, Places, Booting
    <3>3. CASE ~AdminExists
      BY <2>10, <3>1, <3>3, MoveInv DEF CheckAdmins, Places, Booting
    <3> QED
      BY <3>2, <3>3
  <2>11. CASE InsertAdmin(p)
    BY <2>11, InsertInv
  <2>12. CASE InsertTaken(p)
    BY <2>12, MoveInv DEF InsertTaken, Places, Booting
  <2>13. CASE Bind(p)
    <3>1. Len(applied) = 3 /\ AdminExists
      BY <2>13 DEF Bind, IInv, SchemaBehind, AdminBehind
    <3>2. PICK place \in {"exited", "serving"} : Goto(p, place)
      BY <2>13 DEF Bind
    <3> QED
      BY <2>13, <3>1, <3>2, MoveInv DEF Bind, Places, Booting
  <2>14. CASE Stop(p)
    BY <2>14, StopInv
  <2>15. CASE StopAfterMigration(p)
    BY <2>15, StopAfterMigrationInv
  <2>16. CASE StopAfterInsert(p)
    BY <2>16, StopAfterInsertInv
  <2> QED
    BY <2>1, <2>2, <2>3, <2>4, <2>5, <2>6, <2>7, <2>8, <2>9, <2>10, <2>11,
       <2>12, <2>13, <2>14, <2>15, <2>16 DEF Step
<1> QED
  BY <1>1, <1>2

LEMMA Invariant == Spec => []IInv
BY InitInv, NextInv, PTL DEF Spec

----------------------------------------------------------------------------

\* The variables keep their types, whatever the environments: no row has a
\* name or a password that nobody can type.
THEOREM BootsTypeCorrect == Spec => []TypeOK
<1>1. IInv => TypeOK
  BY DEF IInv
<1> QED
  BY <1>1, Invariant, PTL

\* run_migrations under the lock: in order and once, for any number of boots.
THEOREM SchemaMigratedOnce == Spec => []MigratedOnce
<1>1. IInv => MigratedOnce
  BY DEF IInv
<1> QED
  BY <1>1, Invariant, PTL

\* What serves has its schema and an admin, whoever else boots or is cut off.
THEOREM ServesWhenReady == Spec => []ServingReady
<1>1. IInv => ServingReady
  <2> SUFFICES ASSUME IInv, NEW p \in Procs, pc[p] = "serving"
               PROVE  /\ \A m \in Migrations : \E i \in DOMAIN applied : applied[i] = m
                      /\ AdminExists
    BY DEF ServingReady
  <2>1. Len(applied) = 3 /\ applied \in Seq(Migrations) /\ AdminExists
    BY DEF IInv, SchemaBehind, AdminBehind, TypeOK
  <2>2. DOMAIN applied = 1 .. 3 /\ \A i \in DOMAIN applied : applied[i] = i
    BY <2>1 DEF IInv, MigratedOnce
  <2> QED
    BY <2>1, <2>2 DEF Migrations
<1> QED
  BY <1>1, Invariant, PTL

\* The race of seed_admin is with boots that overlap the first one only.
THEOREM LateBootsNeverSeed == Spec => []LateBootsSeedNothing
<1>1. IInv => LateBootsSeedNothing
  BY DEF IInv, AdminBehind, LateBootsSeedNothing
<1> QED
  BY <1>1, Invariant, PTL

\* No boot replaces the password of an admin.
THEOREM CredentialsStay == Spec => CredentialsKept
<1> DEFINE Kept == \A u \in Values : admins[u] # Nobody => admins'[u] = admins[u]
<1>1. IInv /\ [Next]_vars => [Kept]_vars
  <2> SUFFICES ASSUME IInv, Next PROVE Kept
    OBVIOUS
  <2> PICK p \in Procs :
        \/ Start(p) \/ ConnectRefusesTls(p) \/ Step(p)
        \/ Stop(p) \/ StopAfterMigration(p) \/ StopAfterInsert(p)
    BY DEF Next
  <2>1. CASE InsertAdmin(p)
    BY <2>1, SeedRowKeeps DEF InsertAdmin, IInv
  <2>2. CASE StopAfterInsert(p)
    BY <2>2, SeedRowKeeps DEF StopAfterInsert, IInv
  <2>3. CASE ~InsertAdmin(p) /\ ~StopAfterInsert(p)
    <3>1. admins' = admins
      BY <2>3 DEF Start, ConnectRefusesTls, Step, Connect, ConnectPlain, Ping,
                  LockMigrations, ListMigrations, ApplyMigration,
                  UnlockMigrations, CheckAdmins, InsertTaken, Bind, Stop,
                  StopAfterMigration, SameDb
    <3> QED
      BY <3>1
  <2> QED
    BY <2>1, <2>2, <2>3
<1> QED
  BY <1>1, Invariant, PTL DEF Spec, CredentialsKept
=============================================================================
