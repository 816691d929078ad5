----------------------------- MODULE MCStartup ------------------------------
(***************************************************************************)
(* Small instances of Startup for TLC.                                     *)
(***************************************************************************)
EXTENDS Startup

CONSTANTS a, b

MCValues == {"", "root", " root ", "other", "old", " old ", "new", "host1",
             " host1", "host2", "postgres", "https", "short", "secret", "20",
             "many"}

MCTrim ==
    [v \in MCValues |-> CASE v = " root " -> "root" [] v = " old " -> "old"
                          [] v = " host1" -> "host1" [] OTHER -> v]

With(e, name, value) == [e EXCEPT ![name] = value]

\* One deployment's environment.
Root == [v \in Variables |->
           CASE v = "BLOG_BIND_ADDR" -> "host1"
             [] v = "BLOG_DATABASE_URL" -> "postgres"
             [] v = "BLOG_BASE_URL" -> "https"
             [] v = "BLOG_SESSION_SECRET" -> "secret"
             [] v = "BLOG_TITLE" -> "root"
             [] v = "ADMIN_USERNAME" -> "root"
             [] v = "ADMIN_PASSWORD" -> "old"
             [] OTHER -> Missing]

\* The same after its password was changed; another replica of it, with the
\* same credentials amid white space and the database URL in the other variable;
\* another administrator.
Rotated == With(Root, "ADMIN_PASSWORD", "new")
Replica == [Root EXCEPT !["BLOG_BIND_ADDR"] = Missing,
                        !["BLOG_DATABASE_URL"] = Missing,
                        !["DATABASE_URL"] = "postgres",
                        !["BLOG_RSS_LIMIT"] = "20",
                        !["ADMIN_USERNAME"] = " root ",
                        !["ADMIN_PASSWORD"] = " old "]
Other == With(Root, "ADMIN_USERNAME", "other")

\* One variable is not what it should be.
Refused == {With(Root, "BLOG_BIND_ADDR", " host1"),
            With(With(Root, "BLOG_DATABASE_URL", ""), "DATABASE_URL", "postgres"),
            With(Root, "BLOG_DATABASE_URL", Missing),
            With(Root, "BLOG_BASE_URL", "short"),
            With(Root, "BLOG_SESSION_SECRET", "short"),
            With(Root, "BLOG_TITLE", Missing),
            With(Root, "BLOG_RSS_LIMIT", "many"),
            With(Root, "BLOG_RSS_LIMIT", ""),
            With(Root, "ADMIN_USERNAME", ""),
            With(Root, "ADMIN_PASSWORD", Missing)}

AllEnvs == {Root, Rotated, Replica, Other} \cup Refused
Replicas == {Root, Replica}
=============================================================================
