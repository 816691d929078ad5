------------------------------ MODULE Sessions -------------------------------
(***************************************************************************)
(* Login, logout and the guard in front of the admin pages, of one browser *)
(* with several requests under way.  The session is a signed cookie: the   *)
(* server keeps nothing, the browser keeps what the last answer it         *)
(* received said.  Answers arrive in any order or get lost, the server is  *)
(* restarted, with the same secret or another, and the owner of the        *)
(* database changes a password while a login is being verified.            *)
(*                                                                         *)
(* The session layer is library code, modelled from session_layer and from *)
(* what the handlers ask of it: a request that does not write its session  *)
(* sets no cookie.                                                         *)
(***************************************************************************)
EXTENDS Naturals

CONSTANTS
    Requests,    \* requests the browser sends, each once
    Admins,      \* usernames with a row in admins
    Strangers,   \* other names typed in the login form
    Passwords,
    FirstPassword,  \* FirstPassword[a]: what seed_admin hashed
    Secrets,     \* values of BLOG_SESSION_SECRET
    Derived,     \* Derived[s]: what Key::derive_from makes of the secret s
    NoCookie, NoRow, Keep, Remove,
    MaxRestarts, MaxRotations   \* bounds

ASSUME SessionsAssumption ==
    /\ FirstPassword \in [Admins -> Passwords] /\ NoRow \notin Passwords
    /\ DOMAIN Derived = Secrets
    /\ \A s, t \in Secrets : Derived[s] = Derived[t] => s = t
    /\ Keep # Remove /\ MaxRestarts \in Nat /\ MaxRotations \in Nat

VARIABLES
    password,  \* password[a]: the one whose hash is in the row of a
    secret,    \* BLOG_SESSION_SECRET of the running process
    key,       \* the key it signs with
    jar,       \* the session cookie of the browser
    pc,        \* where each request is
    form,      \* what it asks: [kind, user, password]
    sent,      \* the cookie it came with
    row,       \* login: the password whose hash was found
    reply      \* what its answer does to the cookie

VARIABLES      \* history
    right,     \* logins whose password was that of their user at some moment
               \* between their being sent and their query
    out,       \* the last answer that changed the jar was a logout's
    restarts, rotations

server == <<password, secret, key, restarts, rotations>>
vars == <<password, secret, key, jar, pc, form, sent, row, reply,
          right, out, restarts, rotations>>

Keys == {Derived[s] : s \in Secrets}

\* A session names its admin; key is the one its signature was made with.
\* by and under are history: the login that made the session, and the
\* secret that was in force then.
Cookies == [admin : Admins, key : Keys, by : Requests, under : Secrets]

Asks == [kind : {"login"}, user : Admins \cup Strangers, password : Passwords]
        \cup [kind : {"logout", "act"}]

\* Faulty variant: the key is drawn when the process starts
DerivedKeyDrawn(s) == <<s, restarts>>

\* Faulty variant: the key does not depend on the secret
DerivedKeyFixed(s) == Derived[CHOOSE t \in Secrets : TRUE]

\* The key is made of the secret alone.
DerivedKey(s) == Derived[s]

Init ==
    /\ password = FirstPassword
    /\ restarts = 0 /\ rotations = 0
    /\ secret \in Secrets /\ key = DerivedKey(secret)
    /\ jar = NoCookie
    /\ pc = [r \in Requests |-> "idle"]
    /\ form = [r \in Requests |-> [kind |-> "act"]]
    /\ sent = [r \in Requests |-> NoCookie]
    /\ row = [r \in Requests |-> NoRow]
    /\ reply = [r \in Requests |-> Keep]
    /\ right = {} /\ out = FALSE

----------------------------------------------------------------------------

Goto(r, place) == pc' = [pc EXCEPT ![r] = place]
Reply(r, cookie) == Goto(r, "replied") /\ reply' = [reply EXCEPT ![r] = cookie]
SameBrowser == UNCHANGED <<jar, form, sent, right, out>>

\* What the session layer makes of the cookie of a request.
Session(cookie) ==
    IF cookie # NoCookie /\ cookie.key = key THEN cookie ELSE NoCookie

\* What verify_password would say of the row as it is now.
OfUser(f) == f.user \in Admins /\ password[f.user] = f.password

\* A click in one of the browser's tabs.
Send(r) ==
    /\ pc[r] = "idle"
    /\ \E f \in Asks :
          /\ form' = [form EXCEPT ![r] = f]
          /\ right' = IF f.kind = "login" /\ OfUser(f) THEN right \cup {r} ELSE right
    /\ sent' = [sent EXCEPT ![r] = jar]
    /\ Goto(r, "sent")
    /\ UNCHANGED <<jar, row, reply, out, server>>

\* /login is outside the guard.
ArriveLogin(r) ==
    /\ pc[r] = "sent" /\ form[r].kind = "login"
    /\ Goto(r, "find")
    /\ SameBrowser /\ UNCHANGED <<row, reply, server>>

\* require_admin_auth: a session with an id in it; the row is not looked up.
GuardPasses(r) ==
    /\ pc[r] = "sent" /\ form[r].kind # "login"
    /\ Session(sent[r]) # NoCookie
    /\ Goto(r, form[r].kind)
    /\ SameBrowser /\ UNCHANGED <<row, reply, server>>

GuardRedirects(r) ==
    /\ pc[r] = "sent" /\ form[r].kind # "login"
    /\ Session(sent[r]) = NoCookie
    /\ Reply(r, Keep)
    /\ SameBrowser /\ UNCHANGED <<row, server>>

\* find_by_username; without a row the hash of a dummy is verified.
FindAdmin(r) ==
    /\ pc[r] = "find"
    /\ row' = [row EXCEPT ![r] = IF form[r].user \in Admins
                                 THEN password[form[r].user] ELSE NoRow]
    /\ Goto(r, "verify")
    /\ SameBrowser /\ UNCHANGED <<reply, server>>

\* The session that a login opens: the one r verified.
Opened(r) == [admin |-> form[r].user, key |-> key, by |-> r, under |-> secret]

\* Faulty variant: the outcome of the verification is not looked at
VerifyAny(r) ==
    /\ pc[r] = "verify"
    /\ Reply(r, IF row[r] # NoRow THEN Opened(r) ELSE Keep)
    /\ SameBrowser /\ UNCHANGED <<row, server>>

\* verify_password, session.insert; a failure leaves the session alone.
Verify(r) ==
    /\ pc[r] = "verify"
    /\ Reply(r, IF row[r] # NoRow /\ row[r] = form[r].password
                THEN Opened(r) ELSE Keep)
    /\ SameBrowser /\ UNCHANGED <<row, server>>

\* Faulty variant: the session is cleared and saved, without its admin
LogoutSavesEmpty(r) ==
    /\ pc[r] = "logout"
    /\ Reply(r, [sent[r] EXCEPT !.admin = NoRow])
    /\ SameBrowser /\ UNCHANGED <<row, server>>

\* session.flush.
Logout(r) ==
    /\ pc[r] = "logout"
    /\ Reply(r, Remove)
    /\ SameBrowser /\ UNCHANGED <<row, server>>

\* Faulty variant: the session is saved again with every answer
ActRenews(r) ==
    /\ pc[r] = "act"
    /\ Reply(r, sent[r])
    /\ SameBrowser /\ UNCHANGED <<row, server>>

\* A handler behind the guard (AdminPosts) has done its work.
Act(r) ==
    /\ pc[r] = "act"
    /\ Reply(r, Keep)
    /\ SameBrowser /\ UNCHANGED <<row, server>>

\* A query fails: 500.
Fail(r) ==
    /\ pc[r] \in {"find", "verify", "logout", "act"}
    /\ Reply(r, Keep)
    /\ SameBrowser /\ UNCHANGED <<row, server>>

----------------------------------------------------------------------------
(* The answers on their way back.                                          *)

\* The browser does what Set-Cookie says.
Deliver(r) ==
    /\ pc[r] = "replied"
    /\ jar' = CASE reply[r] = Keep -> jar
                [] reply[r] = Remove -> NoCookie
                [] OTHER -> reply[r]
    /\ out' = IF form[r].kind = "logout" /\ reply[r] = Remove THEN TRUE
              ELSE IF form[r].kind = "login" /\ reply[r] # Keep THEN FALSE
              ELSE out
    /\ Goto(r, "over")
    /\ UNCHANGED <<form, sent, row, reply, right, server>>

\* The request or its answer gets lost, or the user does not wait for it.
Lose(r) ==
    /\ pc[r] \in {"sent", "replied"}
    /\ Goto(r, "over")
    /\ SameBrowser /\ UNCHANGED <<row, reply, server>>

\* The browser is closed: the cookie is one for the session.
CloseBrowser ==
    /\ jar # NoCookie /\ jar' = NoCookie
    /\ UNCHANGED <<pc, form, sent, row, reply, right, out, server>>

\* The process ends and another begins, with the same secret or another: the
\* requests in it end with it.  Those on their way to it reach the new one,
\* and the answers it has sent arrive.
Restart ==
    /\ restarts < MaxRestarts /\ restarts' = restarts + 1
    /\ \E s \in Secrets : secret' = s /\ key' = DerivedKey(s)
    /\ pc' = [r \in Requests |->
                IF pc[r] \in {"idle", "sent", "replied", "over"} THEN pc[r] ELSE "over"]
    /\ UNCHANGED <<password, rotations, row, reply>> /\ SameBrowser

\* AdminRepo::update_password, by the owner of the database.
Rotate ==
    /\ rotations < MaxRotations /\ rotations' = rotations + 1
    /\ \E a \in Admins, p \in Passwords :
          /\ password' = [password EXCEPT ![a] = p]
          /\ right' = right \cup
                {r \in Requests : /\ pc[r] \in {"sent", "find"}
                                  /\ form[r] = [kind |-> "login", user |-> a,
                                                password |-> p]}
    /\ UNCHANGED <<secret, key, restarts, jar, pc, form, sent, row, reply, out>>

----------------------------------------------------------------------------

Next ==
    \/ \E r \in Requests :
          \/ Send(r)
          \/ ArriveLogin(r) \/ GuardPasses(r) \/ GuardRedirects(r)
          \/ FindAdmin(r) \/ Verify(r) \/ Logout(r) \/ Act(r) \/ Fail(r)
          \/ Deliver(r) \/ Lose(r)
    \/ CloseBrowser \/ Restart \/ Rotate

Spec == Init /\ [][Next]_vars

----------------------------------------------------------------------------
(* Properties.                                                             *)

\* Types of the variables.
SessionsTypeOK ==
    /\ password \in [Admins -> Passwords]
    /\ secret \in Secrets /\ key \in Keys
    /\ jar \in Cookies \cup {NoCookie}
    /\ pc \in [Requests -> {"idle", "sent", "find", "verify", "logout", "act",
                            "replied", "over"}]
    /\ form \in [Requests -> Asks]
    /\ sent \in [Requests -> Cookies \cup {NoCookie}]
    /\ row \in [Requests -> Passwords \cup {NoRow}]
    /\ reply \in [Requests -> Cookies \cup {Keep, Remove}]
    /\ right \subseteq Requests /\ out \in BOOLEAN
    /\ restarts \in 0 .. MaxRestarts /\ rotations \in 0 .. MaxRotations

\* The session was opened by a login of its admin, with a password that was
\* the admin's at some moment before the login's query, though it may have
\* been changed by the time it was verified.
Earned(cookie) ==
    /\ cookie.by \in right
    /\ form[cookie.by].kind = "login" /\ form[cookie.by].user = cookie.admin

\* Every session in the browser, on its way there, or behind the guard.
SignedInByPassword ==
    /\ jar # NoCookie => Earned(jar)
    /\ \A r \in Requests :
          /\ reply[r] \notin {Keep, Remove} => Earned(reply[r])
          /\ pc[r] \in {"logout", "act"} => sent[r] # NoCookie /\ Earned(sent[r])

\* Once the browser has the answer of a logout it has no session until a
\* login is answered: no slower answer of another tab brings it back.
LogoutSticks == out => jar = NoCookie

\* The guard lets a request in exactly when its session was opened under the
\* secret in force when the request arrives, whatever restarts came between:
\* a restart with the same BLOG_SESSION_SECRET signs nobody out, a new secret
\* puts an end to all sessions, those of answers and requests that were on
\* their way included, and the return of an old secret revives them.
SecretDecides ==
    [][\A r \in Requests :
          pc[r] = "sent" /\ pc'[r] \in {"logout", "act", "replied"} =>
            (pc'[r] # "replied" <=> sent[r] # NoCookie /\ sent[r].under = secret)]_vars
=============================================================================
