---------------------------- MODULE Sessions_proofs ---------------------------
(***************************************************************************)
(* For any number of requests, admins, restarts and changes of a password: *)
(* every session was opened with a password of its admin, a logout is not  *)
(* undone by a slower answer, and a session is honoured exactly while the  *)
(* secret it was opened under is in force.                                 *)
(*                                                                         *)
(* The invariant follows a session from the login that opened it to the    *)
(* browser and back with the next request.  A password found in the row is *)
(* one the user had before the query was answered, which right records for *)
(* the logins that carried it.                                             *)
(***************************************************************************)
EXTENDS Sessions, TLAPS

SentEarned == \A r \in Requests : sent[r] # NoCookie => Earned(sent[r])

\* What the login is going to compare is what right tells of.
FoundRight ==
    \A r \in Requests :
        /\ pc[r] = "verify" /\ row[r] # NoRow /\ row[r] = form[r].password
              => form[r].user \in Admins /\ r \in right
        /\ pc[r] \in {"sent", "find"} /\ form[r].kind = "login" /\ OfUser(form[r])
              => r \in right

\* Only logins are past the guard without a session, and only they set one.
Guarded ==
    \A r \in Requests :
        /\ pc[r] \in {"find", "verify"} => form[r].kind = "login"
        /\ pc[r] \in {"logout", "act"} => sent[r] # NoCookie
        /\ reply[r] \notin {Keep, Remove} => form[r].kind = "login"

\* A session names a request that was sent: what a new request asks for does
\* not change who opened it.
MakersSent ==
    /\ jar # NoCookie => pc[jar.by] # "idle"
    /\ \A r \in Requests :
          /\ sent[r] # NoCookie => pc[sent[r].by] # "idle"
          /\ reply[r] \notin {Keep, Remove} => pc[reply[r].by] # "idle"
          /\ pc[r] = "idle" => reply[r] = Keep

\* Whoever holds a cookie, it was signed with the key of the secret that
\* was in force when it was made, whatever secret is in force now.
Signed(cookie) == cookie.key = Derived[cookie.under]

SignedByMaker ==
    /\ key = Derived[secret]
    /\ jar # NoCookie => Signed(jar)
    /\ \A r \in Requests :
          /\ sent[r] # NoCookie => Signed(sent[r])
          /\ reply[r] \notin {Keep, Remove} => Signed(reply[r])

IInv ==
    /\ SessionsTypeOK /\ SignedInByPassword /\ LogoutSticks
    /\ SentEarned /\ FoundRight /\ Guarded /\ MakersSent /\ SignedByMaker

----------------------------------------------------------------------------

LEMMA InitInv == Init => IInv
<1> SUFFICES ASSUME Init PROVE IInv
  OBVIOUS
<1>1. [kind |-> "act"] \in Asks
  BY DEF Asks
<1>2. /\ pc \in [Requests -> {"idle", "sent", "find", "verify", "logout", "act",
                               "replied", "over"}]
      /\ form \in [Requests -> Asks]
  BY <1>1 DEF Init
<1>3. /\ sent \in [Requests -> Cookies \cup {NoCookie}]
      /\ row \in [Requests -> Passwords \cup {NoRow}]
      /\ reply \in [Requests -> Cookies \cup {Keep, Remove}]
  BY DEF Init
<1>4. SessionsTypeOK
  <2>1. restarts \in 0 .. MaxRestarts /\ rotations \in 0 .. MaxRotations
    BY SessionsAssumption DEF Init
  <2>2. /\ password \in [Admins -> Passwords] /\ secret \in Secrets /\ key \in Keys
        /\ jar \in Cookies \cup {NoCookie} /\ right \subseteq Requests /\ out \in BOOLEAN
    BY SessionsAssumption DEF Init, DerivedKey, Keys
  <2> QED
    BY <1>2, <1>3, <2>1, <2>2 DEF SessionsTypeOK
<1>5. \A r \in Requests : pc[r] = "idle" /\ sent[r] = NoCookie /\ reply[r] = Keep
  BY DEF Init
<1>6. jar = NoCookie /\ out = FALSE /\ key = Derived[secret]
  BY DEF Init, DerivedKey
<1> QED
  BY <1>4, <1>5, <1>6
     DEF IInv, SignedInByPassword, LogoutSticks, SentEarned, FoundRight, Guarded,
         MakersSent, SignedByMaker

\* Cookies of the state have the fields of a cookie.
LEMMA CookieTypes ==
    ASSUME SessionsTypeOK
    PROVE  /\ jar # NoCookie => jar.by \in Requests
           /\ \A r \in Requests :
                 /\ sent[r] # NoCookie => sent[r].by \in Requests
                 /\ reply[r] \notin {Keep, Remove} => reply[r].by \in Requests
BY DEF SessionsTypeOK, Cookies

LEMMA SendInv ==
    ASSUME IInv, NEW r \in Requests, Send(r)
    PROVE  IInv'
<1>1. PICK f \in Asks :
          /\ form' = [form EXCEPT ![r] = f]
          /\ right' = IF f.kind = "login" /\ OfUser(f) THEN right \cup {r} ELSE right
  BY DEF Send
<1>2. /\ pc[r] = "idle" /\ sent' = [sent EXCEPT ![r] = jar]
      /\ pc' = [pc EXCEPT ![r] = "sent"]
      /\ UNCHANGED <<jar, row, reply, out, password, secret, key, restarts, rotations>>
  BY DEF Send, Goto, server
<1>3. /\ form' \in [Requests -> Asks] /\ form'[r] = f
      /\ \A q \in Requests : q # r => form'[q] = form[q]
  BY <1>1 DEF IInv, SessionsTypeOK
<1>4. /\ pc'[r] = "sent" /\ \A q \in Requests : q # r => pc'[q] = pc[q]
      /\ sent'[r] = jar /\ \A q \in Requests : q # r => sent'[q] = sent[q]
      /\ right \subseteq right' /\ right' \subseteq right \cup {r}
  BY <1>1, <1>2 DEF IInv, SessionsTypeOK
<1>5. SessionsTypeOK'
  BY <1>1, <1>2, <1>3, <1>4 DEF IInv, SessionsTypeOK
<1>6. ASSUME NEW c, Earned(c), c.by \in Requests, pc[c.by] # "idle"
      PROVE  Earned(c)' /\ pc'[c.by] # "idle"
  BY <1>2, <1>3, <1>4, <1>6 DEF Earned
<1>7. SignedInByPassword'
  BY <1>2, <1>4, <1>6, CookieTypes
     DEF IInv, SignedInByPassword, MakersSent, SentEarned
<1>8. SentEarned'
  BY <1>2, <1>4, <1>6, CookieTypes DEF IInv, SignedInByPassword, MakersSent, SentEarned
<1>9. MakersSent'
  BY <1>2, <1>4, CookieTypes DEF IInv, MakersSent
<1>10. FoundRight'
  <2>1. \A g : OfUser(g)' <=> OfUser(g)
    BY <1>2 DEF OfUser
  <2>2. f.kind = "login" /\ OfUser(f) => r \in right'
    BY <1>1
  <2> QED
    BY <1>2, <1>3, <1>4, <2>2 DEF IInv, FoundRight, OfUser
<1>11. Guarded' /\ LogoutSticks'
  BY <1>2, <1>3, <1>4 DEF IInv, Guarded, LogoutSticks, MakersSent
<1>12. SignedByMaker'
  BY <1>2, <1>4 DEF IInv, SignedByMaker, Signed
<1> QED
  BY <1>5, <1>7, <1>8, <1>9, <1>10, <1>11, <1>12 DEF IInv

\* Steps of the server on one request that answer nothing yet.
LEMMA GoInv ==
    ASSUME IInv, NEW r \in Requests, pc[r] # "idle",
           NEW place \in {"find", "logout", "act", "over"}, Goto(r, place),
           SameBrowser, UNCHANGED <<row, reply, server>>,
           place = "find" => pc[r] = "sent" /\ form[r].kind = "login",
           place \in {"logout", "act"} => sent[r] # NoCookie
    PROVE  IInv'
<1>1. /\ pc' \in [Requests -> {"idle", "sent", "find", "verify", "logout", "act",
                               "replied", "over"}]
      /\ pc'[r] = place /\ \A q \in Requests : q # r => pc'[q] = pc[q]
  BY DEF Goto, IInv, SessionsTypeOK
<1>2. UNCHANGED <<jar, form, sent, right, out, row, reply, password, secret, key,
                  restarts, rotations>>
  BY DEF SameBrowser, server
<1>3. SessionsTypeOK'
  BY <1>1, <1>2 DEF IInv, SessionsTypeOK
<1>4. \A c : Earned(c)' <=> Earned(c)
  BY <1>2 DEF Earned
<1>5. SignedInByPassword' /\ SentEarned'
  BY <1>1, <1>2, <1>4 DEF IInv, SignedInByPassword, SentEarned
<1>6. FoundRight'
  BY <1>1, <1>2 DEF IInv, FoundRight, OfUser
<1>7. Guarded' /\ LogoutSticks'
  BY <1>1, <1>2 DEF IInv, Guarded, LogoutSticks
<1>8. MakersSent' /\ SignedByMaker'
  BY <1>1, <1>2, CookieTypes DEF IInv, MakersSent, SignedByMaker, Signed
<1> QED
  BY <1>3, <1>5, <1>6, <1>7, <1>8 DEF IInv

\* ... and those that answer.
LEMMA ReplyInv ==
    ASSUME IInv, NEW r \in Requests, pc[r] # "idle",
           NEW c \in Cookies \cup {Keep, Remove}, Reply(r, c),
           SameBrowser, UNCHANGED <<row, server>>,
           c \notin {Keep, Remove} =>
               /\ Earned(c) /\ pc[c.by] # "idle" /\ form[r].kind = "login"
               /\ Signed(c)
    PROVE  IInv'
<1>1. /\ pc' \in [Requests -> {"idle", "sent", "find", "verify", "logout", "act",
                               "replied", "over"}]
      /\ pc'[r] = "replied" /\ \A q \in Requests : q # r => pc'[q] = pc[q]
      /\ reply' \in [Requests -> Cookies \cup {Keep, Remove}]
      /\ reply'[r] = c /\ \A q \in Requests : q # r => reply'[q] = reply[q]
  BY DEF Reply, Goto, IInv, SessionsTypeOK
<1>2. UNCHANGED <<jar, form, sent, right, out, row, password, secret, key,
                  restarts, rotations>>
  BY DEF SameBrowser, server
<1>3. SessionsTypeOK'
  BY <1>1, <1>2 DEF IInv, SessionsTypeOK
<1>4. \A d : Earned(d)' <=> Earned(d)
  BY <1>2 DEF Earned
<1>5. SignedInByPassword' /\ SentEarned'
  BY <1>1, <1>2, <1>4 DEF IInv, SignedInByPassword, SentEarned
<1>6. FoundRight'
  BY <1>1, <1>2 DEF IInv, FoundRight, OfUser
<1>7. Guarded' /\ LogoutSticks'
  BY <1>1, <1>2 DEF IInv, Guarded, LogoutSticks
<1>8. c \notin {Keep, Remove} => c.by \in Requests
  BY DEF Cookies
<1>9. MakersSent'
  BY <1>1, <1>2, <1>8, CookieTypes DEF IInv, MakersSent
<1>10. SignedByMaker'
  BY <1>1, <1>2 DEF IInv, SignedByMaker, Signed
<1> QED
  BY <1>3, <1>5, <1>6, <1>7, <1>9, <1>10 DEF IInv

LEMMA FindInv ==
    ASSUME IInv, NEW r \in Requests, FindAdmin(r)
    PROVE  IInv'
<1> DEFINE found == IF form[r].user \in Admins THEN password[form[r].user] ELSE NoRow
<1>1. /\ pc[r] = "find" /\ row' = [row EXCEPT ![r] = found]
      /\ pc' = [pc EXCEPT ![r] = "verify"]
      /\ UNCHANGED <<jar, form, sent, right, out, reply, password, secret, key,
                     restarts, rotations>>
  BY DEF FindAdmin, Goto, SameBrowser, server
<1>2. found \in Passwords \cup {NoRow}
  BY DEF IInv, SessionsTypeOK
<1>3. /\ pc'[r] = "verify" /\ \A q \in Requests : q # r => pc'[q] = pc[q]
      /\ row'[r] = found /\ \A q \in Requests : q # r => row'[q] = row[q]
  BY <1>1 DEF IInv, SessionsTypeOK
<1>4. SessionsTypeOK'
  BY <1>1, <1>2 DEF IInv, SessionsTypeOK
<1>5. \A d : Earned(d)' <=> Earned(d)
  BY <1>1 DEF Earned
<1>6. SignedInByPassword' /\ SentEarned'
  BY <1>1, <1>3, <1>5 DEF IInv, SignedInByPassword, SentEarned
<1>7. FoundRight'
  <2>1. form[r].kind = "login"
    BY <1>1 DEF IInv, Guarded
  <2>2. found # NoRow /\ found = form[r].password => OfUser(form[r])
    BY DEF OfUser
  <2>3. found # NoRow /\ found = form[r].password
          => form[r].user \in Admins /\ r \in right
    BY <1>1, <2>1, <2>2 DEF IInv, FoundRight, OfUser
  <2> HIDE DEF found
  <2> QED
    BY <1>1, <1>3, <2>3 DEF IInv, FoundRight, OfUser
<1>8. Guarded' /\ LogoutSticks'
  BY <1>1, <1>3 DEF IInv, Guarded, LogoutSticks
<1>9. MakersSent' /\ SignedByMaker'
  BY <1>1, <1>3, CookieTypes DEF IInv, MakersSent, SignedByMaker, Signed
<1> QED
  BY <1>4, <1>6, <1>7, <1>8, <1>9 DEF IInv

LEMMA VerifyInv ==
    ASSUME IInv, NEW r \in Requests, Verify(r)
    PROVE  IInv'
<1> DEFINE c == Opened(r)
<1>1. /\ pc[r] = "verify" /\ SameBrowser /\ UNCHANGED <<row, server>>
      /\ Reply(r, IF row[r] # NoRow /\ row[r] = form[r].password THEN c ELSE Keep)
  BY DEF Verify, Opened
<1>2. form[r].kind = "login"
  BY <1>1 DEF IInv, Guarded
<1>3. CASE row[r] # NoRow /\ row[r] = form[r].password
  <2>1. form[r].user \in Admins /\ r \in right
    BY <1>1, <1>3 DEF IInv, FoundRight
  <2>2. c \in Cookies
    BY <2>1 DEF Cookies, Opened, IInv, SessionsTypeOK
  <2>3. Earned(c) /\ pc[c.by] # "idle" /\ Signed(c)
    BY <2>1, <1>1, <1>2 DEF Earned, Opened, Signed, IInv, SignedByMaker
  <2>4. Reply(r, c)
    BY <1>1, <1>3
  <2> HIDE DEF c
  <2> QED
    BY <2>2, <2>3, <2>4, <1>1, <1>2, ReplyInv
<1>4. CASE ~(row[r] # NoRow /\ row[r] = form[r].password)
  BY <1>1, <1>4, ReplyInv
<1> QED
  BY <1>3, <1>4

LEMMA DeliverInv ==
    ASSUME IInv, NEW r \in Requests, Deliver(r)
    PROVE  IInv'
<1>1. /\ pc[r] = "replied" /\ pc' = [pc EXCEPT ![r] = "over"]
      /\ UNCHANGED <<form, sent, row, reply, right, password, secret, key,
                     restarts, rotations>>
      /\ out' = IF form[r].kind = "logout" /\ reply[r] = Remove THEN TRUE
                ELSE IF form[r].kind = "login" /\ reply[r] # Keep THEN FALSE
                ELSE out
  BY DEF Deliver, Goto, server
<1>2. \/ reply[r] = Keep /\ jar' = jar
      \/ reply[r] = Remove /\ jar' = NoCookie
      \/ reply[r] \notin {Keep, Remove} /\ jar' = reply[r]
  BY SessionsAssumption DEF Deliver
<1>3. /\ pc'[r] = "over" /\ \A q \in Requests : q # r => pc'[q] = pc[q]
      /\ pc' \in [Requests -> {"idle", "sent", "find", "verify", "logout", "act",
                               "replied", "over"}]
  BY <1>1 DEF IInv, SessionsTypeOK
<1>4. jar' \in Cookies \cup {NoCookie}
  BY <1>2 DEF IInv, SessionsTypeOK
<1>5. SessionsTypeOK'
  BY <1>1, <1>3, <1>4 DEF IInv, SessionsTypeOK
<1>6. \A d : Earned(d)' <=> Earned(d)
  BY <1>1 DEF Earned
<1>7. SignedInByPassword' /\ SentEarned'
  BY <1>1, <1>2, <1>3, <1>6 DEF IInv, SignedInByPassword, SentEarned
<1>8. FoundRight' /\ Guarded'
  BY <1>1, <1>3 DEF IInv, FoundRight, Guarded, OfUser
<1>9. LogoutSticks'
  BY <1>1, <1>2, SessionsAssumption DEF IInv, LogoutSticks, Guarded
<1>10. MakersSent' /\ SignedByMaker'
  BY <1>1, <1>2, <1>3, CookieTypes DEF IInv, MakersSent, SignedByMaker, Signed
<1> QED
  BY <1>5, <1>7, <1>8, <1>9, <1>10 DEF IInv

LEMMA CloseInv ==
    ASSUME IInv, CloseBrowser
    PROVE  IInv'
<1>1. jar' = NoCookie
      /\ UNCHANGED <<pc, form, sent, row, reply, right, out, password, secret, key,
                     restarts, rotations>>
  BY DEF CloseBrowser, server
<1> QED
  BY <1>1 DEF IInv, SessionsTypeOK, SignedInByPassword, Earned, LogoutSticks,
              SentEarned, FoundRight, OfUser, Guarded, MakersSent,
              SignedByMaker, Signed

LEMMA RestartInv ==
    ASSUME IInv, Restart
    PROVE  IInv'
<1>1. /\ restarts < MaxRestarts /\ restarts' = restarts + 1
      /\ secret' \in Secrets /\ key' = Derived[secret']
      /\ pc' = [r \in Requests |->
                  IF pc[r] \in {"idle", "sent", "replied", "over"} THEN pc[r] ELSE "over"]
      /\ UNCHANGED <<password, rotations, row, reply, jar, form, sent, right, out>>
  BY DEF Restart, DerivedKey, SameBrowser
<1>2. \A r \in Requests :
          \/ pc'[r] = pc[r] /\ pc[r] \in {"idle", "sent", "replied", "over"}
          \/ pc'[r] = "over" /\ pc[r] # "idle"
  BY <1>1
<1>3. SessionsTypeOK'
  <2>1. key' \in Keys /\ restarts' \in 0 .. MaxRestarts
    BY <1>1, SessionsAssumption DEF Keys, IInv, SessionsTypeOK
  <2> QED
    BY <1>1, <2>1 DEF IInv, SessionsTypeOK
<1>4. \A d : Earned(d)' <=> Earned(d)
  BY <1>1 DEF Earned
<1>5. SignedInByPassword' /\ SentEarned' /\ LogoutSticks'
  BY <1>1, <1>2, <1>4 DEF IInv, SignedInByPassword, SentEarned, LogoutSticks
<1>6. FoundRight' /\ Guarded'
  BY <1>1, <1>2 DEF IInv, FoundRight, Guarded, OfUser
<1>7. MakersSent' /\ SignedByMaker'
  BY <1>1, <1>2, CookieTypes DEF IInv, MakersSent, SignedByMaker, Signed
<1> QED
  BY <1>3, <1>5, <1>6, <1>7 DEF IInv

LEMMA RotateInv ==
    ASSUME IInv, Rotate
    PROVE  IInv'
<1>1. PICK a \in Admins, p \in Passwords :
          /\ password' = [password EXCEPT ![a] = p]
          /\ right' = right \cup
                {r \in Requests : /\ pc[r] \in {"sent", "find"}
                                  /\ form[r] = [kind |-> "login", user |-> a,
                                                password |-> p]}
  BY DEF Rotate
<1>2. /\ rotations < MaxRotations /\ rotations' = rotations + 1
      /\ UNCHANGED <<secret, key, restarts, jar, pc, form, sent, row, reply, out>>
  BY DEF Rotate
<1>3. right \subseteq right' /\ right' \subseteq Requests
  BY <1>1 DEF IInv, SessionsTypeOK
<1>4. password' \in [Admins -> Passwords] /\ password'[a] = p
      /\ \A b \in Admins : b # a => password'[b] = password[b]
  BY <1>1 DEF IInv, SessionsTypeOK
<1>5. SessionsTypeOK'
  BY <1>2, <1>3, <1>4, SessionsAssumption DEF IInv, SessionsTypeOK
<1>6. \A d : Earned(d) => Earned(d)'
  BY <1>2, <1>3 DEF Earned
<1>7. SignedInByPassword' /\ SentEarned' /\ LogoutSticks'
  BY <1>2, <1>6 DEF IInv, SignedInByPassword, SentEarned, LogoutSticks
<1>8. ASSUME NEW r \in Requests, pc[r] \in {"sent", "find"},
             form[r].kind = "login", OfUser(form[r])'
      PROVE  r \in right'
  <2>1. form[r].user \in Admins /\ password'[form[r].user] = form[r].password
    BY <1>2, <1>8 DEF OfUser
  <2>2. CASE form[r].user # a
    <3>1. OfUser(form[r])
      BY <2>1, <2>2, <1>4 DEF OfUser
    <3> QED
      BY <3>1, <1>3, <1>8 DEF IInv, FoundRight
  <2>3. CASE form[r].user = a
    <3>1. form[r] \in [kind : {"login"}, user : Admins \cup Strangers,
                       password : Passwords]
      BY <1>8 DEF IInv, SessionsTypeOK, Asks
    <3>2. form[r] = [kind |-> "login", user |-> a, password |-> p]
      BY <3>1, <2>1, <2>3, <1>4
    <3> QED
      BY <3>2, <1>1, <1>8
  <2> QED
    BY <2>2, <2>3
<1>9. FoundRight'
  BY <1>2, <1>3, <1>8 DEF IInv, FoundRight
<1>10. Guarded' /\ MakersSent' /\ SignedByMaker'
  BY <1>2 DEF IInv, Guarded, MakersSent, SignedByMaker, Signed
<1> QED
  BY <1>5, <1>7, <1>9, <1>10 DEF IInv

----------------------------------------------------------------------------

LEMMA NextInv == IInv /\ [Next]_vars => IInv'
<1> SUFFICES ASSUME IInv, [Next]_vars PROVE IInv'
  OBVIOUS
<1>1. CASE UNCHANGED vars
  BY <1>1 DEF vars, IInv, SessionsTypeOK, SignedInByPassword, Earned,
              LogoutSticks, SentEarned, FoundRight, OfUser, Guarded, MakersSent,
              SignedByMaker, Signed
<1>2. ASSUME NEW r \in Requests,
             \/ Send(r) \/ ArriveLogin(r) \/ GuardPasses(r) \/ GuardRedirects(r)
             \/ FindAdmin(r) \/ Verify(r) \/ Logout(r) \/ Act(r) \/ Fail(r)
             \/ Deliver(r) \/ Lose(r)
      PROVE  IInv'
  <2>1. CASE Send(r)
    BY <2>1, SendInv
  <2>2. CASE ArriveLogin(r)
    BY <2>2, GoInv DEF ArriveLogin
  <2>3. CASE GuardPasses(r)
    <3>1. form[r].kind \in {"logout", "act"} /\ sent[r] # NoCookie
      BY <2>3 DEF GuardPasses, Session, IInv, SessionsTypeOK, Asks
    <3> QED
      BY <2>3, <3>1, GoInv DEF GuardPasses
  <2>4. CASE GuardRedirects(r)
    BY <2>4, ReplyInv DEF GuardRedirects
  <2>5. CASE FindAdmin(r)
    BY <2>5, FindInv
  <2>6. CASE Verify(r)
    BY <2>6, VerifyInv
  <2>7. CASE Logout(r)
    BY <2>7, ReplyInv DEF Logout
  <2>8. CASE Act(r)
    BY <2>8, ReplyInv DEF Act
  <2>9. CASE Fail(r)
    <3>1. pc[r] # "idle"
      BY <2>9 DEF Fail
    <3> QED
      BY <2>9, <3>1, ReplyInv DEF Fail
  <2>10. CASE Deliver(r)
    BY <2>10, DeliverInv
  <2>11. CASE Lose(r)
    <3>1. pc[r] # "idle"
      BY <2>11 DEF Lose
    <3> QED
      BY <2>11, <3>1, GoInv DEF Lose
  <2> QED
    BY <1>2, <2>1, <2>2, <2>3, <2>4, <2>5, <2>6, <2>7, <2>8, <2>9, <2>10, <2>11
<1> QED
  BY <1>1, <1>2, CloseInv, RestartInv, RotateInv DEF Next

LEMMA Invariant == Spec => []IInv
BY InitInv, NextInv, PTL DEF Spec

\* The variables keep their types.
THEOREM SessionTypesCorrect == Spec => []SessionsTypeOK
<1>1. IInv => SessionsTypeOK
  BY DEF IInv
<1> QED
  BY <1>1, Invariant, PTL

\* Nobody is signed in, and no handler behind the guard runs, but for a login
\* with a password of that very admin: for any interleaving of requests,
\* restarts and changes of passwords.
THEOREM SessionsEarned == Spec => []SignedInByPassword
<1>1. IInv => SignedInByPassword
  BY DEF IInv
<1> QED
  BY <1>1, Invariant, PTL

\* Answers that arrive in another order never undo a logout.
THEOREM LogoutStays == Spec => []LogoutSticks
<1>1. IInv => LogoutSticks
  BY DEF IInv
<1> QED
  BY <1>1, Invariant, PTL

\* Different secrets give different keys, so the signature tells the guard
\* the secret that the session was opened under.
LEMMA SessionOfSecret ==
    ASSUME IInv, NEW r \in Requests
    PROVE  Session(sent[r]) # NoCookie
             <=> sent[r] # NoCookie /\ sent[r].under = secret
<1>1. CASE sent[r] = NoCookie
  BY <1>1 DEF Session
<1>2. CASE sent[r] # NoCookie
  <2>1. sent[r].under \in Secrets /\ secret \in Secrets
    BY <1>2 DEF IInv, SessionsTypeOK, Cookies
  <2>2. sent[r].key = Derived[sent[r].under] /\ key = Derived[secret]
    BY <1>2 DEF IInv, SignedByMaker, Signed
  <2>3. sent[r].key = key <=> sent[r].under = secret
    BY <2>1, <2>2, SessionsAssumption
  <2> QED
    BY <1>2, <2>3 DEF Session
<1> QED
  BY <1>1, <1>2

\* Whatever restarts come between a login, its answer and the requests made
\* with it: the guard lets a request in exactly when its session was opened
\* under the secret in force.
THEOREM GuardFollowsSecret == Spec => SecretDecides
<1> DEFINE Decides(r) ==
        pc[r] = "sent" /\ pc'[r] \in {"logout", "act", "replied"} =>
          (pc'[r] # "replied" <=> sent[r] # NoCookie /\ sent[r].under = secret)
<1>1. ASSUME IInv, Next, NEW r \in Requests PROVE Decides(r)
  <2>1. SUFFICES ASSUME pc[r] = "sent", pc'[r] \in {"logout", "act", "replied"}
                 PROVE  pc'[r] # "replied" <=> Session(sent[r]) # NoCookie
    BY <1>1, SessionOfSecret
  <2>2. pc \in [Requests -> {"idle", "sent", "find", "verify", "logout", "act",
                             "replied", "over"}]
    BY <1>1 DEF IInv, SessionsTypeOK
  <2>3. CASE CloseBrowser \/ Restart \/ Rotate
    BY <2>1, <2>3 DEF CloseBrowser, Restart, Rotate
  <2>4. ASSUME NEW q \in Requests,
               \/ Send(q) \/ ArriveLogin(q) \/ GuardPasses(q) \/ GuardRedirects(q)
               \/ FindAdmin(q) \/ Verify(q) \/ Logout(q) \/ Act(q) \/ Fail(q)
               \/ Deliver(q) \/ Lose(q)
        PROVE  pc'[r] # "replied" <=> Session(sent[r]) # NoCookie
    <3>1. \A place : Goto(q, place) =>
             /\ q # r => pc'[r] = pc[r]
             /\ q = r => pc'[r] = place
      BY <2>2 DEF Goto
    <3>2. q = r
      BY <2>1, <2>4, <3>1
         DEF Send, ArriveLogin, GuardPasses, GuardRedirects, FindAdmin, Verify,
             Logout, Act, Fail, Deliver, Lose, Reply
    <3>3. GuardPasses(r) \/ GuardRedirects(r)
      <4>1. ~(\/ Send(r) \/ FindAdmin(r) \/ Verify(r) \/ Logout(r) \/ Act(r)
             \/ Fail(r) \/ Deliver(r))
        BY <2>1 DEF Send, FindAdmin, Verify, Logout, Act, Fail, Deliver
      <4>2. ~(ArriveLogin(r) \/ Lose(r))
        BY <2>1, <3>1, <3>2 DEF ArriveLogin, Lose
      <4> QED
        BY <2>4, <3>2, <4>1, <4>2
    <3>4. CASE GuardPasses(r)
      <4>1. form[r].kind \in {"logout", "act"}
        BY <1>1, <3>4 DEF GuardPasses, IInv, SessionsTypeOK, Asks
      <4> QED
        BY <3>1, <3>2, <3>4, <4>1 DEF GuardPasses
    <3>5. CASE GuardRedirects(r)
      BY <3>1, <3>2, <3>5 DEF GuardRedirects, Reply
    <3> QED
      BY <3>3, <3>4, <3>5
  <2> QED
    BY <1>1, <2>3, <2>4 DEF Next
<1>2. IInv /\ [Next]_vars => [\A r \in Requests : Decides(r)]_vars
  BY <1>1
<1> QED
  BY <1>2, Invariant, PTL DEF Spec, SecretDecides
=============================================================================
