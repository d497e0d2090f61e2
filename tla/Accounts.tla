------------------------------ MODULE Accounts ------------------------------
(***************************************************************************)
(* Accounts, sessions and roles: AuthController, AuthService, UsersService *)
(* and the guards.  Sign-ups run concurrently and the unique constraint on *)
(* the e-mail decides between them.  A session is the access token and the *)
(* refresh-token cookie its client keeps; the server keeps nothing of it,  *)
(* so an access token grants the role it was signed with until it expires, *)
(* whatever has become of the account.                                     *)
(***************************************************************************)
EXTENDS Integers, FiniteSets

CONSTANTS Attempts,    \* sign-up requests; an account has the id of its request
          Emails, Passwords,
          Sessions,
          AtAge,       \* JWT_AT_MAX_AGE_S
          RtAge,       \* JWT_RT_MAX_AGE_S
          VerifyTime,  \* bound on the time a login takes to compare passwords
          MaxTime,     \* bound on the clock
          MaxChanges,  \* bound on changes of a role and removals of an account
          MaxFaults    \* bound on failed statements and crashes

ASSUME AccountsAssumption ==
    /\ "none" \notin Attempts
    /\ AtAge \in Nat \ {0} /\ RtAge \in Nat \ {0} /\ VerifyTime \in Nat
    /\ MaxTime \in Nat /\ MaxChanges \in Nat /\ MaxFaults \in Nat

VARIABLES
    users,       \* committed rows of users
    removed,     \* rows that were deleted
    request,     \* sign-up requests
    session,     \* sessions: the tokens of the client, the handler at work on them
    now,         \* clock, seconds
    adminUntil,  \* when each account last was an admin
    granted,     \* calls of the admin endpoint that were let through
    changes, faults

store == <<users, removed, adminUntil, changes>>
vars == <<store, request, session, now, granted, faults>>

Account == [id : Attempts, email : Emails, password : Passwords, role : {"user", "admin"}]

NoToken == [sub |-> "none", email |-> "none", role |-> "none", exp |-> 0]
NoUser == [id |-> "none", email |-> "none", password |-> "none", role |-> "none"]
Nothing == [email |-> "none", password |-> "none"]

(* An account that never was an admin *)
Never == - (AtAge + VerifyTime)

Init ==
    /\ users = {}
    /\ removed = {}
    /\ request = [a \in Attempts |->
                    [step |-> "idle", email |-> "none", password |-> "none", row |-> FALSE]]
    /\ session = [s \in Sessions |->
                    [step |-> "idle", access |-> NoToken, cookie |-> NoToken, by |-> Nothing,
                     typed |-> Nothing, read |-> NoUser, since |-> 0]]
    /\ now = 0
    /\ adminUntil = [a \in Attempts |-> Never]
    /\ granted = {}
    /\ changes = 0 /\ faults = 0

Fault == faults < MaxFaults /\ faults' = faults + 1

-----------------------------------------------------------------------------
(* Sign-up. *)

Answers == {"201", "409", "500", "cut"}

SignUp(a, email, password) ==
    /\ request[a].step = "idle"
    /\ request' = [request EXCEPT ![a].step = "hash", ![a].email = email, ![a].password = password]
    /\ UNCHANGED <<store, session, now, granted, faults>>

(* The bcrypt hash is computed off the event loop. *)
Hash(a) ==
    /\ request[a].step = "hash"
    /\ request' = [request EXCEPT ![a].step = "insert"]
    /\ UNCHANGED <<store, session, now, granted, faults>>

Taken(a) == \E u \in users : u.email = request[a].email

(* Mutant: the e-mail is looked up before, and rows of open transactions are
   not seen. *)
EmailFreeCommitted(a) == ~ Taken(a)

(* UQ_users_email: an insert waits for an open transaction with that e-mail. *)
EmailFree(a) ==
    /\ ~ Taken(a)
    /\ \A b \in Attempts : request[b].row => request[b].email # request[a].email

Insert(a) ==
    /\ request[a].step = "insert"
    /\ EmailFree(a)
    /\ request' = [request EXCEPT ![a].step = "commit", ![a].row = TRUE]
    /\ UNCHANGED <<store, session, now, granted, faults>>

InsertDuplicate(a) ==
    /\ request[a].step = "insert"
    /\ Taken(a)
    /\ request' = [request EXCEPT ![a].step = "409"]
    /\ UNCHANGED <<store, session, now, granted, faults>>

(* Mutant: every error of save() is taken for a duplicate. *)
AnswerDuplicate(a) == request' = [request EXCEPT ![a].step = "409", ![a].row = FALSE]

(* Mutant: the transaction of a failed save() is left open. *)
AnswerLeaveOpen(a) == request' = [request EXCEPT ![a].step = "500"]

(* Only 23505 is a DuplicateEntityCreationError. *)
AnswerError(a) == request' = [request EXCEPT ![a].step = "500", ![a].row = FALSE]

SaveFails(a) ==
    /\ request[a].step \in {"insert", "commit"}
    /\ Fault
    /\ AnswerError(a)
    /\ UNCHANGED <<store, session, now, granted>>

(* The role is the column's default. *)
NewAccount(a) ==
    [id |-> a, email |-> request[a].email, password |-> request[a].password, role |-> "user"]

Commit(a) ==
    /\ request[a].step = "commit"
    /\ users' = users \cup {NewAccount(a)}
    /\ request' = [request EXCEPT ![a].step = "201", ![a].row = FALSE]
    /\ UNCHANGED <<removed, adminUntil, changes, session, now, granted, faults>>

(* PostgreSQL commits, the answer to COMMIT is lost. *)
CommitUnknown(a) ==
    /\ request[a].step = "commit"
    /\ Fault
    /\ users' = users \cup {NewAccount(a)}
    /\ AnswerError(a)
    /\ UNCHANGED <<removed, adminUntil, changes, session, now, granted>>

-----------------------------------------------------------------------------
(* Sessions. *)

Finished(s) == [session[s] EXCEPT !.step = "idle", !.typed = Nothing, !.read = NoUser, !.since = 0]
Become(s, next) ==
    /\ session' = [session EXCEPT ![s] = next]
    /\ UNCHANGED <<store, request, now, granted, faults>>

(* Mutant: expiresIn is given in milliseconds. *)
TokenOfMilliseconds(u, age) ==
    [sub |-> u.id, email |-> u.email, role |-> u.role, exp |-> now + age * 1000]

Token(u, age) == [sub |-> u.id, email |-> u.email, role |-> u.role, exp |-> now + age]
Expired(token) == now >= token.exp

(* login: findByEmail, then the comparison is awaited with the row in hand.
   404 if there is none: as every refused call, that changes nothing. *)
LogIn(s, email, password) ==
    /\ session[s].step = "idle"
    /\ \E u \in users :
          /\ u.email = email
          /\ Become(s, [session[s] EXCEPT !.step = "verify", !.read = u, !.since = now,
                                          !.typed = [email |-> email, password |-> password]])

(* The answer carries both tokens, and sets the cookie; or it is a 401. *)
Verify(s) ==
    /\ session[s].step = "verify"
    /\ IF session[s].typed.password = session[s].read.password
       THEN Become(s, [Finished(s) EXCEPT !.access = Token(session[s].read, AtAge),
                                          !.cookie = Token(session[s].read, RtAge),
                                          !.by = session[s].typed])
       ELSE Become(s, Finished(s))

(* refresh: JwtCookieAuthGuard (401), then findById (404). *)
Refresh(s) ==
    /\ session[s].step = "idle"
    /\ ~ Expired(session[s].cookie)
    /\ Become(s, [session[s] EXCEPT !.step = "refresh"])

(* Mutant: the account is found by the e-mail in the token. *)
FoundByEmail(s) == {u \in users : u.email = session[s].cookie.email}

Found(s) == {u \in users : u.id = session[s].cookie.sub}

(* Mutant: the token is made from the payload of the old one. *)
FromPayload(s, u) == [u EXCEPT !.role = session[s].cookie.role]

(* Both tokens are made from the row that was read. *)
Subject(s, u) == u

(* findById and the signing: what is signed is what was read, and no await stands
   between the two but that of the query itself.  The wide gap of that kind is
   the login's.  The answer sets no cookie: a browser keeps the one it has, a
   client that manages its tokens takes the refresh token of the body. *)
Renew(s) ==
    /\ session[s].step = "refresh"
    /\ \/ /\ Found(s) = {}
          /\ Become(s, Finished(s))
       \/ \E u \in Found(s), takes \in BOOLEAN :
             Become(s, [Finished(s) EXCEPT
                          !.access = Token(Subject(s, u), AtAge),
                          !.cookie = IF takes THEN Token(Subject(s, u), RtAge) ELSE @])

(* findById fails: 500. *)
RenewFails(s) ==
    /\ session[s].step = "refresh"
    /\ Fault
    /\ session' = [session EXCEPT ![s] = Finished(s)]
    /\ UNCHANGED <<store, request, now, granted>>

(* How long ago the account was an admin, 0 if it is one *)
Lag(id) == IF \E u \in users : u.id = id /\ u.role = "admin" THEN 0 ELSE now - adminUntil[id]

(* POST /debug/orders/process: JwtAuthGuard (401), then RolesGuard (403) *)
AdminCall(s) ==
    /\ ~ Expired(session[s].access)
    /\ session[s].access.role = "admin"
    /\ granted' = granted \cup {[id |-> session[s].access.sub, lag |-> Lag(session[s].access.sub)]}
    /\ UNCHANGED <<store, request, session, now, faults>>

-----------------------------------------------------------------------------
(* The environment. *)

(* A comparison of passwords takes at most VerifyTime. *)
Tick ==
    /\ now < MaxTime
    /\ \A s \in Sessions : session[s].step = "verify" => now - session[s].since < VerifyTime
    /\ now' = now + 1
    /\ UNCHANGED <<store, request, session, granted, faults>>

Retired(u) == [adminUntil EXCEPT ![u.id] = IF u.role = "admin" THEN now ELSE @]

(* Nothing in src changes a role or removes an account. *)
SetRole(u) ==
    /\ changes < MaxChanges
    /\ changes' = changes + 1
    /\ users' = (users \ {u}) \cup {[u EXCEPT !.role = IF @ = "user" THEN "admin" ELSE "user"]}
    /\ adminUntil' = Retired(u)
    /\ UNCHANGED <<removed, request, session, now, granted, faults>>

Remove(u) ==
    /\ changes < MaxChanges
    /\ changes' = changes + 1
    /\ users' = users \ {u}
    /\ removed' = removed \cup {u}
    /\ adminUntil' = Retired(u)
    /\ UNCHANGED <<request, session, now, granted, faults>>

(* The process dies and is started again: a transaction whose COMMIT is under
   way is committed or not, the others are rolled back; requests get no
   answer, tokens stay what they are. *)
Crash ==
    /\ Fault
    /\ \E last \in SUBSET {a \in Attempts : request[a].step = "commit"} :
          users' = users \cup {NewAccount(a) : a \in last}
    /\ request' = [a \in Attempts |->
                     IF request[a].step \in {"hash", "insert", "commit"}
                     THEN [request[a] EXCEPT !.step = "cut", !.row = FALSE] ELSE request[a]]
    /\ session' = [s \in Sessions |->
                     IF session[s].step = "idle" THEN session[s] ELSE Finished(s)]
    /\ UNCHANGED <<removed, adminUntil, changes, now, granted>>

(* The clients leave; requests at work go on. *)
Idle == now = MaxTime /\ UNCHANGED vars

Handle(a) == Hash(a) \/ Insert(a) \/ InsertDuplicate(a) \/ Commit(a)

Next ==
    \/ \E a \in Attempts :
          \/ \E email \in Emails, password \in Passwords : SignUp(a, email, password)
          \/ Hash(a)
          \/ Insert(a)
          \/ InsertDuplicate(a)
          \/ SaveFails(a)
          \/ Commit(a)
          \/ CommitUnknown(a)
    \/ \E s \in Sessions :
          \/ \E email \in Emails, password \in Passwords : LogIn(s, email, password)
          \/ Verify(s)
          \/ Refresh(s)
          \/ Renew(s)
          \/ RenewFails(s)
          \/ AdminCall(s)
    \/ \E u \in users : SetRole(u) \/ Remove(u)
    \/ Tick
    \/ Crash
    \/ Idle

Spec == Init /\ [][Next]_vars

(* Awaits settle. *)
FairSpec ==
    /\ Spec
    /\ \A a \in Attempts : WF_vars(Handle(a))
    /\ \A s \in Sessions : WF_vars(Verify(s)) /\ WF_vars(Renew(s))

-----------------------------------------------------------------------------
(* Properties. *)

Ids == Attempts \cup {"none"}
Tokens == [sub : Ids, email : Emails \cup {"none"}, role : {"none", "user", "admin"},
           exp : 0..(MaxTime + AtAge + RtAge)]
Credentials == [email : Emails, password : Passwords] \cup {Nothing}

SignUpRequest ==
    [step : Answers \cup {"idle", "hash", "insert", "commit"},
     email : Emails \cup {"none"}, password : Passwords \cup {"none"}, row : BOOLEAN]
Session ==
    [step : {"idle", "verify", "refresh"}, access : Tokens, cookie : Tokens,
     by : Credentials, typed : Credentials, read : Account \cup {NoUser}, since : 0..MaxTime]

(* Every variable has its type. *)
TypeOK ==
    /\ users \subseteq Account /\ removed \subseteq Account
    /\ request \in [Attempts -> SignUpRequest]
    /\ session \in [Sessions -> Session]
    /\ now \in 0..MaxTime
    /\ adminUntil \in [Attempts -> Never..MaxTime]
    /\ granted \subseteq [id : Attempts, lag : Int]
    /\ changes \in 0..MaxChanges /\ faults \in 0..MaxFaults

(* Whatever sign-ups run at once, fail or are cut off, one account has an
   e-mail, and no open transaction is about to add another. *)
OneAccountPerEmail ==
    /\ \A u, v \in users : u.email = v.email => u.id = v.id
    /\ \A a, b \in Attempts :
          request[a].row =>
              /\ ~ Taken(a)
              /\ request[b].row /\ request[a].email = request[b].email => a = b

(* The answer to a sign-up is true: 201 only if the account exists (or was
   removed since), 409 only if it does not and another one had the e-mail,
   and an account exists only for an answer that allows it. *)
SignUpTruth ==
    \A a \in Attempts :
        LET Own == {u \in users \cup removed : u.id = a}
        IN  /\ request[a].step = "201" => Own # {}
            /\ request[a].step = "409" =>
                  /\ Own = {}
                  /\ \E u \in users \cup removed : u.email = request[a].email
            /\ Own # {} => request[a].step \in {"201", "500", "cut"}

(* The tokens of a session are those of the account whose e-mail and password
   its client gave, after any number of refreshes, and also when that account
   was removed and its e-mail registered again. *)
SessionOfOneAccount ==
    \A s \in Sessions :
        session[s].access # NoToken =>
            /\ session[s].access.sub = session[s].cookie.sub
            /\ \E u \in users \cup removed :
                  /\ u.id = session[s].access.sub
                  /\ session[s].by = [email |-> u.email, password |-> u.password]

(* A call that RolesGuard lets through was made for an account that was an
   admin within the age of an access token and the time of a login: a lost
   role is not carried on by refreshing the session. *)
AdminGrantRecent == \A g \in granted : g.lag < AtAge + VerifyTime

(* Every sign-up is answered, or cut off by a crash: also the one that waits
   for another with its e-mail to end. *)
Answered == \A a \in Attempts : request[a].step = "hash" ~> request[a].step \in Answers
=============================================================================
