--------------------------- MODULE AccountsProofs ---------------------------
(***************************************************************************)
(* Accounts, for any numbers of sign-ups, sessions, e-mails and passwords, *)
(* any ages of the tokens and any number of faults: the invariants that    *)
(* TLC checks in the run "accounts".                                       *)
(***************************************************************************)
EXTENDS Accounts, TLAPS

Known == users \cup removed

AdminUpTo(id, t) == \/ \E u \in users : u.id = id /\ u.role = "admin"
                    \/ t <= adminUntil[id]

(* An account is its sign-up's, which has been answered; an open row is that
   of a request at its commit. *)
IdInv ==
    /\ \A a \in Attempts :
          request[a].step # "idle" => request[a].email \in Emails /\ request[a].password \in Passwords
    /\ \A u, v \in users : u.id = v.id => u = v
    /\ \A u \in Known : request[u.id].step \in {"201", "500", "cut"}
    /\ \A a \in Attempts : request[a].row <=> request[a].step = "commit"

(* A row in the hands of a login, and the tokens, belong to the account of
   the e-mail and the password that were given. *)
Owned(x) ==
    /\ x.access.sub = x.cookie.sub
    /\ x.access = NoToken \/ x.access.sub \in Attempts
    /\ x.access.sub \in Attempts =>
          \E u \in Known :
              /\ u.id = x.access.sub
              /\ x.by.email = u.email /\ x.by.password = u.password
    /\ x.step = "verify" =>
          \E u \in Known :
              /\ u.id = x.read.id
              /\ x.read.password = u.password
              /\ x.typed.email = u.email

SessionInv == \A s \in Sessions : Owned(session[s])

(* A row that was read as an admin's, and a token that says so, are not older
   than the account's time as an admin allows. *)
Fresh(x) ==
    /\ x.access.exp <= now + AtAge
    /\ x.access.role = "admin" => AdminUpTo(x.access.sub, x.access.exp - AtAge - VerifyTime)
    /\ x.step = "verify" =>
          /\ x.since <= now /\ now - x.since <= VerifyTime
          /\ x.read \in Account
          /\ x.read.role = "admin" => AdminUpTo(x.read.id, x.since)

RoleInv == \A s \in Sessions : Fresh(session[s])

IInv ==
    /\ TypeOK
    /\ IdInv
    /\ OneAccountPerEmail
    /\ SignUpTruth
    /\ SessionInv
    /\ RoleInv
    /\ AdminGrantRecent

-----------------------------------------------------------------------------
(* Type correctness. *)

(* The tokens that are signed are tokens. *)
LEMMA TokenType ==
    ASSUME TypeOK, NEW u \in Account, NEW age \in {AtAge, RtAge}
    PROVE  /\ Token(u, age) \in Tokens
           /\ Token(u, age).sub = u.id /\ Token(u, age).role = u.role
           /\ Token(u, age).exp = now + age
BY AccountsAssumption DEF TypeOK, Token, Tokens, Ids, Account

LEMMA TypeInit == Init => TypeOK
BY AccountsAssumption DEF Init, TypeOK, SignUpRequest, Session, Tokens, Ids, Credentials, NoToken,
   NoUser, Nothing, Never

LEMMA TypeStep == IInv /\ [Next]_vars => TypeOK'
<1> SUFFICES ASSUME TypeOK, IdInv, SessionInv, RoleInv, [Next]_vars
             PROVE  TypeOK'
  BY DEF IInv
<1> USE AccountsAssumption
<1>a. \A a \in Attempts : request[a] \in SignUpRequest
  BY DEF TypeOK
<1>b. \A s \in Sessions : session[s] \in Session
  BY DEF TypeOK
<1>c. \A s \in Sessions : Finished(s) \in Session
  <2>1. Nothing \in Credentials /\ NoUser \in Account \cup {NoUser} /\ 0 \in 0..MaxTime
    BY DEF Credentials
  <2> QED
    BY <1>b, <2>1 DEF Finished, Session
<1>d. ASSUME Fault
      PROVE  faults' \in 0..MaxFaults
  BY <1>d DEF TypeOK, Fault
<1>1. ASSUME NEW a \in Attempts, NEW email \in Emails, NEW password \in Passwords,
             SignUp(a, email, password)
      PROVE  TypeOK'
  <2>1. [request[a] EXCEPT !.step = "hash", !.email = email, !.password = password]
          \in SignUpRequest
    BY <1>a DEF SignUpRequest
  <2> QED
    BY <1>1, <2>1 DEF TypeOK, SignUp, store
<1>2. ASSUME NEW a \in Attempts, Hash(a)
      PROVE  TypeOK'
  <2>1. [request[a] EXCEPT !.step = "insert"] \in SignUpRequest
    BY <1>a DEF SignUpRequest
  <2> QED
    BY <1>2, <2>1 DEF TypeOK, Hash, store
<1>3. ASSUME NEW a \in Attempts, Insert(a)
      PROVE  TypeOK'
  <2>1. [request[a] EXCEPT !.step = "commit", !.row = TRUE] \in SignUpRequest
    BY <1>a DEF SignUpRequest
  <2> QED
    BY <1>3, <2>1 DEF TypeOK, Insert, store
<1>4. ASSUME NEW a \in Attempts, InsertDuplicate(a)
      PROVE  TypeOK'
  <2>1. [request[a] EXCEPT !.step = "409"] \in SignUpRequest
    BY <1>a DEF SignUpRequest, Answers
  <2> QED
    BY <1>4, <2>1 DEF TypeOK, InsertDuplicate, store
<1>5. ASSUME NEW a \in Attempts, AnswerError(a)
      PROVE  request' \in [Attempts -> SignUpRequest]
  <2>1. [request[a] EXCEPT !.step = "500", !.row = FALSE] \in SignUpRequest
    BY <1>a DEF SignUpRequest, Answers
  <2> QED
    BY <1>5, <2>1 DEF TypeOK, AnswerError
<1>6. ASSUME NEW a \in Attempts, request[a].step = "commit"
      PROVE  NewAccount(a) \in Account
  BY <1>6 DEF IdInv, NewAccount, Account
<1>7. ASSUME NEW a \in Attempts, SaveFails(a)
      PROVE  TypeOK'
  BY <1>7, <1>5, <1>d DEF TypeOK, SaveFails, store
<1>19. ASSUME NEW a \in Attempts, Commit(a)
       PROVE  TypeOK'
  <2>1. [request[a] EXCEPT !.step = "201", !.row = FALSE] \in SignUpRequest
    BY <1>a DEF SignUpRequest, Answers
  <2> QED
    BY <1>19, <1>6, <2>1 DEF TypeOK, Commit
<1>20. ASSUME NEW a \in Attempts, CommitUnknown(a)
       PROVE  TypeOK'
  BY <1>20, <1>5, <1>6, <1>d DEF TypeOK, CommitUnknown
<1>8. ASSUME NEW s \in Sessions, NEW email \in Emails, NEW password \in Passwords,
             LogIn(s, email, password)
      PROVE  TypeOK'
  <2>1. PICK u \in users :
          Become(s, [session[s] EXCEPT !.step = "verify", !.read = u, !.since = now,
                                       !.typed = [email |-> email, password |-> password]])
    BY <1>8 DEF LogIn
  <2>2. session[s] \in Session /\ u \in Account /\ now \in 0..MaxTime
    BY DEF TypeOK
  <2>3. [session[s] EXCEPT !.step = "verify", !.read = u, !.since = now,
                           !.typed = [email |-> email, password |-> password]] \in Session
    BY <2>2 DEF Session, Credentials
  <2> QED
    BY <2>1, <2>3, <1>c DEF TypeOK, Become, store
<1>9. ASSUME NEW s \in Sessions, Verify(s)
      PROVE  TypeOK'
  <2> DEFINE next == [Finished(s) EXCEPT !.access = Token(session[s].read, AtAge),
                                         !.cookie = Token(session[s].read, RtAge),
                                         !.by = session[s].typed]
  <2>1. CASE session[s].typed.password = session[s].read.password
    <3>1. session[s].read \in Account
      BY <1>9 DEF Verify, RoleInv, Fresh
    <3>2. Token(session[s].read, AtAge) \in Tokens /\ Token(session[s].read, RtAge) \in Tokens
      BY <3>1, TokenType
    <3>3. next \in Session
      BY <3>2, <1>b, <1>c DEF Session
    <3>4. Become(s, next)
      BY <1>9, <2>1 DEF Verify
    <3> QED
      BY <3>3, <3>4 DEF TypeOK, Become, store
  <2>2. CASE session[s].typed.password # session[s].read.password
    BY <1>9, <2>2, <1>c DEF Verify, TypeOK, Become, store
  <2> QED
    BY <2>1, <2>2
<1>10. ASSUME NEW s \in Sessions, Refresh(s)
       PROVE  TypeOK'
  <2>1. [session[s] EXCEPT !.step = "refresh"] \in Session
    BY <1>b DEF Session
  <2> QED
    BY <1>10, <2>1 DEF TypeOK, Refresh, Become, store
<1>11. ASSUME NEW s \in Sessions, Renew(s)
       PROVE  TypeOK'
  <2>1. CASE Become(s, Finished(s))
    BY <2>1, <1>c DEF TypeOK, Become, store
  <2>2. ASSUME NEW u \in Found(s), NEW takes \in BOOLEAN,
               Become(s, [Finished(s) EXCEPT
                            !.access = Token(Subject(s, u), AtAge),
                            !.cookie = IF takes THEN Token(Subject(s, u), RtAge) ELSE @])
        PROVE  TypeOK'
    <3>1. u \in Account
      BY DEF Found, TypeOK
    <3>2. Token(Subject(s, u), AtAge) \in Tokens /\ Token(Subject(s, u), RtAge) \in Tokens
      BY <3>1, TokenType DEF Subject
    <3>3. [Finished(s) EXCEPT !.access = Token(Subject(s, u), AtAge),
                              !.cookie = IF takes THEN Token(Subject(s, u), RtAge) ELSE @] \in Session
      BY <3>2, <1>b, <1>c DEF Session
    <3> QED
      BY <2>2, <3>3, <1>c DEF TypeOK, Become, store
  <2> QED
    BY <1>11, <2>1, <2>2 DEF Renew
<1>12. ASSUME NEW s \in Sessions, RenewFails(s)
       PROVE  TypeOK'
  BY <1>12, <1>c, <1>d DEF TypeOK, RenewFails, store
<1>13. ASSUME NEW s \in Sessions, AdminCall(s)
       PROVE  TypeOK'
  <2>1. session[s].access \in Tokens
    BY DEF TypeOK, Session
  <2>2. session[s].access.sub \in Attempts
    BY <1>13 DEF AdminCall, SessionInv, Owned, NoToken
  <2>3. Lag(session[s].access.sub) \in Int
    BY <2>2 DEF Lag, TypeOK, Never
  <2> QED
    BY <1>13, <2>2, <2>3 DEF TypeOK, AdminCall, store
<1>14. ASSUME NEW u \in users, SetRole(u)
       PROVE  TypeOK'
  <2>1. Retired(u) \in [Attempts -> Never..MaxTime]
    BY DEF Retired, TypeOK, Never, Account
  <2>2. [u EXCEPT !.role = IF @ = "user" THEN "admin" ELSE "user"] \in Account
    BY DEF TypeOK, Account
  <2> QED
    BY <1>14, <2>1, <2>2 DEF TypeOK, SetRole
<1>15. ASSUME NEW u \in users, Remove(u)
       PROVE  TypeOK'
  <2>1. Retired(u) \in [Attempts -> Never..MaxTime]
    BY DEF Retired, TypeOK, Never, Account
  <2> QED
    BY <1>15, <2>1 DEF TypeOK, Remove
<1>16. ASSUME Tick
       PROVE  TypeOK'
  BY <1>16 DEF TypeOK, Tick, store
<1>17. ASSUME Crash
       PROVE  TypeOK'
  <2>1. request' \in [Attempts -> SignUpRequest]
    <3>1. \A a \in Attempts : [request[a] EXCEPT !.step = "cut", !.row = FALSE] \in SignUpRequest
      BY <1>a DEF SignUpRequest, Answers
    <3> QED
      BY <1>17, <1>a, <3>1 DEF Crash
  <2>2. session' \in [Sessions -> Session]
    BY <1>17, <1>b, <1>c DEF Crash
  <2>3. users' \subseteq Account
    BY <1>17, <1>6 DEF TypeOK, Crash
  <2> QED
    BY <1>17, <2>1, <2>2, <2>3, <1>d DEF TypeOK, Crash
<1>18. ASSUME UNCHANGED vars
       PROVE  TypeOK'
  BY <1>18 DEF TypeOK, vars, store
<1> QED
  BY <1>1, <1>2, <1>3, <1>4, <1>5, <1>6, <1>7, <1>8, <1>9, <1>10, <1>11, <1>12, <1>13, <1>14,
     <1>15, <1>16, <1>17, <1>18, <1>19, <1>20 DEF Next, Idle

-----------------------------------------------------------------------------
(* What a step does to the rows, the sessions and the time as an admin. *)

SameAccount(u, v) == u.id = v.id /\ u.email = v.email /\ u.password = v.password

(* The steps that change rows or sign-ups *)
LEMMA RowSteps ==
    ASSUME [Next]_vars
    PROVE  \/ \E a \in Attempts :
                 \/ \E email \in Emails, password \in Passwords : SignUp(a, email, password)
                 \/ Hash(a) \/ Insert(a) \/ InsertDuplicate(a) \/ SaveFails(a)
                 \/ Commit(a) \/ CommitUnknown(a)
           \/ \E u \in users : SetRole(u) \/ Remove(u)
           \/ Crash
           \/ UNCHANGED <<users, removed, request>>
BY DEF Next, Idle, vars, store, LogIn, Verify, Refresh, Renew, RenewFails, AdminCall, Tick, Become

(* The steps that change sessions *)
LEMMA SessionSteps ==
    ASSUME [Next]_vars
    PROVE  \/ \E s \in Sessions :
                 \/ \E email \in Emails, password \in Passwords : LogIn(s, email, password)
                 \/ Verify(s) \/ Refresh(s) \/ Renew(s) \/ RenewFails(s)
           \/ Crash
           \/ UNCHANGED session
BY DEF Next, Idle, vars, AdminCall, Tick, SignUp, Hash, Insert, InsertDuplicate, SaveFails,
   Commit, CommitUnknown, SetRole, Remove

(* A crash cuts the sign-ups that are under way off, and no other. *)
LEMMA CrashCuts ==
    ASSUME TypeOK, Crash, NEW a \in Attempts
    PROVE  IF request[a].step \in {"hash", "insert", "commit"}
           THEN /\ request'[a].step = "cut" /\ request'[a].row = FALSE
                /\ request'[a].email = request[a].email
                /\ request'[a].password = request[a].password
           ELSE request'[a] = request[a]
<1>1. request[a] \in SignUpRequest
  BY DEF TypeOK
<1>2. request'[a] = IF request[a].step \in {"hash", "insert", "commit"}
                    THEN [request[a] EXCEPT !.step = "cut", !.row = FALSE] ELSE request[a]
  BY DEF Crash
<1> QED
  BY <1>1, <1>2 DEF SignUpRequest

(* An account stays known under its id, e-mail and password. *)
LEMMA AccountsKept ==
    ASSUME IInv, [Next]_vars
    PROVE  \A u \in Known : \E v \in Known' : SameAccount(u, v)
<1>1. users \subseteq Account
  BY DEF IInv, TypeOK
<1>2. ASSUME NEW u \in users, SetRole(u)
      PROVE  \A w \in Known : \E v \in Known' : SameAccount(w, v)
  <2> DEFINE v == [u EXCEPT !.role = IF @ = "user" THEN "admin" ELSE "user"]
  <2>1. SameAccount(u, v)
    BY <1>1 DEF SameAccount, Account
  <2>2. users' = (users \ {u}) \cup {v} /\ removed' = removed
    BY <1>2 DEF SetRole
  <2> QED
    BY <2>1, <2>2 DEF Known, SameAccount
<1>3. ASSUME NEW u \in users, Remove(u)
      PROVE  \A w \in Known : \E v \in Known' : SameAccount(w, v)
  BY <1>3 DEF Remove, Known, SameAccount
<1> QED
  BY <1>2, <1>3, RowSteps DEF Known, SameAccount, SignUp, Hash, Insert, InsertDuplicate, SaveFails,
     Commit, CommitUnknown, Crash, store

(* An account that is new is that of a sign-up that was at its commit. *)
LEMMA AccountsAdded ==
    ASSUME IInv, [Next]_vars
    PROVE  \A v \in Known' :
              \/ \E u \in Known : SameAccount(u, v)
              \/ /\ v.id \in Attempts /\ request[v.id].step = "commit"
                 /\ SameAccount(v, NewAccount(v.id))
                 /\ request'[v.id].step \in {"201", "500", "cut"}
<1>1. users \subseteq Account /\ request \in [Attempts -> SignUpRequest]
  BY DEF IInv, TypeOK
<1> DEFINE Explained(v) ==
              \/ \E u \in Known : SameAccount(u, v)
              \/ /\ v.id \in Attempts /\ request[v.id].step = "commit"
                 /\ SameAccount(v, NewAccount(v.id))
                 /\ request'[v.id].step \in {"201", "500", "cut"}
<1>2. ASSUME NEW u \in users, SetRole(u)
      PROVE  \A v \in Known' : Explained(v)
  <2> DEFINE r == [u EXCEPT !.role = IF @ = "user" THEN "admin" ELSE "user"]
  <2>1. SameAccount(u, r)
    BY <1>1 DEF SameAccount, Account
  <2>2. users' = (users \ {u}) \cup {r} /\ removed' = removed
    BY <1>2 DEF SetRole
  <2> QED
    BY <2>1, <2>2 DEF Known, SameAccount
<1>3. ASSUME NEW a \in Attempts, Commit(a)
      PROVE  \A v \in Known' : Explained(v)
  BY <1>1, <1>3 DEF Commit, Known, SameAccount, NewAccount, SignUpRequest
<1>4. ASSUME NEW a \in Attempts, CommitUnknown(a)
      PROVE  \A v \in Known' : Explained(v)
  BY <1>1, <1>4 DEF CommitUnknown, AnswerError, Known, SameAccount, NewAccount, SignUpRequest
<1>5. ASSUME Crash
      PROVE  \A v \in Known' : Explained(v)
  <2>1. PICK last \in SUBSET {a \in Attempts : request[a].step = "commit"} :
          users' = users \cup {NewAccount(a) : a \in last}
    BY <1>5 DEF Crash
  <2>2. \A a \in last : request[a].step = "commit" /\ request'[a].step = "cut"
    BY <1>5, CrashCuts DEF IInv
  <2>3. \A a \in last : NewAccount(a).id = a
    BY DEF NewAccount
  <2>4. removed' = removed
    BY <1>5 DEF Crash
  <2>5. ASSUME NEW a \in last
        PROVE  Explained(NewAccount(a))
    BY <2>2, <2>3 DEF SameAccount
  <2>6. ASSUME NEW v \in Known
        PROVE  Explained(v)
    BY DEF SameAccount
  <2> QED
    BY <2>1, <2>4, <2>5, <2>6 DEF Known
<1>6. ASSUME NEW u \in users, Remove(u)
      PROVE  \A v \in Known' : Explained(v)
  BY <1>6 DEF Remove, Known, SameAccount
<1>7. ASSUME UNCHANGED <<users, removed>>
      PROVE  \A v \in Known' : Explained(v)
  BY <1>7 DEF Known, SameAccount
<1> QED
  BY <1>2, <1>3, <1>4, <1>5, <1>6, <1>7, RowSteps DEF SignUp, Hash, Insert, InsertDuplicate,
     SaveFails, store

(* An account that was an admin at some time stays one that was. *)
LEMMA AdminKept ==
    ASSUME IInv, [Next]_vars, NEW a \in Attempts, NEW t \in Int, t <= now, AdminUpTo(a, t)
    PROVE  AdminUpTo(a, t)'
<1>1. users \subseteq Account /\ adminUntil \in [Attempts -> Never..MaxTime] /\ now \in Int
  BY AccountsAssumption DEF IInv, TypeOK
<1>2. ASSUME NEW u \in users, SetRole(u)
      PROVE  AdminUpTo(a, t)'
  BY <1>1, <1>2 DEF SetRole, Retired, AdminUpTo, Account
<1>3. ASSUME NEW u \in users, Remove(u)
      PROVE  AdminUpTo(a, t)'
  BY <1>1, <1>3 DEF Remove, Retired, AdminUpTo, Account
<1>4. ASSUME users \subseteq users', UNCHANGED adminUntil
      PROVE  AdminUpTo(a, t)'
  BY <1>4 DEF AdminUpTo
<1>5. \/ \E u \in users : SetRole(u) \/ Remove(u)
      \/ users \subseteq users' /\ UNCHANGED adminUntil
  BY DEF Next, Idle, vars, store, LogIn, Verify, Refresh, Renew, RenewFails, AdminCall, Tick, Become,
     SignUp, Hash, Insert, InsertDuplicate, SaveFails, Commit, CommitUnknown, Crash
<1> QED
  BY <1>2, <1>3, <1>4, <1>5

(* Only a tick moves the clock. *)
LEMMA TimePasses == ASSUME [Next]_vars PROVE now' = now \/ Tick
BY DEF Next, Idle, vars, store, LogIn, Verify, Refresh, Renew, RenewFails, AdminCall, Become,
   SignUp, Hash, Insert, InsertDuplicate, SaveFails, Commit, CommitUnknown, Crash, SetRole, Remove


-----------------------------------------------------------------------------
(* The invariant: one lemma per conjunct, one step per action that can
   disturb it. *)

LEMMA IdStep == IInv /\ [Next]_vars => IdInv'
<1> SUFFICES ASSUME IInv, [Next]_vars
             PROVE  IdInv'
  OBVIOUS
<1>1. /\ users \subseteq Account /\ removed \subseteq Account
      /\ request \in [Attempts -> SignUpRequest]
  BY DEF IInv, TypeOK
<1>2. IdInv
  BY DEF IInv
<1> DEFINE SignUpStep(b) ==
        /\ request'[b].step # "idle" =>
              request'[b].email \in Emails /\ request'[b].password \in Passwords
        /\ request'[b].row <=> request'[b].step = "commit"
        /\ request[b].step \in {"201", "500", "cut"} => request'[b] = request[b]
<1>3. \A b \in Attempts : SignUpStep(b)
  <2>1. ASSUME NEW a \in Attempts, NEW email \in Emails, NEW password \in Passwords,
               SignUp(a, email, password)
        PROVE  \A b \in Attempts : SignUpStep(b)
    BY <1>1, <1>2, <2>1 DEF SignUp, IdInv, SignUpRequest
  <2>2. ASSUME NEW a \in Attempts,
               Hash(a) \/ Insert(a) \/ InsertDuplicate(a) \/ Commit(a)
        PROVE  \A b \in Attempts : SignUpStep(b)
    BY <1>1, <1>2, <2>2 DEF Hash, Insert, InsertDuplicate, Commit, IdInv, SignUpRequest
  <2>3. ASSUME NEW a \in Attempts, SaveFails(a) \/ CommitUnknown(a)
        PROVE  \A b \in Attempts : SignUpStep(b)
    BY <1>1, <1>2, <2>3 DEF SaveFails, CommitUnknown, AnswerError, IdInv, SignUpRequest
  <2>4. CASE Crash
    BY <1>2, <2>4, CrashCuts DEF IInv, IdInv
  <2>5. CASE UNCHANGED request
    BY <1>2, <2>5 DEF IdInv
  <2> QED
    BY <2>1, <2>2, <2>3, <2>4, <2>5, RowSteps DEF SetRole, Remove
<1>4. \A u \in Known' : request'[u.id].step \in {"201", "500", "cut"}
  <2>1. \A u \in Known : u.id \in Attempts
    BY <1>1 DEF Known, Account
  <2> QED
    BY <1>2, <1>3, <2>1, AccountsAdded DEF IdInv, SameAccount
<1>5. \A u, v \in users' : u.id = v.id => u = v
  <2>1. ASSUME NEW w \in users, SetRole(w)
        PROVE  \A u, v \in users' : u.id = v.id => u = v
    <3> DEFINE r == [w EXCEPT !.role = IF @ = "user" THEN "admin" ELSE "user"]
    <3>1. r.id = w.id
      BY <1>1 DEF Account
    <3>2. users' = (users \ {w}) \cup {r}
      BY <2>1 DEF SetRole
    <3>3. \A u, v \in users : u.id = v.id => u = v
      BY <1>2 DEF IdInv
    <3> HIDE DEF r
    <3> QED
      BY <3>1, <3>2, <3>3
  <2>2. ASSUME NEW w \in users, Remove(w)
        PROVE  \A u, v \in users' : u.id = v.id => u = v
    BY <1>2, <2>2 DEF Remove, IdInv
  <2>3. ASSUME NEW a \in Attempts, Commit(a) \/ CommitUnknown(a)
        PROVE  \A u, v \in users' : u.id = v.id => u = v
    <3>1. request[a].step = "commit" /\ users' = users \cup {NewAccount(a)}
      BY <2>3 DEF Commit, CommitUnknown
    <3>2. \A u \in users : u.id # a
      BY <1>2, <3>1 DEF IdInv, Known
    <3>3. NewAccount(a).id = a
      BY DEF NewAccount
    <3> QED
      BY <1>2, <3>1, <3>2, <3>3 DEF IdInv
  <2>4. CASE Crash
    <3>1. PICK last \in SUBSET {a \in Attempts : request[a].step = "commit"} :
            users' = users \cup {NewAccount(a) : a \in last}
      BY <2>4 DEF Crash
    <3>2. \A a \in last, u \in users : u.id # a
      BY <1>2 DEF IdInv, Known
    <3>3. \A a \in last : NewAccount(a).id = a
      BY DEF NewAccount
    <3>4. SUFFICES ASSUME NEW u \in users', NEW v \in users', u.id = v.id
                   PROVE  u = v
      OBVIOUS
    <3>5. \/ u \in users \/ \E a \in last : u = NewAccount(a)
      BY <3>1
    <3>6. \/ v \in users \/ \E a \in last : v = NewAccount(a)
      BY <3>1
    <3> QED
      BY <1>2, <3>2, <3>3, <3>4, <3>5, <3>6 DEF IdInv
  <2>5. CASE UNCHANGED users
    BY <1>2, <2>5 DEF IdInv
  <2> QED
    BY <2>1, <2>2, <2>3, <2>4, <2>5, RowSteps DEF SignUp, Hash, Insert, InsertDuplicate, SaveFails,
       store
<1> QED
  BY <1>3, <1>4, <1>5 DEF IdInv


LEMMA EmailStep == IInv /\ [Next]_vars => OneAccountPerEmail'
<1> SUFFICES ASSUME IInv, [Next]_vars
             PROVE  OneAccountPerEmail'
  OBVIOUS
<1>1. users \subseteq Account /\ request \in [Attempts -> SignUpRequest]
  BY DEF IInv, TypeOK
<1>2. IdInv /\ OneAccountPerEmail
  BY DEF IInv
<1>3. ASSUME \A a \in Attempts : request'[a].row =>
                 request[a].row /\ request'[a].email = request[a].email,
             \A v \in users' : \E u \in users : SameAccount(u, v)
      PROVE  OneAccountPerEmail'
  BY <1>2, <1>3 DEF OneAccountPerEmail, Taken, SameAccount
<1>4. ASSUME NEW a \in Attempts, NEW email \in Emails, NEW password \in Passwords,
             SignUp(a, email, password)
      PROVE  OneAccountPerEmail'
  <2>1. ~ request[a].row
    BY <1>2, <1>4 DEF SignUp, IdInv
  <2>2. \A b \in Attempts :
          request'[b].row => request[b].row /\ request'[b].email = request[b].email
    BY <1>1, <1>4, <2>1 DEF SignUp, SignUpRequest
  <2> QED
    BY <1>3, <1>4, <2>2 DEF SignUp, SameAccount, store
<1>5. ASSUME NEW a \in Attempts, Hash(a) \/ InsertDuplicate(a) \/ SaveFails(a)
      PROVE  OneAccountPerEmail'
  <2>1. \A b \in Attempts :
          request'[b].row => request[b].row /\ request'[b].email = request[b].email
    BY <1>1, <1>5 DEF Hash, InsertDuplicate, SaveFails, AnswerError, SignUpRequest
  <2> QED
    BY <1>3, <1>5, <2>1 DEF Hash, InsertDuplicate, SaveFails, SameAccount, store
<1>6. ASSUME NEW a \in Attempts, Insert(a)
      PROVE  OneAccountPerEmail'
  <2>1. \A b \in Attempts : /\ request'[b].email = request[b].email
                            /\ request'[b].row <=> request[b].row \/ b = a
    BY <1>1, <1>6 DEF Insert, SignUpRequest
  <2>2. EmailFree(a) /\ UNCHANGED users
    BY <1>6 DEF Insert, store
  <2> QED
    BY <1>2, <2>1, <2>2 DEF OneAccountPerEmail, EmailFree, Taken
<1>7. ASSUME NEW a \in Attempts, Commit(a) \/ CommitUnknown(a)
      PROVE  OneAccountPerEmail'
  <2>1. request[a].row /\ users' = users \cup {NewAccount(a)}
    BY <1>2, <1>7 DEF Commit, CommitUnknown, IdInv
  <2>2. \A b \in Attempts : /\ request'[b].email = request[b].email
                            /\ request'[b].row <=> request[b].row /\ b # a
    BY <1>1, <1>7 DEF Commit, CommitUnknown, AnswerError, SignUpRequest
  <2>3. NewAccount(a).id = a /\ NewAccount(a).email = request[a].email
    BY DEF NewAccount
  <2> QED
    BY <1>2, <2>1, <2>2, <2>3 DEF OneAccountPerEmail, Taken
<1>8. ASSUME NEW u \in users, SetRole(u)
      PROVE  OneAccountPerEmail'
  <2> DEFINE r == [u EXCEPT !.role = IF @ = "user" THEN "admin" ELSE "user"]
  <2>1. SameAccount(u, r)
    BY <1>1 DEF SameAccount, Account
  <2>2. users' = (users \ {u}) \cup {r} /\ request' = request
    BY <1>8 DEF SetRole
  <2>3. \A v \in users' : \E w \in users : SameAccount(w, v)
    BY <2>1, <2>2 DEF SameAccount
  <2> QED
    BY <1>3, <2>2, <2>3
<1>9. ASSUME NEW u \in users, Remove(u)
      PROVE  OneAccountPerEmail'
  BY <1>3, <1>9 DEF Remove, SameAccount
<1>10. CASE Crash
  <2>1. PICK last \in SUBSET {a \in Attempts : request[a].step = "commit"} :
          users' = users \cup {NewAccount(a) : a \in last}
    BY <1>10 DEF Crash
  <2>2. \A a \in last : /\ request[a].row
                        /\ NewAccount(a).id = a /\ NewAccount(a).email = request[a].email
    BY <1>2 DEF IdInv, NewAccount
  <2>3. \A a \in Attempts : ~ request'[a].row
    BY <1>2, <1>10, CrashCuts DEF IInv, IdInv
  <2>4. \A u \in users, a \in last : u.email # request[a].email
    BY <1>2, <2>2 DEF OneAccountPerEmail, Taken
  <2>5. \A a, b \in last : request[a].email = request[b].email => a = b
    BY <1>2, <2>2 DEF OneAccountPerEmail
  <2>6. ASSUME NEW u \in users', NEW v \in users', u.email = v.email
        PROVE  u.id = v.id
    <3>1. u \in users \/ \E a \in last : u = NewAccount(a)
      BY <2>1
    <3>2. v \in users \/ \E a \in last : v = NewAccount(a)
      BY <2>1
    <3> QED
      BY <1>2, <2>2, <2>4, <2>5, <2>6, <3>1, <3>2 DEF OneAccountPerEmail
  <2> QED
    BY <2>3, <2>6 DEF OneAccountPerEmail
<1>11. CASE UNCHANGED <<users, removed, request>>
  BY <1>3, <1>11 DEF SameAccount
<1> QED
  BY <1>4, <1>5, <1>6, <1>7, <1>8, <1>9, <1>10, <1>11, RowSteps

LEMMA TruthStep == IInv /\ [Next]_vars => SignUpTruth'
<1> SUFFICES ASSUME IInv, [Next]_vars
             PROVE  SignUpTruth'
  OBVIOUS
<1> DEFINE Own(a) == \E u \in Known : u.id = a
           EmailKnown(a) == \E u \in Known : u.email = request[a].email
           Truth(a) == /\ request[a].step = "201" => Own(a)
                       /\ request[a].step = "409" => ~ Own(a) /\ EmailKnown(a)
                       /\ Own(a) => request[a].step \in {"201", "500", "cut"}
<1>1. request \in [Attempts -> SignUpRequest] /\ IdInv
  BY DEF IInv, TypeOK
<1>2. \A a \in Attempts : Truth(a)
  BY DEF IInv, SignUpTruth, Known
<1>3. ASSUME NEW a \in Attempts, request'[a] = request[a]
      PROVE  Truth(a)'
  BY <1>2, <1>3, AccountsKept, AccountsAdded DEF SameAccount
<1>4. ASSUME NEW a \in Attempts, request'[a].step \in {"500", "cut"}
      PROVE  Truth(a)'
  BY <1>4
<1>5. ASSUME NEW a \in Attempts, request'[a].step \in {"hash", "insert", "commit"},
             request[a].step \in {"idle", "hash", "insert"}
      PROVE  Truth(a)'
  BY <1>2, <1>5, AccountsAdded DEF SameAccount
<1>6. ASSUME NEW a \in Attempts,
             \/ \E email \in Emails, password \in Passwords : SignUp(a, email, password)
             \/ Hash(a) \/ Insert(a)
      PROVE  \A b \in Attempts : Truth(b)'
  <2>1. /\ request'[a].step \in {"hash", "insert", "commit"}
        /\ request[a].step \in {"idle", "hash", "insert"}
        /\ \A b \in Attempts \ {a} : request'[b] = request[b]
    <3>1. CASE Hash(a) \/ Insert(a)
      BY <1>1, <3>1 DEF Hash, Insert, SignUpRequest
    <3>2. ASSUME NEW email \in Emails, NEW password \in Passwords, SignUp(a, email, password)
          PROVE  /\ request'[a].step = "hash" /\ request[a].step = "idle"
                 /\ \A b \in Attempts \ {a} : request'[b] = request[b]
      BY <1>1, <3>2 DEF SignUp, SignUpRequest
    <3> QED
      BY <1>6, <3>1, <3>2
  <2> QED
    BY <1>3, <1>5, <2>1
<1>7. ASSUME NEW a \in Attempts, InsertDuplicate(a)
      PROVE  \A b \in Attempts : Truth(b)'
  <2>1. /\ request[a].step = "insert" /\ request'[a].step = "409"
        /\ request'[a].email = request[a].email
        /\ \A b \in Attempts \ {a} : request'[b] = request[b]
    BY <1>1, <1>7 DEF InsertDuplicate, SignUpRequest
  <2>2. ~ Own(a) /\ EmailKnown(a)
    BY <1>2, <1>7, <2>1 DEF InsertDuplicate, Taken, Known
  <2>3. ~ Own(a)' /\ EmailKnown(a)'
    BY <2>1, <2>2, AccountsKept, AccountsAdded DEF SameAccount
  <2> QED
    BY <1>3, <2>1, <2>3
<1>8. ASSUME NEW a \in Attempts, SaveFails(a) \/ CommitUnknown(a)
      PROVE  \A b \in Attempts : Truth(b)'
  <2>1. /\ request'[a].step = "500"
        /\ \A b \in Attempts \ {a} : request'[b] = request[b]
    BY <1>1, <1>8 DEF SaveFails, CommitUnknown, AnswerError, SignUpRequest
  <2> QED
    BY <1>3, <1>4, <2>1
<1>9. ASSUME NEW a \in Attempts, Commit(a)
      PROVE  \A b \in Attempts : Truth(b)'
  <2>1. /\ request'[a].step = "201"
        /\ \A b \in Attempts \ {a} : request'[b] = request[b]
        /\ NewAccount(a) \in users'
    BY <1>1, <1>9 DEF Commit, SignUpRequest
  <2>2. Own(a)'
    BY <2>1 DEF Known, NewAccount
  <2> QED
    BY <1>3, <2>1, <2>2
<1>10. ASSUME Crash
       PROVE  \A b \in Attempts : Truth(b)'
  BY <1>3, <1>4, <1>10, CrashCuts DEF IInv
<1>11. ASSUME UNCHANGED request
       PROVE  \A b \in Attempts : Truth(b)'
  BY <1>3, <1>11
<1>12. \A b \in Attempts : Truth(b)'
  BY <1>6, <1>7, <1>8, <1>9, <1>10, <1>11, RowSteps DEF SetRole, Remove
<1> QED
  BY <1>12 DEF SignUpTruth, Known


LEMMA SessionStep == IInv /\ [Next]_vars => SessionInv'
<1> SUFFICES ASSUME IInv, [Next]_vars
             PROVE  SessionInv'
  OBVIOUS
<1>1. /\ users \subseteq Account
      /\ session \in [Sessions -> Session]
      /\ \A s \in Sessions : Owned(session[s])
      /\ TypeOK /\ RoleInv
  BY DEF IInv, TypeOK, SessionInv
<1>2. ASSUME NEW s \in Sessions, session'[s] = session[s]
      PROVE  Owned(session[s])'
  BY <1>1, <1>2, AccountsKept DEF Owned, SameAccount
<1>3. \A s \in Sessions : /\ Finished(s).step = "idle" /\ Finished(s).access = session[s].access
                          /\ Finished(s).cookie = session[s].cookie /\ Finished(s).by = session[s].by
  BY <1>1 DEF Finished, Session
<1>4. ASSUME NEW s \in Sessions, session'[s] = Finished(s)
      PROVE  Owned(session[s])'
  <2>1. Owned(session[s])
    BY <1>1
  <2> QED
    BY <2>1, <1>3, <1>4, AccountsKept DEF Owned, SameAccount
<1>5. ASSUME NEW s \in Sessions, NEW next, Become(s, next), next.step # "verify",
             next.access = session[s].access, next.cookie = session[s].cookie,
             next.by = session[s].by
      PROVE  SessionInv'
  <2>1. session' = [session EXCEPT ![s] = next]
    BY <1>5 DEF Become
  <2>2. \A t \in Sessions \ {s} : session'[t] = session[t]
    BY <1>1, <2>1
  <2>3. session'[s] = next
    BY <1>1, <2>1
  <2>4. Owned(session[s])
    BY <1>1
  <2>5. Owned(session[s])'
    BY <1>5, <2>3, <2>4, AccountsKept DEF Owned, SameAccount
  <2> QED
    BY <1>2, <2>2, <2>5 DEF SessionInv
<1>6. ASSUME NEW s \in Sessions, NEW email \in Emails, NEW password \in Passwords,
             LogIn(s, email, password)
      PROVE  SessionInv'
  <2>1. PICK u \in users :
          /\ u.email = email
          /\ Become(s, [session[s] EXCEPT !.step = "verify", !.read = u, !.since = now,
                                          !.typed = [email |-> email, password |-> password]])
    BY <1>6 DEF LogIn
  <2>2. UNCHANGED Known
    BY <2>1 DEF Become, store, Known
  <2>3. /\ session'[s].access = session[s].access /\ session'[s].cookie = session[s].cookie
        /\ session'[s].by = session[s].by /\ session'[s].read = u
        /\ session'[s].typed.email = email
        /\ \A t \in Sessions \ {s} : session'[t] = session[t]
    BY <1>1, <2>1 DEF Become, Session
  <2>4. Owned(session[s])
    BY <1>1
  <2>5. Owned(session[s])'
    BY <2>1, <2>2, <2>3, <2>4 DEF Owned, Known
  <2> QED
    BY <1>2, <2>3, <2>5 DEF SessionInv
<1>7. ASSUME NEW s \in Sessions, Verify(s)
      PROVE  SessionInv'
  <2>1. CASE session[s].typed.password # session[s].read.password
    <3>1. Become(s, Finished(s))
      BY <1>7, <2>1 DEF Verify
    <3> QED
      BY <1>3, <1>5, <3>1
  <2>2. CASE session[s].typed.password = session[s].read.password
    <3>1. session[s].read \in Account
      BY <1>1, <1>7 DEF Verify, RoleInv, Fresh
    <3>2. Become(s, [Finished(s) EXCEPT !.access = Token(session[s].read, AtAge),
                                        !.cookie = Token(session[s].read, RtAge),
                                        !.by = session[s].typed])
      BY <1>7, <2>2 DEF Verify
    <3>3. UNCHANGED Known
      BY <3>2 DEF Become, store, Known
    <3>4. /\ session'[s].access = Token(session[s].read, AtAge)
          /\ session'[s].cookie = Token(session[s].read, RtAge)
          /\ session'[s].by = session[s].typed /\ session'[s].step = "idle"
          /\ \A t \in Sessions \ {s} : session'[t] = session[t]
      BY <1>1, <3>2 DEF Become, Session, Finished
    <3>5. Token(session[s].read, AtAge).sub = session[s].read.id
      BY <1>1, <3>1, TokenType
    <3>6. Token(session[s].read, RtAge).sub = session[s].read.id
      BY <1>1, <3>1, TokenType
    <3>7. session[s].read.id \in Attempts
      BY <3>1 DEF Account
    <3>8. PICK u \in Known : /\ u.id = session[s].read.id
                             /\ session[s].read.password = u.password
                             /\ session[s].typed.email = u.email
      BY <1>1, <1>7 DEF Verify, Owned
    <3>9. Owned(session[s])'
      BY <2>2, <3>3, <3>4, <3>5, <3>6, <3>7, <3>8 DEF Owned
    <3> QED
      BY <1>2, <3>4, <3>9 DEF SessionInv
  <2> QED
    BY <2>1, <2>2
<1>8. ASSUME NEW s \in Sessions, Refresh(s)
      PROVE  SessionInv'
  <2> DEFINE next == [session[s] EXCEPT !.step = "refresh"]
  <2>1. Become(s, next)
    BY <1>8 DEF Refresh
  <2>2. /\ next.step # "verify" /\ next.access = session[s].access
        /\ next.cookie = session[s].cookie /\ next.by = session[s].by
    BY <1>1 DEF Session
  <2> QED
    BY <1>5, <2>1, <2>2
<1>9. ASSUME NEW s \in Sessions, Renew(s)
      PROVE  SessionInv'
  <2>1. CASE Become(s, Finished(s))
    BY <1>3, <1>5, <2>1
  <2>2. ASSUME NEW u \in Found(s), NEW takes \in BOOLEAN,
               Become(s, [Finished(s) EXCEPT
                            !.access = Token(Subject(s, u), AtAge),
                            !.cookie = IF takes THEN Token(Subject(s, u), RtAge) ELSE @])
        PROVE  SessionInv'
    <3>1. u \in Account /\ u.id = session[s].cookie.sub
      BY <1>1 DEF Found
    <3>2. UNCHANGED Known
      BY <2>2 DEF Become, store, Known
    <3>3. /\ session'[s].access = Token(u, AtAge)
          /\ session'[s].cookie = IF takes THEN Token(u, RtAge) ELSE session[s].cookie
          /\ session'[s].by = session[s].by /\ session'[s].step = "idle"
          /\ \A t \in Sessions \ {s} : session'[t] = session[t]
      BY <1>1, <2>2 DEF Become, Session, Finished, Subject
    <3>4. Token(u, AtAge).sub = u.id
      BY <1>1, <3>1, TokenType
    <3>5. Token(u, RtAge).sub = u.id
      BY <1>1, <3>1, TokenType
    <3>6. u.id \in Attempts
      BY <3>1 DEF Account
    <3>7. Owned(session[s])
      BY <1>1
    <3>8. Owned(session[s])'
      BY <3>1, <3>2, <3>3, <3>4, <3>5, <3>6, <3>7 DEF Owned
    <3> QED
      BY <1>2, <3>3, <3>8 DEF SessionInv
  <2> QED
    BY <1>9, <2>1, <2>2 DEF Renew
<1>10. ASSUME NEW s \in Sessions, RenewFails(s)
       PROVE  SessionInv'
  <2>1. session' = [session EXCEPT ![s] = Finished(s)]
    BY <1>10 DEF RenewFails
  <2> QED
    BY <1>1, <1>2, <1>4, <2>1 DEF SessionInv
<1>11. CASE Crash
  BY <1>2, <1>4, <1>11 DEF Crash, SessionInv
<1>12. CASE UNCHANGED session
  BY <1>2, <1>12 DEF SessionInv
<1> QED
  BY <1>6, <1>7, <1>8, <1>9, <1>10, <1>11, <1>12, SessionSteps


LEMMA RoleStep == IInv /\ [Next]_vars => RoleInv'
<1> SUFFICES ASSUME IInv, [Next]_vars
             PROVE  RoleInv'
  OBVIOUS
<1> USE AccountsAssumption
<1>1. /\ users \subseteq Account
      /\ adminUntil \in [Attempts -> Never..MaxTime]
      /\ now \in Nat
      /\ session \in [Sessions -> Session]
      /\ \A s \in Sessions : Owned(session[s]) /\ Fresh(session[s])
      /\ TypeOK
  BY DEF IInv, TypeOK, SessionInv, RoleInv
<1>2. now' \in {now, now + 1}
  BY TimePasses DEF Tick
<1>3. \A s \in Sessions : /\ session[s].access.exp \in Nat /\ session[s].since \in Nat
                          /\ session[s].access.role = "admin" => session[s].access.sub \in Attempts
  <2>1. \A s \in Sessions : session[s].access \in Tokens /\ session[s].since \in 0..MaxTime
    BY <1>1 DEF Session
  <2> QED
    BY <1>1, <2>1 DEF Tokens, Owned, NoToken
<1>4. \A id \in Attempts, t \in Int : t <= now /\ AdminUpTo(id, t) => AdminUpTo(id, t)'
  BY AdminKept
<1>5. ASSUME NEW s \in Sessions
      PROVE  /\ session[s].access.exp <= now' + AtAge
             /\ session[s].access.role = "admin" =>
                   \/ \E u \in users' : u.id = session[s].access.sub /\ u.role = "admin"
                   \/ session[s].access.exp - AtAge - VerifyTime <= adminUntil'[session[s].access.sub]
  BY <1>1, <1>2, <1>3, <1>4 DEF Fresh, AdminUpTo
<1>6. ASSUME NEW s \in Sessions, session'[s] = session[s],
             session[s].step = "verify" => now' - session[s].since <= VerifyTime
      PROVE  Fresh(session[s])'
  <2>1. session[s].step = "verify" /\ session[s].read.role = "admin" =>
            \/ \E u \in users' : u.id = session[s].read.id /\ u.role = "admin"
            \/ session[s].since <= adminUntil'[session[s].read.id]
    BY <1>1, <1>3, <1>4 DEF Fresh, AdminUpTo, Account
  <2>2. Fresh(session[s])
    BY <1>1
  <2> QED
    BY <1>1, <1>2, <1>3, <1>5, <1>6, <2>1, <2>2 DEF Fresh, AdminUpTo
<1>7. ASSUME NEW s \in Sessions, session'[s].access = session[s].access,
             session'[s].step # "verify"
      PROVE  Fresh(session[s])'
  BY <1>5, <1>7 DEF Fresh, AdminUpTo
<1>8. \A s \in Sessions : Finished(s).step = "idle" /\ Finished(s).access = session[s].access
  BY <1>1 DEF Finished, Session
<1>9. ASSUME NEW s \in Sessions, NEW next, Become(s, next)
      PROVE  /\ session'[s] = next /\ UNCHANGED <<users, adminUntil, now>>
             /\ \A t \in Sessions \ {s} : Fresh(session[t])'
  <2>1. session' = [session EXCEPT ![s] = next] /\ UNCHANGED <<users, adminUntil, now>>
    BY <1>9 DEF Become, store
  <2>2. \A t \in Sessions \ {s} : session'[t] = session[t]
    BY <1>1, <2>1
  <2>3. \A t \in Sessions : session[t].step = "verify" => now' - session[t].since <= VerifyTime
    BY <1>1, <2>1 DEF Fresh
  <2> QED
    BY <1>1, <1>6, <2>1, <2>2, <2>3
<1>10. ASSUME NEW s \in Sessions, NEW email \in Emails, NEW password \in Passwords,
              LogIn(s, email, password)
       PROVE  RoleInv'
  <2>1. PICK u \in users :
          Become(s, [session[s] EXCEPT !.step = "verify", !.read = u, !.since = now,
                                       !.typed = [email |-> email, password |-> password]])
    BY <1>10 DEF LogIn
  <2>2. /\ session'[s].access = session[s].access
        /\ session'[s].read = u /\ session'[s].since = now
    <3>1. session'[s] = [session[s] EXCEPT !.step = "verify", !.read = u, !.since = now,
                                 !.typed = [email |-> email, password |-> password]]
      BY <1>9, <2>1
    <3> QED
      BY <1>1, <3>1 DEF Session
  <2>3. UNCHANGED <<users, adminUntil, now>>
    BY <1>9, <2>1
  <2>4. Fresh(session[s])'
    BY <1>1, <1>5, <2>2, <2>3 DEF Fresh, AdminUpTo
  <2> QED
    BY <1>9, <2>1, <2>4 DEF RoleInv
<1>11. ASSUME NEW s \in Sessions, Verify(s)
       PROVE  RoleInv'
  <2>1. CASE session[s].typed.password # session[s].read.password
    <3>1. Become(s, Finished(s))
      BY <1>11, <2>1 DEF Verify
    <3> QED
      BY <1>7, <1>8, <1>9, <3>1 DEF RoleInv
  <2>2. CASE session[s].typed.password = session[s].read.password
    <3> DEFINE token == Token(session[s].read, AtAge)
    <3>1. Become(s, [Finished(s) EXCEPT !.access = token,
                                        !.cookie = Token(session[s].read, RtAge),
                                        !.by = session[s].typed])
      BY <1>11, <2>2 DEF Verify
    <3>2. session'[s].access = token /\ session'[s].step = "idle"
      <4>1. session'[s] = [Finished(s) EXCEPT !.access = token,
                                              !.cookie = Token(session[s].read, RtAge),
                                              !.by = session[s].typed]
        BY <1>9, <3>1
      <4> QED
        BY <1>1, <4>1 DEF Session, Finished
    <3>3. /\ now - session[s].since <= VerifyTime /\ session[s].read \in Account
          /\ session[s].read.role = "admin" => AdminUpTo(session[s].read.id, session[s].since)
      BY <1>1, <1>11 DEF Verify, Fresh
    <3>4. token.sub = session[s].read.id /\ token.role = session[s].read.role /\ token.exp = now + AtAge
      BY <1>1, <3>3, TokenType
    <3>5. session[s].read.id \in Attempts
      BY <3>3 DEF Account
    <3>6. UNCHANGED <<users, adminUntil, now>>
      BY <1>9, <3>1
    <3> HIDE DEF token
    <3>7. token.role = "admin" =>
             \/ \E u \in users : u.id = token.sub /\ u.role = "admin"
             \/ now - VerifyTime <= adminUntil[token.sub]
      <4>1. adminUntil[session[s].read.id] \in Int
        BY <1>1, <3>5 DEF Never
      <4> QED
        BY <1>1, <1>3, <3>3, <3>4, <4>1 DEF AdminUpTo
    <3>8. token.exp - AtAge - VerifyTime = now - VerifyTime
      BY <1>1, <3>4
    <3>9. Fresh(session[s])'
      BY <1>1, <3>2, <3>4, <3>6, <3>7, <3>8 DEF Fresh, AdminUpTo
    <3> QED
      BY <1>9, <3>1, <3>9 DEF RoleInv
  <2> QED
    BY <2>1, <2>2
<1>12. ASSUME NEW s \in Sessions, Refresh(s)
       PROVE  RoleInv'
  <2>1. Become(s, [session[s] EXCEPT !.step = "refresh"])
    BY <1>12 DEF Refresh
  <2>2. session'[s].access = session[s].access /\ session'[s].step = "refresh"
    BY <1>1, <1>9, <2>1 DEF Session
  <2> QED
    BY <1>7, <1>9, <2>1, <2>2 DEF RoleInv
<1>13. ASSUME NEW s \in Sessions, Renew(s)
       PROVE  RoleInv'
  <2>1. CASE Become(s, Finished(s))
    BY <1>7, <1>8, <1>9, <2>1 DEF RoleInv
  <2>2. ASSUME NEW u \in Found(s), NEW takes \in BOOLEAN,
               Become(s, [Finished(s) EXCEPT
                            !.access = Token(Subject(s, u), AtAge),
                            !.cookie = IF takes THEN Token(Subject(s, u), RtAge) ELSE @])
        PROVE  RoleInv'
    <3>1. u \in users /\ u \in Account
      BY <1>1 DEF Found
    <3>2. session'[s].access = Token(u, AtAge) /\ session'[s].step = "idle"
      <4>1. session'[s] = [Finished(s) EXCEPT
                             !.access = Token(u, AtAge),
                             !.cookie = IF takes THEN Token(u, RtAge) ELSE @]
        BY <1>9, <2>2 DEF Subject
      <4> QED
        BY <1>1, <4>1 DEF Session, Finished
    <3>3. /\ Token(u, AtAge).sub = u.id /\ Token(u, AtAge).role = u.role
          /\ Token(u, AtAge).exp = now + AtAge
      BY <1>1, <3>1, TokenType
    <3>4. UNCHANGED <<users, adminUntil, now>>
      BY <1>9, <2>2
    <3>5. Fresh(session[s])'
      BY <1>1, <3>1, <3>2, <3>3, <3>4 DEF Fresh, AdminUpTo
    <3> QED
      BY <1>9, <2>2, <3>5 DEF RoleInv
  <2> QED
    BY <1>13, <2>1, <2>2 DEF Renew
<1>14. ASSUME NEW s \in Sessions, RenewFails(s)
       PROVE  RoleInv'
  <2>1. session' = [session EXCEPT ![s] = Finished(s)] /\ now' = now
    BY <1>14 DEF RenewFails
  <2>2. ASSUME NEW t \in Sessions, t # s
        PROVE  Fresh(session[t])'
    BY <1>1, <1>6, <2>1, <2>2 DEF Fresh
  <2> QED
    BY <1>1, <1>7, <1>8, <2>1, <2>2 DEF RoleInv
<1>15. CASE Crash
  <2>1. ASSUME NEW s \in Sessions
        PROVE  session'[s].access = session[s].access /\ session'[s].step # "verify"
    BY <1>1, <1>8, <1>15, <2>1 DEF Crash
  <2> QED
    BY <1>7, <2>1 DEF RoleInv
<1>16. CASE UNCHANGED session
  <2>1. \A s \in Sessions : session[s].step = "verify" => now' - session[s].since <= VerifyTime
    BY <1>1, <1>3, TimePasses DEF Tick, Fresh
  <2> QED
    BY <1>6, <1>16, <2>1 DEF RoleInv
<1> QED
  BY <1>10, <1>11, <1>12, <1>13, <1>14, <1>15, <1>16, SessionSteps

LEMMA GrantStep == IInv /\ [Next]_vars => AdminGrantRecent'
<1> SUFFICES ASSUME IInv, [Next]_vars
             PROVE  AdminGrantRecent'
  OBVIOUS
<1>1. ASSUME NEW s \in Sessions, AdminCall(s)
      PROVE  AdminGrantRecent'
  <2> DEFINE token == session[s].access
             grant == [id |-> token.sub, lag |-> Lag(token.sub)]
  <2>1. token \in Tokens /\ adminUntil \in [Attempts -> Never..MaxTime] /\ now \in Int
    BY AccountsAssumption DEF IInv, TypeOK, Session
  <2>2. now < token.exp /\ token.role = "admin" /\ granted' = granted \cup {grant}
    BY <1>1, <2>1, AccountsAssumption DEF AdminCall, Expired, Tokens
  <2>3. AdminUpTo(token.sub, token.exp - AtAge - VerifyTime) /\ token.sub \in Attempts
    BY <2>2 DEF IInv, SessionInv, RoleInv, Owned, Fresh, NoToken
  <2>4. token.exp \in Int
    BY <2>1, AccountsAssumption DEF Tokens
  <2> HIDE DEF token
  <2>5. Lag(token.sub) < AtAge + VerifyTime
    BY <2>1, <2>2, <2>3, <2>4, AccountsAssumption DEF Lag, AdminUpTo, Never
  <2> QED
    BY <2>2, <2>5 DEF IInv, AdminGrantRecent
<1>2. UNCHANGED granted \/ \E s \in Sessions : AdminCall(s)
  BY DEF Next, Idle, vars, LogIn, Verify, Refresh, Renew, RenewFails, Become, SignUp, Hash, Insert,
     InsertDuplicate, SaveFails, Commit, CommitUnknown, SetRole, Remove, Tick, Crash
<1> QED
  BY <1>1, <1>2 DEF IInv, AdminGrantRecent

-----------------------------------------------------------------------------

LEMMA InitInv == Init => IInv
<1> SUFFICES ASSUME Init
             PROVE  IInv
  OBVIOUS
<1>1. TypeOK
  BY TypeInit
<1>2. IdInv /\ OneAccountPerEmail /\ SignUpTruth
  BY DEF Init, IdInv, OneAccountPerEmail, SignUpTruth, Known
<1>3. SessionInv /\ RoleInv
  BY AccountsAssumption DEF Init, SessionInv, Owned, RoleInv, Fresh, NoToken
<1> QED
  BY <1>1, <1>2, <1>3 DEF IInv, Init, AdminGrantRecent

(* Whatever sign-ups, logins, refreshes and changes of roles run at once,
   fail, or are cut off by a crash, the invariant holds. *)
THEOREM AccountsInvariant == Spec => []IInv
<1>1. IInv /\ [Next]_vars => IInv'
  BY TypeStep, IdStep, EmailStep, TruthStep, SessionStep, RoleStep, GrantStep DEF IInv
<1> QED
  BY InitInv, <1>1, PTL DEF Spec

(* Every variable of the accounts has its type. *)
THEOREM AccountsTypeCorrect == Spec => []TypeOK
<1>1. IInv => TypeOK
  BY DEF IInv
<1> QED
  BY AccountsInvariant, <1>1, PTL

(* AuthController.signUp and UsersService.create: sign-ups with one e-mail
   make one account, and no two of them hold it uncommitted. *)
THEOREM EmailsUnique == Spec => []OneAccountPerEmail
<1>1. IInv => OneAccountPerEmail
  BY DEF IInv
<1> QED
  BY AccountsInvariant, <1>1, PTL

(* AuthController.signUp: a 201 and a 409 are true, and an account exists
   only for an answer that allows it. *)
THEOREM SignUpAnswersTrue == Spec => []SignUpTruth
<1>1. IInv => SignUpTruth
  BY DEF IInv
<1> QED
  BY AccountsInvariant, <1>1, PTL

(* AuthController.login and refresh: the tokens of a session stay those of the
   account that logged in. *)
THEOREM SessionsKeepAccount == Spec => []SessionOfOneAccount
<1>1. IInv => SessionOfOneAccount
  <2> SUFFICES ASSUME IInv, NEW s \in Sessions, session[s].access # NoToken
               PROVE  /\ session[s].access.sub = session[s].cookie.sub
                      /\ \E u \in users \cup removed :
                            /\ u.id = session[s].access.sub
                            /\ session[s].by = [email |-> u.email, password |-> u.password]
    BY DEF SessionOfOneAccount
  <2>1. Owned(session[s]) /\ session[s].by \in Credentials
    BY DEF IInv, SessionInv, TypeOK, Session
  <2>2. session[s].by = [email |-> session[s].by.email, password |-> session[s].by.password]
    BY <2>1 DEF Credentials, Nothing
  <2> QED
    BY <2>1, <2>2 DEF Owned, Known
<1> QED
  BY AccountsInvariant, <1>1, PTL

(* JwtAuthGuard and RolesGuard: a lost role opens the admin endpoint for no
   longer than an access token lives and a login takes. *)
THEOREM AdminAccessEnds == Spec => []AdminGrantRecent
<1>1. IInv => AdminGrantRecent
  BY DEF IInv
<1> QED
  BY AccountsInvariant, <1>1, PTL

=============================================================================
