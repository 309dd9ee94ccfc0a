-------------------------- MODULE AdminPanelProofs --------------------------
(* Theorems about Accounts, for any number of admins, browsers and requests;   *)
(* about Inbox, for any number of notifications and any page size; about       *)
(* Reviews, for any reviewers, plants, slugs, moderations, renames and fills   *)
(* in progress; and about the instance that composes them with Overview, whose    *)
(* theorems are OverviewProofs'.                                               *)
EXTENDS MCAdminPanel, OverviewProofs, SequenceTheorems

(***************************************************************************)
(* The inductive invariant.  SomeoneActive is not inductive: it needs to   *)
(* know that an update about to commit comes from an admin who exists and  *)
(* does not deactivate itself, which its checks have established on rows   *)
(* that may have changed since.  The moving window has an invariant of its *)
(* own, further down.                                                      *)
(***************************************************************************)
TablesOK ==
    /\ admins \in [Admins -> Row \cup {None}]
    /\ access \in [Browsers -> Token \cup {None}]
    /\ refresh \in [Browsers -> Token \cup {None}]
    /\ job \in [Requests -> Job \cup {None}]
    /\ now \in Nat

\* What a request in progress knows, by the operation it performs.
Knows(j) ==
    /\ j.op = "login" => j.stage = "verify" /\ j.browser \in Browsers /\ j.email \in Emails
    /\ j.stage = "verify" => j.op = "login"
    /\ j.op = "create" =>
         /\ j.stage \in {"check", "commit"} /\ j.copy = None
         /\ j.target \in Admins /\ j.email \in Emails /\ j.password \in Passwords
    /\ j.op \in {"update", "password"} =>
         /\ j.stage \in {"load", "check", "commit"} /\ (j.stage # "load" => j.copy \in Row)
         /\ j.actor \in Admins /\ admins[j.actor] # None
         /\ j.target \in Admins /\ admins[j.target] # None
         /\ j.stage = "commit" => ~SelfDeactivation(j)

JobsKnow == \A r \in Requests : job[r] # None => Knows(job[r])

\* A token's admin exists: rows are never deleted.
TokensNameAdmins ==
    \A b \in Browsers : /\ access[b] # None => admins[access[b].sub] # None
                        /\ refresh[b] # None => admins[refresh[b].sub] # None

AccountsInv == TablesOK /\ JobsKnow /\ TokensNameAdmins /\ SomeoneActive /\ SessionsEnd

----------------------------------------------------------------------------
\* A shop with some admins, some of them logged in, satisfies AccountsInv.
LEMMA InitAccountsInv == Init => AccountsInv
<1> SUFFICES ASSUME Init PROVE AccountsInv
  OBVIOUS
<1> USE AccountsAssumption
<1>0. PICK who \in [Browsers -> {a \in Admins : admins[a] # None} \cup {None}] :
         /\ access = [b \in Browsers |-> IF who[b] = None THEN None
                        ELSE [sub |-> who[b], exp |-> AccessLife, login |-> 0]]
         /\ refresh = [b \in Browsers |-> IF who[b] = None THEN None
                        ELSE [sub |-> who[b], exp |-> RefreshLife, login |-> 0]]
  BY DEF Init
<1>1. TablesOK
  BY <1>0 DEF Init, TablesOK, Token
<1>2. JobsKnow /\ SomeoneActive
  BY DEF Init, JobsKnow, SomeoneActive
<1>3. TokensNameAdmins
  BY <1>0 DEF TokensNameAdmins
<1>4. SessionsEnd
  BY <1>0 DEF SessionsEnd
<1> QED
  BY <1>1, <1>2, <1>3, <1>4 DEF AccountsInv

----------------------------------------------------------------------------
(* Sessions: steps that touch the tokens only, and a login's end *)

\* A token that is handed out now ends within its lifetime.
LEMMA NewTokenType ==
    ASSUME now \in Nat, NEW a \in Admins, NEW life \in Nat, NEW since \in Nat
    PROVE  /\ NewToken(a, life, since) \in Token
           /\ NewToken(a, life, since) # None
           /\ NewToken(a, life, since).sub = a
           /\ NewToken(a, life, since).exp = now + life
           /\ NewToken(a, life, since).login = since
  BY AccountsAssumption DEF NewToken, Token

\* Logging in, refreshing and logging out leave AccountsInv.
LEMMA SessionStep ==
    ASSUME AccountsInv,
           \/ \E r \in Requests : Login(r)
           \/ \E b \in Browsers : Refresh(b) \/ Logout(b)
    PROVE  AccountsInv'
<1> USE AccountsAssumption
<1>0. TablesOK /\ now \in Nat
  BY DEF AccountsInv, TablesOK
<1>1. ASSUME NEW r \in Requests, Login(r)
      PROVE  AccountsInv'
  <2> DEFINE j == job[r]
  <2>1. j # None /\ job' = [job EXCEPT ![r] = None] /\ UNCHANGED <<admins, crossed, now>>
    BY <1>1 DEF Login, At, End, rowVars
  <2>2. j \in Job /\ j.stage = "verify" /\ Knows(j)
    BY <1>0, <1>1, <2>1 DEF TablesOK, Login, At, AccountsInv, JobsKnow
  <2>3. j.browser \in Browsers
    BY <2>2 DEF Knows, Job, Edits
  <2>4. CASE UNCHANGED tokenVars
    BY <1>0, <2>1, <2>4
    DEF AccountsInv, TablesOK, JobsKnow, Knows, TokensNameAdmins, SomeoneActive, SessionsEnd, tokenVars, SelfDeactivation
  <2>5. ASSUME NEW a \in Authenticated(j), SetAuthCookies(j.browser, a)
        PROVE  AccountsInv'
    <3>1. a \in Admins /\ admins[a] # None
      BY DEF Authenticated, AdminWith
    <3> DEFINE at == NewToken(a, AccessLife, now)
               rt == NewToken(a, RefreshLife, now)
    <3>2. /\ at \in Token /\ at # None /\ at.sub = a /\ at.exp = now + AccessLife /\ at.login = now
          /\ rt \in Token /\ rt # None /\ rt.sub = a /\ rt.exp = now + RefreshLife /\ rt.login = now
      BY <1>0, <3>1, NewTokenType
    <3>3. access' = [access EXCEPT ![j.browser] = at] /\ refresh' = [refresh EXCEPT ![j.browser] = rt]
      BY <2>5 DEF SetAuthCookies
    <3> HIDE DEF at, rt
    <3>4. TablesOK'
      BY <1>0, <2>1, <3>2, <3>3 DEF TablesOK
    <3>5. JobsKnow' /\ SomeoneActive'
      BY <1>0, <2>1 DEF AccountsInv, TablesOK, JobsKnow, Knows, SomeoneActive, SelfDeactivation
    <3>6. TokensNameAdmins'
      BY <1>0, <2>1, <2>3, <3>1, <3>2, <3>3 DEF AccountsInv, TablesOK, TokensNameAdmins
    <3>7. SessionsEnd'
      BY <1>0, <2>3, <3>2, <3>3 DEF AccountsInv, TablesOK, SessionsEnd
    <3> QED
      BY <3>4, <3>5, <3>6, <3>7 DEF AccountsInv
  <2> QED
    BY <1>1, <2>4, <2>5 DEF Login
<1>2. ASSUME NEW b \in Browsers, Refresh(b)
      PROVE  AccountsInv'
  <2> DEFINE token == refresh[b]
             at == NewToken(token.sub, AccessLife, token.login)
  <2>1. /\ token # None /\ now < token.exp
        /\ access' = [access EXCEPT ![b] = at]
        /\ UNCHANGED <<admins, crossed, job, now>>
    BY <1>2 DEF Refresh, Resolves, Valid, rowVars
  <2>2. token \in Token /\ admins[token.sub] # None /\ token.exp <= token.login + RefreshLife
    BY <1>0, <2>1 DEF AccountsInv, TablesOK, TokensNameAdmins, SessionsEnd
  <2>3. token.sub \in Admins /\ token.login \in Nat /\ token.exp \in Nat
    BY <2>2 DEF Token
  <2>4. at \in Token /\ at # None /\ at.sub = token.sub /\ at.exp = now + AccessLife /\ at.login = token.login
    <3> HIDE DEF token
    <3>1. AccessLife \in Nat
      OBVIOUS
    <3> QED
      BY <1>0, <2>3, <3>1, NewTokenType
  <2>5. refresh' = refresh
    BY <1>0, <1>2 DEF Refresh, RefreshToken, TablesOK
  <2> HIDE DEF at, token
  <2>6. TablesOK'
    BY <1>0, <2>1, <2>4, <2>5 DEF TablesOK
  <2>7. JobsKnow' /\ SomeoneActive'
    BY <2>1 DEF AccountsInv, JobsKnow, Knows, SomeoneActive, SelfDeactivation
  <2>8. TokensNameAdmins'
    BY <1>0, <2>1, <2>2, <2>4, <2>5 DEF AccountsInv, TablesOK, TokensNameAdmins
  <2>9. at.exp <= at.login + RefreshLife + AccessLife
    BY <1>0, <2>1, <2>2, <2>3, <2>4
  <2>10. SessionsEnd'
    BY <1>0, <2>1, <2>5, <2>9 DEF AccountsInv, TablesOK, SessionsEnd
  <2> QED
    BY <2>6, <2>7, <2>8, <2>10 DEF AccountsInv
<1>3. ASSUME NEW b \in Browsers, Logout(b)
      PROVE  AccountsInv'
  BY <1>0, <1>3
  DEF AccountsInv, TablesOK, JobsKnow, Knows, TokensNameAdmins, SomeoneActive, SessionsEnd,
      Logout, ClearAuthCookies, rowVars, SelfDeactivation
<1> QED
  BY <1>1, <1>2, <1>3

----------------------------------------------------------------------------
(* Edits of admins *)

\* A request that is let in comes from an admin who exists.
LEMMA LetInIsAdmin ==
    ASSUME AccountsInv, NEW b \in Browsers, LetIn(b)
    PROVE  access[b] \in Token /\ access[b].sub \in Admins /\ admins[access[b].sub] # None
  BY AccountsAssumption DEF AccountsInv, TablesOK, LetIn, Resolves, Valid, Token

\* A new request knows what its route has looked up.
LEMMA SubmitStep ==
    ASSUME AccountsInv, NEW r \in Requests, NEW request \in Job, Knows(request),
           job' = [job EXCEPT ![r] = request],
           UNCHANGED <<admins, crossed, access, refresh, now>>
    PROVE  AccountsInv'
  BY AccountsAssumption
  DEF AccountsInv, TablesOK, JobsKnow, Knows, TokensNameAdmins, SomeoneActive, SessionsEnd, SelfDeactivation

\* Requests are sent, work on their copies and end; rows and tokens stay.
LEMMA RequestStep ==
    ASSUME AccountsInv, NEW r \in Requests,
           \/ \E b \in Browsers, e \in Emails, p \in Passwords \cup {None} : SubmitLogin(r, b, e, p)
           \/ \E b \in Browsers \cup {None}, t \in Admins, e \in Emails, p \in Passwords :
                 SubmitCreate(r, b, t, e, p)
           \/ \E b \in Browsers, t \in Admins :
                 \/ \E e \in Emails \cup {None}, on \in BOOLEAN \cup {None} : SubmitUpdate(r, b, t, e, on)
                 \/ \E p \in Passwords : SubmitPassword(r, b, t, p)
           \/ Load(r) \/ CheckEmail(r) \/ Fail(r)
    PROVE  AccountsInv'
<1> USE AccountsAssumption
<1>0. TablesOK
  BY DEF AccountsInv
<1>1. ASSUME NEW b \in Browsers, NEW e \in Emails, NEW p \in Passwords \cup {None}, SubmitLogin(r, b, e, p)
      PROVE  AccountsInv'
  <2> DEFINE request == [op |-> "login", browser |-> b, actor |-> None, target |-> None, email |-> e,
                         password |-> p, active |-> None, copy |-> None, stage |-> "verify"]
  <2>1. request \in Job /\ Knows(request)
    BY DEF Job, Knows, Edits
  <2>2. UNCHANGED <<admins, crossed, access, refresh, now>>
    BY <1>1 DEF SubmitLogin, rowVars, tokenVars
  <2>3. CASE job' = [job EXCEPT ![r] = request]
    BY <2>1, <2>2, <2>3, SubmitStep
  <2>4. CASE UNCHANGED job
    BY <2>2, <2>4
    DEF AccountsInv, TablesOK, JobsKnow, Knows, TokensNameAdmins, SomeoneActive, SessionsEnd, SelfDeactivation
  <2> QED
    BY <1>1, <2>3, <2>4 DEF SubmitLogin
<1>2. ASSUME NEW b \in Browsers \cup {None}, NEW t \in Admins, NEW e \in Emails, NEW p \in Passwords,
             SubmitCreate(r, b, t, e, p)
      PROVE  AccountsInv'
  <2> DEFINE request == NoCopy("create", b, t, e, p, TRUE)
  <2>1. request.actor \in Admins \cup {None}
    BY <1>2, LetInIsAdmin DEF NoCopy, SubmitCreate, Submit
  <2>2. request \in Job /\ Knows(request)
    BY <2>1 DEF NoCopy, Job, Knows, Edits
  <2>3. job' = [job EXCEPT ![r] = request] /\ UNCHANGED <<admins, crossed, access, refresh, now>>
    BY <1>2 DEF SubmitCreate, Submit, rowVars, tokenVars
  <2> QED
    BY <2>2, <2>3, SubmitStep
<1>3. ASSUME NEW b \in Browsers, NEW t \in Admins, NEW e \in Emails \cup {None},
             NEW on \in BOOLEAN \cup {None}, SubmitUpdate(r, b, t, e, on)
      PROVE  AccountsInv'
  <2> DEFINE request == NoCopy("update", b, t, e, None, on)
  <2>1. access[b].sub \in Admins /\ admins[access[b].sub] # None /\ admins[t] # None
    BY <1>3, LetInIsAdmin DEF SubmitUpdate, Submit
  <2>2. request \in Job /\ Knows(request)
    BY <2>1 DEF NoCopy, Job, Knows, Edits
  <2>3. job' = [job EXCEPT ![r] = request] /\ UNCHANGED <<admins, crossed, access, refresh, now>>
    BY <1>3 DEF SubmitUpdate, Submit, rowVars, tokenVars
  <2> QED
    BY <2>2, <2>3, SubmitStep
<1>4. ASSUME NEW b \in Browsers, NEW t \in Admins, NEW p \in Passwords, SubmitPassword(r, b, t, p)
      PROVE  AccountsInv'
  <2> DEFINE request == NoCopy("password", b, t, None, p, None)
  <2>1. access[b].sub \in Admins /\ admins[access[b].sub] # None /\ admins[t] # None
    BY <1>4, LetInIsAdmin DEF SubmitPassword, Submit
  <2>2. request \in Job /\ Knows(request)
    BY <2>1 DEF NoCopy, Job, Knows, Edits
  <2>3. job' = [job EXCEPT ![r] = request] /\ UNCHANGED <<admins, crossed, access, refresh, now>>
    BY <1>4 DEF SubmitPassword, Submit, rowVars, tokenVars
  <2> QED
    BY <2>2, <2>3, SubmitStep
<1>5. ASSUME End(r), UNCHANGED <<rowVars, tokenVars, now>>
      PROVE  AccountsInv'
  BY <1>0, <1>5
  DEF End, rowVars, tokenVars, AccountsInv, TablesOK, JobsKnow, Knows, TokensNameAdmins, SomeoneActive, SessionsEnd,
      SelfDeactivation
<1>6. ASSUME At(r, "load") \/ At(r, "check")
      PROVE  /\ job[r] \in Job /\ Knows(job[r])
             /\ job[r].stage = "load" => job[r].op \in {"update", "password"}
             /\ job[r].stage \in {"load", "check"} => job[r].op # "login"
  BY <1>0, <1>6 DEF At, AccountsInv, TablesOK, JobsKnow, Knows, Job, Edits
<1>7. ASSUME Load(r)
      PROVE  AccountsInv'
  <2> DEFINE j == job[r]
             row == admins[j.target]
             renamed == j.email # None /\ j.email # row.email
  <2>1. j \in Job /\ Knows(j) /\ j.op \in {"update", "password"} /\ j.stage = "load"
    BY <1>6, <1>7 DEF Load, At
  <2>2. row \in Row
    BY <1>0, <2>1 DEF Knows, TablesOK
  <2>3. ASSUME NEW stage \in {"check", "commit"}, stage = "commit" => ~SelfDeactivation(j),
               job' = [job EXCEPT ![r].copy = row, ![r].stage = stage]
        PROVE  AccountsInv'
    <3> DEFINE request == [j EXCEPT !.copy = row, !.stage = stage]
    <3>1. job' = [job EXCEPT ![r] = request]
      BY <1>0, <2>1, <2>3 DEF TablesOK, Job
    <3>2. request \in Job /\ Knows(request)
      BY <2>1, <2>2, <2>3 DEF Job, Knows, Edits, SelfDeactivation
    <3> QED
      BY <1>7, <3>1, <3>2, SubmitStep DEF Load, rowVars, tokenVars
  <2>4. CASE ~renamed /\ SelfDeactivation(j)
    BY <1>5, <1>7, <2>4 DEF Load
  <2>5. CASE ~renamed /\ ~SelfDeactivation(j)
    <3>1. job' = [job EXCEPT ![r].copy = row, ![r].stage = "commit"]
      BY <1>7, <2>5 DEF Load
    <3> QED
      BY <2>3, <2>5, <3>1
  <2>6. CASE renamed
    <3>1. job' = [job EXCEPT ![r].copy = row, ![r].stage = "check"]
      BY <1>7, <2>6 DEF Load
    <3> QED
      BY <2>3, <3>1
  <2> QED
    BY <2>4, <2>5, <2>6
<1>8. ASSUME CheckEmail(r)
      PROVE  AccountsInv'
  <2> DEFINE j == job[r]
             request == [j EXCEPT !.stage = "commit"]
  <2>1. j \in Job /\ Knows(j) /\ j.op # "login"
    BY <1>6, <1>8 DEF CheckEmail, At
  <2>2. CASE End(r)
    BY <1>5, <1>8, <2>2 DEF CheckEmail
  <2>3. CASE ~SelfDeactivation(j) /\ job' = [job EXCEPT ![r].stage = "commit"]
    <3>1. job' = [job EXCEPT ![r] = request]
      BY <1>0, <2>1, <2>3 DEF TablesOK, Job
    <3>2. request \in Job /\ Knows(request)
      BY <1>8, <2>1, <2>3 DEF Job, Knows, Edits, SelfDeactivation, CheckEmail, At
    <3> QED
      BY <1>8, <3>1, <3>2, SubmitStep DEF CheckEmail, rowVars, tokenVars
  <2> QED
    BY <1>8, <2>2, <2>3 DEF CheckEmail
<1>9. CASE Fail(r)
  BY <1>5, <1>9 DEF Fail
<1> QED
  BY <1>1, <1>2, <1>3, <1>4, <1>7, <1>8, <1>9

----------------------------------------------------------------------------
\* A commit leaves AccountsInv: whoever it deactivates is not the one who asked, who is
\* active still, or was deactivated meanwhile, and that is what `crossed` records.
LEMMA CommitStep ==
    ASSUME AccountsInv, NEW r \in Requests, Commit(r)
    PROVE  AccountsInv'
<1> USE AccountsAssumption
<1> DEFINE j == job[r]
<1>1. /\ TablesOK /\ j \in Job /\ Knows(j) /\ j.stage = "commit" /\ j.op \in Edits
      /\ job' = [job EXCEPT ![r] = None] /\ UNCHANGED <<access, refresh, now>>
  BY DEF AccountsInv, TablesOK, JobsKnow, Knows, Commit, At, End, tokenVars, Job, Edits
<1>2. /\ admins' = [admins EXCEPT ![j.target] = IF j.copy = None THEN NewRow(j) ELSE RowAfter(j)]
      /\ crossed' = (crossed \/ (Deactivates(j) /\ ~admins[j.actor].active))
  BY DEF Commit
<1>3. j.target \in Admins
  BY <1>1 DEF Knows, Edits
<1>4. CASE j.copy = None
  <2>1. j.op = "create"
    BY <1>1, <1>4 DEF Knows, Edits
  <2>2. NewRow(j) \in Row /\ NewRow(j).active
    BY <1>1, <2>1 DEF Knows, NewRow, Row
  <2>3. admins' = [admins EXCEPT ![j.target] = NewRow(j)]
    BY <1>2, <1>4
  <2> HIDE DEF j
  <2>4. TablesOK' /\ \A a \in Admins : admins[a] # None => admins'[a] # None
    BY <1>1, <2>2, <2>3 DEF TablesOK
  <2>5. SomeoneActive'
    BY <1>1, <1>3, <2>2, <2>3 DEF TablesOK, SomeoneActive
  <2>6. JobsKnow' /\ TokensNameAdmins' /\ SessionsEnd'
    BY <1>1, <2>4
    DEF AccountsInv, TablesOK, JobsKnow, Knows, TokensNameAdmins, SessionsEnd, SelfDeactivation, Token
  <2> QED
    BY <2>4, <2>5, <2>6 DEF AccountsInv
<1>5. CASE j.copy # None
  <2>1. /\ j.op \in {"update", "password"} /\ j.copy \in Row /\ ~SelfDeactivation(j)
        /\ j.actor \in Admins /\ admins[j.actor] # None /\ admins[j.target] # None
    BY <1>1, <1>5 DEF Knows, Edits
  <2> DEFINE new == RowAfter(j)
  <2>2. admins[j.target] \in Row
    BY <1>1, <1>3, <2>1 DEF TablesOK
  <2>3. new \in Row
    BY <1>1, <2>1, <2>2 DEF RowAfter, Row, Job
  <2>4. admins[j.target].active => new.active \/ Deactivates(j)
    BY <1>1, <2>1, <2>2 DEF RowAfter, Row, Job, Deactivates
  <2>5. Deactivates(j) => j.actor # j.target
    BY <2>1 DEF Deactivates, SelfDeactivation
  <2>6. admins' = [admins EXCEPT ![j.target] = new]
    BY <1>2, <1>5
  <2> HIDE DEF new, j
  <2>7. TablesOK' /\ \A a \in Admins : admins[a] # None => admins'[a] # None
    BY <1>1, <2>3, <2>6 DEF TablesOK
  <2>8. SomeoneActive'
    <3>1. SUFFICES ASSUME ~crossed' PROVE \E a \in Admins : admins'[a] # None /\ admins'[a].active
      BY DEF SomeoneActive
    <3>2. ~crossed /\ (Deactivates(j) => admins[j.actor].active)
      BY <1>2, <3>1
    <3>3. PICK a \in Admins : admins[a] # None /\ admins[a].active
      BY <3>2 DEF AccountsInv, SomeoneActive
    <3>4. CASE a # j.target
      BY <1>1, <2>6, <3>3, <3>4 DEF TablesOK
    <3>5. CASE a = j.target /\ ~Deactivates(j)
      BY <1>1, <2>3, <2>4, <2>6, <3>3, <3>5 DEF TablesOK
    <3>6. CASE Deactivates(j)
      BY <1>1, <2>1, <2>5, <2>6, <3>2, <3>6 DEF TablesOK
    <3> QED
      BY <3>4, <3>5, <3>6
  <2>9. JobsKnow' /\ TokensNameAdmins' /\ SessionsEnd'
    BY <1>1, <2>7
    DEF AccountsInv, TablesOK, JobsKnow, Knows, TokensNameAdmins, SessionsEnd, SelfDeactivation, Token
  <2> QED
    BY <2>7, <2>8, <2>9 DEF AccountsInv
<1> QED
  BY <1>4, <1>5

\* Time only takes tokens away.
LEMMA TickStep == AccountsInv /\ Tick => AccountsInv'
<1> SUFFICES ASSUME AccountsInv, Tick PROVE AccountsInv'
  OBVIOUS
<1>1. /\ access'  = [b \in Browsers |-> Kept(access[b])]
      /\ refresh' = [b \in Browsers |-> Kept(refresh[b])]
      /\ now' = now + 1 /\ UNCHANGED <<admins, crossed, job>>
  BY DEF Tick, rowVars
<1>2. \A b \in Browsers : access'[b] \in {None, access[b]} /\ refresh'[b] \in {None, refresh[b]}
  BY <1>1 DEF Kept
<1>3. TablesOK'
  BY <1>1, <1>2 DEF AccountsInv, TablesOK, Kept
<1>4. JobsKnow' /\ SomeoneActive'
  BY <1>1 DEF AccountsInv, JobsKnow, Knows, SomeoneActive, SelfDeactivation
<1>5. TokensNameAdmins' /\ SessionsEnd'
  BY <1>1, <1>2 DEF AccountsInv, TokensNameAdmins, SessionsEnd
<1> QED
  BY <1>3, <1>4, <1>5 DEF AccountsInv

\* Every step leaves AccountsInv.
LEMMA NextAccountsInv == AccountsInv /\ [Next]_vars => AccountsInv'
<1> SUFFICES ASSUME AccountsInv, [Next]_vars PROVE AccountsInv'
  OBVIOUS
<1>1. CASE UNCHANGED vars
  BY <1>1
  DEF vars, AccountsInv, TablesOK, JobsKnow, Knows, TokensNameAdmins, SomeoneActive, SessionsEnd, SelfDeactivation
<1>2. CASE Next
  BY <1>2, SessionStep, RequestStep, CommitStep, TickStep DEF Next
<1> QED
  BY <1>1, <1>2

\* AccountsInv holds along every behaviour.
LEMMA AccountsInductive == Spec => []AccountsInv
  BY InitAccountsInv, NextAccountsInv, PTL DEF Spec

----------------------------------------------------------------------------
\* An active admin is left, unless two deactivated each other in requests that
\* overlapped (update_admin checks the caller only against itself).
THEOREM SomeoneStaysActive == Spec => []SomeoneActive
<1>1. AccountsInv => SomeoneActive
  BY DEF AccountsInv
<1> QED
  BY <1>1, AccountsInductive, PTL

\* No refreshing makes a session outlive its login by more than both lifetimes.
THEOREM SessionsAreBounded == Spec => []SessionsEnd
<1>1. AccountsInv => SessionsEnd
  BY DEF AccountsInv
<1> QED
  BY <1>1, AccountsInductive, PTL

----------------------------------------------------------------------------
(***************************************************************************)
(* The limit of an email's failed logins.  GuessesBounded is shown by      *)
(* pairing each vain guess with the limiter's last entry at that time and  *)
(* with the request's slot: no two guesses have the same pair, since a     *)
(* request that is let in after a guess of its slot was let in by a window *)
(* that was not full, and so fills an entry or finds a new one.            *)
(***************************************************************************)

\* The limiter's entries are in order, and it never has too many of a window.
EntriesInOrder(e) ==
    /\ \A n \in DOMAIN failures[e] : failures[e][n] <= now
    /\ \A m, n \in DOMAIN failures[e] : m <= n => failures[e][m] <= failures[e][n]

WindowNotOverfull(e) == Cardinality(Recent(failures[e])) <= Limit

\* A guess is later than the last entry of its time, and not later than the next.
GuessesBetweenEntries(e) ==
    \A i \in DOMAIN guesses[e] :
        LET g == guesses[e][i] IN
        /\ g.at <= now
        /\ g.entries \in DOMAIN failures[e]
        /\ failures[e][g.entries] <= g.at
        /\ g.entries + 1 \in DOMAIN failures[e] => g.at <= failures[e][g.entries + 1]

\* Every entry is of a guess.
EntriesAreGuesses(e) ==
    \A n \in DOMAIN failures[e] : \E i \in DOMAIN guesses[e] :
        guesses[e][i].entries = n /\ guesses[e][i].at = failures[e][n]

\* A slot guesses at most once per entry.
OncePerEntry(e) ==
    \A i, k \in DOMAIN guesses[e] :
        guesses[e][i].entries = guesses[e][k].entries /\ guesses[e][i].by = guesses[e][k].by => i = k

GuessedSince(r, e) ==
    \E i \in DOMAIN guesses[e] : guesses[e][i].by = r /\ guesses[e][i].entries = Len(failures[e])

\* A login in progress whose slot has guessed since the last entry was let in later,
\* and the window has not become full since.
LetInByRoom(e) ==
    \A r \in Requests : At(r, "verify") /\ job[r].email = e /\ GuessedSince(r, e) => Allowed(e)

Limiter ==
    /\ failures \in [Emails -> Seq(Nat)]
    /\ guesses \in [Emails -> Seq(Guess)]
    /\ now \in Nat
    /\ \A e \in Emails : /\ EntriesInOrder(e) /\ WindowNotOverfull(e) /\ GuessesBetweenEntries(e)
                         /\ EntriesAreGuesses(e) /\ OncePerEntry(e) /\ LetInByRoom(e)

\* There are finitely many entries in a window.
LEMMA RecentFinite ==
    ASSUME NEW e \in Emails, Limiter
    PROVE  /\ IsFiniteSet(Recent(failures[e])) /\ Cardinality(Recent(failures[e])) \in Nat
           /\ Recent(failures[e]) \subseteq DOMAIN failures[e]
           /\ IsFiniteSet(DOMAIN failures[e])
<1> DEFINE N == Len(failures[e])
<1>1. N \in Nat /\ DOMAIN failures[e] = 1 .. N
  BY DEF Limiter
<1>2. IsFiniteSet(1 .. N)
  BY <1>1, FS_Interval
<1>3. Recent(failures[e]) \in SUBSET (1 .. N)
  BY <1>1 DEF Recent
<1> QED BY <1>1, <1>2, <1>3, FS_Subset, FS_CardinalityType

\* Nothing has been guessed at first.
LEMMA InitLimiter == Init => Limiter
<1> SUFFICES ASSUME Init PROVE Limiter
  OBVIOUS
<1>1. /\ failures = [e \in Emails |-> <<>>] /\ guesses = [e \in Emails |-> <<>>] /\ now = 0
  BY DEF Init
<1>2. failures \in [Emails -> Seq(Nat)] /\ guesses \in [Emails -> Seq(Guess)] /\ now \in Nat
  BY <1>1
<1>3. ASSUME NEW e \in Emails
      PROVE  /\ EntriesInOrder(e) /\ WindowNotOverfull(e) /\ GuessesBetweenEntries(e)
             /\ EntriesAreGuesses(e) /\ OncePerEntry(e) /\ LetInByRoom(e)
  <2>1. failures[e] = <<>> /\ guesses[e] = <<>> /\ DOMAIN failures[e] = {} /\ DOMAIN guesses[e] = {}
    BY <1>1
  <2>2. WindowNotOverfull(e)
    <3>1. Recent(failures[e]) = {}
      BY <2>1 DEF Recent
    <3> QED BY <3>1, FS_EmptySet, AccountsAssumption DEF WindowNotOverfull
  <2> QED
    BY <2>1, <2>2
    DEF EntriesInOrder, GuessesBetweenEntries, EntriesAreGuesses, OncePerEntry, LetInByRoom, GuessedSince
<1> QED BY <1>2, <1>3 DEF Limiter

\* Steps that guess nothing: a login is let in only if the window has room.
LEMMA NoGuessLimiter ==
    ASSUME Limiter, UNCHANGED <<failures, guesses, now>>,
           \A r \in Requests, e \in Emails : At(r, "verify")' /\ job'[r].email = e =>
               Allowed(e) \/ (At(r, "verify") /\ job[r].email = e)
    PROVE  Limiter'
<1> SUFFICES ASSUME NEW e \in Emails
             PROVE  (/\ EntriesInOrder(e) /\ WindowNotOverfull(e) /\ GuessesBetweenEntries(e)
                     /\ EntriesAreGuesses(e) /\ OncePerEntry(e) /\ LetInByRoom(e))'
  BY DEF Limiter
<1>1. (/\ EntriesInOrder(e) /\ WindowNotOverfull(e) /\ GuessesBetweenEntries(e)
       /\ EntriesAreGuesses(e) /\ OncePerEntry(e))'
  <2>1. EntriesInOrder(e)' /\ WindowNotOverfull(e)'
    BY DEF Limiter, EntriesInOrder, WindowNotOverfull, Recent, InWindow
  <2>2. GuessesBetweenEntries(e)'
    BY DEF Limiter, GuessesBetweenEntries
  <2>3. EntriesAreGuesses(e)' /\ OncePerEntry(e)'
    BY DEF Limiter, EntriesAreGuesses, OncePerEntry
  <2> QED BY <2>1, <2>2, <2>3
<1>2. Allowed(e)' <=> Allowed(e)
  BY DEF Allowed, Recent, InWindow
<1>3. LetInByRoom(e)'
  BY <1>2 DEF Limiter, LetInByRoom, GuessedSince
<1> QED BY <1>1, <1>3

\* With time the window holds less.
LEMMA TickLimiter == ASSUME Limiter, Tick PROVE Limiter'
<1>1. UNCHANGED <<failures, guesses, job>> /\ now' = now + 1 /\ now \in Nat
  BY DEF Tick, loginVars, Limiter
<1> SUFFICES ASSUME NEW e \in Emails
             PROVE  (/\ EntriesInOrder(e) /\ WindowNotOverfull(e) /\ GuessesBetweenEntries(e)
                     /\ EntriesAreGuesses(e) /\ OncePerEntry(e) /\ LetInByRoom(e))'
  BY <1>1 DEF Limiter
<1>2. failures[e] \in Seq(Nat) /\ guesses[e] \in Seq(Guess)
  BY DEF Limiter
<1>3. Cardinality(Recent(failures[e])') <= Cardinality(Recent(failures[e]))
      /\ Cardinality(Recent(failures[e])') \in Nat
  <2>1. Recent(failures[e])' \in SUBSET Recent(failures[e])
    BY <1>1, <1>2, AccountsAssumption DEF Recent, InWindow
  <2>2. IsFiniteSet(Recent(failures[e])')
    BY <2>1, RecentFinite, FS_Subset
  <2> QED BY <2>1, <2>2, RecentFinite, FS_Subset, FS_CardinalityType
<1>4. Limit \in Nat /\ Cardinality(Recent(failures[e])) \in Nat
  BY RecentFinite, AccountsAssumption
<1>5. WindowNotOverfull(e)'
  BY <1>3, <1>4 DEF Limiter, WindowNotOverfull
<1>6. Allowed(e) => Allowed(e)'
  BY <1>3, <1>4 DEF Allowed
<1>7. LetInByRoom(e)'
  BY <1>1, <1>6 DEF Limiter, LetInByRoom, GuessedSince, At
<1>8. EntriesInOrder(e)'
  BY <1>1, <1>2 DEF Limiter, EntriesInOrder
<1>9. GuessesBetweenEntries(e)'
  <2> SUFFICES ASSUME NEW i \in DOMAIN guesses[e] PROVE guesses[e][i].at <= now + 1
    BY <1>1 DEF Limiter, GuessesBetweenEntries
  <2>1. guesses[e][i] \in Guess
    BY <1>2
  <2>2. guesses[e][i].at \in Nat
    BY <2>1 DEF Guess
  <2>3. guesses[e][i].at <= now
    BY DEF Limiter, GuessesBetweenEntries
  <2> QED BY <1>1, <2>2, <2>3
<1>10. EntriesAreGuesses(e)' /\ OncePerEntry(e)'
  BY <1>1 DEF Limiter, EntriesAreGuesses, OncePerEntry
<1> QED BY <1>5, <1>7, <1>8, <1>9, <1>10
----------------------------------------------------------------------------
\* A failed login: it fills an entry if the window has room, and joins the last
\* entry otherwise, which no login of its slot has joined before.
LEMMA LoginLimiter ==
    ASSUME AccountsInv, Limiter, NEW r \in Requests, Login(r), Authenticated(job[r]) = {}
    PROVE  Limiter'
<1>0. job[r].email \in Emails
  BY DEF Login, At, AccountsInv, TablesOK, JobsKnow, Knows
<1> PICK em \in Emails : em = job[r].email
  BY <1>0
<1> DEFINE entries == RecordFailure(em)
           g == [at |-> now, by |-> r, entries |-> Len(entries)]
<1>1. /\ now \in Nat /\ At(r, "verify")
      /\ UNCHANGED now /\ job' = [job EXCEPT ![r] = None] /\ job \in [Requests -> Job \cup {None}]
  BY DEF Login, End, At, AccountsInv, TablesOK, JobsKnow, Knows
<1>2. /\ failures' = [failures EXCEPT ![em] = entries]
      /\ guesses' = [guesses EXCEPT ![em] = Append(guesses[em], g)]
  BY DEF Login, Authenticated
<1>2a. PICK F, G : F = failures[em] /\ G = guesses[em]
  OBVIOUS
<1>2b. PICK lf, lg : lf = Len(F) /\ lg = Len(G)
  OBVIOUS
<1>3. /\ F \in Seq(Nat) /\ G \in Seq(Guess) /\ lf \in Nat /\ lg \in Nat
      /\ Len(F) = lf /\ Len(G) = lg /\ DOMAIN F = 1 .. lf /\ DOMAIN G = 1 .. lg
  BY <1>1, <1>2a, <1>2b DEF Limiter
<1>4. /\ Cardinality(Recent(F)) \in Nat /\ IsFiniteSet(Recent(F)) /\ Recent(F) \subseteq 1 .. lf
  BY <1>1, <1>2a, <1>3, RecentFinite
<1>5. /\ entries \in Seq(Nat) /\ Len(entries) \in Nat /\ Len(entries) > 0
      /\ \/ /\ Allowed(em) /\ entries = Append(F, now) /\ Len(entries) = lf + 1
         \/ /\ ~Allowed(em) /\ entries = F
  <2>1. CASE Allowed(em)
    BY <1>1, <1>2a, <1>3, <2>1 DEF RecordFailure
  <2>2. CASE ~Allowed(em)
    <3>1. entries = F
      BY <1>2a, <2>2 DEF RecordFailure
    <3>2. Recent(F) # {}
      BY <1>2a, <1>4, <2>2, FS_EmptySet, AccountsAssumption DEF Allowed
    <3>3. lf > 0
      BY <1>3, <1>4, <3>2
    <3> QED BY <1>3, <2>2, <3>1, <3>3
  <2> QED BY <2>1, <2>2
<1>6. g \in Guess /\ g.at = now /\ g.by = r /\ g.entries = Len(entries)
  BY <1>1, <1>5 DEF Guess
<1> HIDE DEF g, entries
<1>6a. PICK H : H = Append(G, g)
  OBVIOUS
<1>7. H[lg + 1] = g /\ \A i \in 1 .. lg : H[i] = G[i]
  BY <1>3, <1>6, <1>6a
<1>7a. H \in Seq(Guess) /\ DOMAIN H = 1 .. lg + 1
  BY <1>3, <1>6, <1>6a
<1>7b. DOMAIN H = 1 .. lg + 1
  BY <1>7a
<1>3a. lf \in Nat /\ lg \in Nat /\ lg + 1 \in 1 .. lg + 1 /\ 1 .. lg \subseteq 1 .. lg + 1
       /\ \A i \in 1 .. lg + 1 : i = lg + 1 \/ i \in 1 .. lg
  BY <1>3
<1>8. failures' \in [Emails -> Seq(Nat)] /\ guesses' \in [Emails -> Seq(Guess)]
  BY <1>1, <1>2, <1>2a, <1>5, <1>6a, <1>7a DEF Limiter
<1>9. failures'[em] = entries /\ guesses'[em] = H
  BY <1>1, <1>2, <1>2a, <1>6a DEF Limiter
<1>10. \A q \in Requests : At(q, "verify")' => q # r /\ At(q, "verify") /\ job'[q] = job[q]
  BY <1>1 DEF At
<1>11. ASSUME NEW e \in Emails, e # em
       PROVE  (/\ EntriesInOrder(e) /\ WindowNotOverfull(e) /\ GuessesBetweenEntries(e)
               /\ EntriesAreGuesses(e) /\ OncePerEntry(e) /\ LetInByRoom(e))'
  <2>1. failures'[e] = failures[e] /\ guesses'[e] = guesses[e]
    BY <1>2, <1>11 DEF Limiter
  <2>2. EntriesInOrder(e)' /\ WindowNotOverfull(e)'
    BY <1>1, <2>1 DEF Limiter, EntriesInOrder, WindowNotOverfull, Recent, InWindow
  <2>3. GuessesBetweenEntries(e)'
    BY <1>1, <2>1 DEF Limiter, GuessesBetweenEntries
  <2>4. EntriesAreGuesses(e)' /\ OncePerEntry(e)'
    BY <2>1 DEF Limiter, EntriesAreGuesses, OncePerEntry
  <2>5. Allowed(e)' <=> Allowed(e)
    BY <1>1, <2>1 DEF Allowed, Recent, InWindow
  <2>6. LetInByRoom(e)'
    BY <1>10, <2>1, <2>5 DEF Limiter, LetInByRoom, GuessedSince
  <2> QED BY <2>2, <2>3, <2>4, <2>6
<1>12. /\ EntriesInOrder(em) /\ WindowNotOverfull(em) /\ GuessesBetweenEntries(em)
       /\ EntriesAreGuesses(em) /\ OncePerEntry(em) /\ LetInByRoom(em)
  BY <1>1 DEF Limiter
<1>13. /\ \A i \in 1 .. lg : G[i].at \in Nat /\ G[i].at <= now
       /\ \A i \in 1 .. lg : G[i].entries \in 1 .. lf
       /\ \A n \in 1 .. lf : F[n] \in Nat
  <2>1. \A i \in 1 .. lg : G[i] \in Guess
    BY <1>3
  <2>2. \A i \in 1 .. lg : G[i].at \in Nat
    BY <2>1 DEF Guess
  <2>3. \A i \in 1 .. lg : G[i].at <= now
    BY <1>3, <1>2a, <1>12 DEF GuessesBetweenEntries
  <2>4. \A i \in 1 .. lg : G[i].entries \in 1 .. lf
    BY <1>3, <1>2a, <1>12 DEF GuessesBetweenEntries
  <2>5. \A n \in 1 .. lf : F[n] \in Nat
    BY <1>3
  <2> QED BY <2>2, <2>3, <2>4, <2>5
<1>13a. /\ \A i \in 1 .. lg : F[G[i].entries] <= G[i].at
        /\ \A i \in 1 .. lg : G[i].entries + 1 \in 1 .. lf => G[i].at <= F[G[i].entries + 1]
  BY <1>3, <1>2a, <1>12 DEF GuessesBetweenEntries
<1>14. ASSUME Allowed(em)
       PROVE  (/\ EntriesInOrder(em) /\ WindowNotOverfull(em) /\ GuessesBetweenEntries(em)
              /\ EntriesAreGuesses(em) /\ OncePerEntry(em) /\ LetInByRoom(em))'
  <2> DEFINE N == lf + 1
  <2>1. /\ entries = Append(F, now) /\ Len(entries) = N /\ DOMAIN entries = 1 .. N
        /\ entries[N] = now /\ \A n \in 1 .. lf : entries[n] = F[n] /\ F[n] \in Nat
    <3>1. entries = Append(F, now)
      BY <1>5, <1>14
    <3>2. \A n \in 1 .. lf : F[n] \in Nat
      BY <1>3
    <3> QED BY <1>1, <1>3, <3>1, <3>2
  <2>1a. Len(entries) = N
    BY <2>1
  <2>1b. entries[N] = now /\ \A n \in 1 .. lf : entries[n] = F[n] /\ F[n] \in Nat
    BY <2>1
  <2>2. EntriesInOrder(em)'
    <3> SUFFICES /\ \A n \in 1 .. N : entries[n] <= now
                 /\ \A m, n \in 1 .. N : m <= n => entries[m] <= entries[n]
      BY <1>1, <1>9, <2>1 DEF EntriesInOrder
    <3>1. \A n \in 1 .. lf : F[n] <= now
      BY <1>3, <1>2a, <1>12 DEF EntriesInOrder
    <3>2. \A m, n \in 1 .. lf : m <= n => F[m] <= F[n]
      BY <1>3, <1>2a, <1>12 DEF EntriesInOrder
    <3>3. ASSUME NEW n \in 1 .. N
          PROVE  entries[n] \in Nat /\ entries[n] <= now /\ (n # N => n \in 1 .. lf /\ entries[n] = F[n])
      <4>1. CASE n = N
        BY <1>1, <2>1b, <4>1
      <4>2. CASE n \in 1 .. lf
        BY <2>1b, <3>1, <4>2
      <4> QED BY <1>3a, <4>1, <4>2
    <3>4. ASSUME NEW m \in 1 .. N, NEW n \in 1 .. N, m <= n
          PROVE  entries[m] <= entries[n]
      <4>1. CASE n = N
        BY <2>1b, <3>3, <4>1
      <4>2. CASE n # N
        <5>1. m \in 1 .. lf /\ n \in 1 .. lf
          BY <1>3a, <3>4, <4>2
        <5> QED BY <2>1b, <3>2, <3>4, <5>1
      <4> QED BY <4>1, <4>2
    <3> QED BY <3>3, <3>4
  <2>3. Recent(failures[em])' = Recent(F) \cup {N} /\ N \notin Recent(F)
    <3>1. InWindow(now)
      BY <1>1, AccountsAssumption DEF InWindow
    <3>2. Recent(failures[em])' = {n \in 1 .. N : InWindow(entries[n])}
      BY <1>1, <1>9, <2>1 DEF Recent, InWindow
    <3>3. Recent(F) = {n \in 1 .. lf : InWindow(F[n])}
      BY <1>3 DEF Recent
    <3>4. ASSUME NEW n \in 1 .. lf
          PROVE  n \in 1 .. N /\ n # N /\ entries[n] = F[n]
      BY <1>3a, <2>1b
    <3>5. N \in 1 .. N /\ N \notin 1 .. lf /\ \A n \in 1 .. N : n = N \/ n \in 1 .. lf
      BY <1>3a
    <3>6. entries[N] = now
      BY <2>1b
    <3> HIDE DEF N
    <3> QED BY <3>1, <3>2, <3>3, <3>4, <3>5, <3>6
  <2>4. WindowNotOverfull(em)'
    <3>1. Cardinality(Recent(F) \cup {N}) = Cardinality(Recent(F)) + 1
      BY <1>4, <2>3, FS_AddElement
    <3> QED BY <1>2a, <1>4, <1>14, <2>3, <3>1, AccountsAssumption DEF Allowed, WindowNotOverfull
  <2>5. GuessesBetweenEntries(em)'
    <3> SUFFICES ASSUME NEW i \in 1 .. lg + 1
                 PROVE  /\ H[i].at <= now
                        /\ H[i].entries \in 1 .. N
                        /\ entries[H[i].entries] <= H[i].at
                        /\ H[i].entries + 1 \in 1 .. N => H[i].at <= entries[H[i].entries + 1]
      BY <1>1, <1>7b, <1>9, <2>1 DEF GuessesBetweenEntries
    <3>1. CASE i = lg + 1
      <4>1. H[i].at = now /\ H[i].entries = N
        BY <1>6, <1>7, <2>1a, <3>1
      <4> QED BY <1>1, <1>3a, <2>1b, <4>1
    <3>2. CASE i \in 1 .. lg
      <4>1. H[i] = G[i] /\ H[i].at \in Nat /\ H[i].at <= now /\ H[i].entries \in 1 .. lf
        BY <1>7, <1>13, <3>2
      <4>2. F[H[i].entries] <= H[i].at /\ (H[i].entries + 1 \in 1 .. lf => H[i].at <= F[H[i].entries + 1])
        BY <1>13a, <3>2, <4>1
      <4>3. H[i].entries \in 1 .. N /\ entries[H[i].entries] <= H[i].at
        BY <1>3a, <2>1b, <4>1, <4>2
      <4>4. ASSUME H[i].entries + 1 \in 1 .. N PROVE H[i].at <= entries[H[i].entries + 1]
        <5>1. CASE H[i].entries + 1 = N
          BY <2>1b, <4>1, <5>1
        <5>2. CASE H[i].entries + 1 # N
          <6>1. H[i].entries + 1 \in 1 .. lf
            BY <1>3a, <4>1, <4>4, <5>2
          <6> QED BY <2>1b, <4>2, <6>1
        <5> QED BY <5>1, <5>2
      <4> QED BY <4>1, <4>3, <4>4
    <3> QED BY <1>3a, <3>1, <3>2
  <2>6. EntriesAreGuesses(em)'
    <3> SUFFICES ASSUME NEW n \in 1 .. N
                 PROVE  \E i \in 1 .. lg + 1 : H[i].entries = n /\ H[i].at = entries[n]
      BY <1>7b, <1>9, <2>1 DEF EntriesAreGuesses
    <3>1. CASE n = N
      <4>1. lg + 1 \in 1 .. lg + 1
        BY <1>3
      <4> QED BY <1>6, <1>7, <2>1a, <2>1b, <3>1, <4>1
    <3>2. CASE n \in 1 .. lf
      <4>1. PICK i \in 1 .. lg : G[i].entries = n /\ G[i].at = F[n]
        BY <1>3, <1>2a, <1>12, <3>2 DEF EntriesAreGuesses
      <4>2. i \in 1 .. lg + 1
        BY <1>3
      <4> QED BY <1>7, <2>1, <3>2, <4>1, <4>2
    <3> QED BY <1>3a, <3>1, <3>2
  <2>7. \A i \in 1 .. lg : H[i] = G[i] /\ H[i].entries # N
    BY <1>3a, <1>7, <1>13
  <2>8. OncePerEntry(em)'
    <3> SUFFICES ASSUME NEW i \in 1 .. lg + 1, NEW k \in 1 .. lg + 1,
                        H[i].entries = H[k].entries, H[i].by = H[k].by
                 PROVE  i = k
      BY <1>7b, <1>9 DEF OncePerEntry
    <3>1. CASE i \in 1 .. lg /\ k \in 1 .. lg
      BY <1>3, <1>2a, <1>12, <2>7, <3>1 DEF OncePerEntry
    <3>2. CASE i = lg + 1 \/ k = lg + 1
      BY <1>3a, <1>6, <1>7, <2>1a, <2>7, <3>2
    <3> QED BY <1>3a, <3>1, <3>2
  <2>9. LetInByRoom(em)'
    <3> SUFFICES ASSUME NEW q \in Requests, q # r PROVE ~GuessedSince(q, em)'
      BY <1>10 DEF LetInByRoom
    <3> SUFFICES ASSUME NEW i \in 1 .. lg + 1, H[i].by = q, H[i].entries = N PROVE FALSE
      BY <1>2b, <1>7b, <1>9, <2>1 DEF GuessedSince
    <3> QED BY <1>3, <1>6, <1>7, <2>7
  <2> QED BY <2>2, <2>4, <2>5, <2>6, <2>8, <2>9
<1>15. ASSUME ~Allowed(em)
       PROVE  (/\ EntriesInOrder(em) /\ WindowNotOverfull(em) /\ GuessesBetweenEntries(em)
              /\ EntriesAreGuesses(em) /\ OncePerEntry(em) /\ LetInByRoom(em))'
  <2>1. entries = F
    BY <1>5, <1>15
  <2>1a. DOMAIN F = 1 .. lf
    BY <1>3
  <2>2. EntriesInOrder(em)' /\ WindowNotOverfull(em)' /\ (Allowed(em)' <=> Allowed(em))
    BY <1>1, <1>2a, <1>9, <1>12, <2>1 DEF EntriesInOrder, WindowNotOverfull, Recent, InWindow, Allowed
  <2>3. GuessesBetweenEntries(em)'
    <3> SUFFICES ASSUME NEW i \in 1 .. lg + 1
                 PROVE  /\ H[i].at <= now
                        /\ H[i].entries \in 1 .. lf
                        /\ F[H[i].entries] <= H[i].at
                        /\ H[i].entries + 1 \in 1 .. lf => H[i].at <= F[H[i].entries + 1]
      BY <1>1, <1>3, <1>7b, <1>9, <2>1 DEF GuessesBetweenEntries
    <3>1. CASE i = lg + 1
      <4>1. lf \in 1 .. lf /\ lf + 1 \notin 1 .. lf
        BY <1>3, <1>5, <2>1
      <4>2. F[lf] <= now
        BY <1>3, <1>2a, <1>12, <4>1 DEF EntriesInOrder
      <4> QED BY <1>1, <1>2b, <1>6, <1>7, <2>1, <3>1, <4>1, <4>2
    <3>2. CASE i \in 1 .. lg
      BY <1>7, <1>13, <1>13a, <3>2
    <3> QED BY <1>3a, <3>1, <3>2
  <2>4. EntriesAreGuesses(em)'
    <3> SUFFICES ASSUME NEW n \in 1 .. lf
                 PROVE  \E i \in 1 .. lg + 1 : H[i].entries = n /\ H[i].at = F[n]
      BY <1>7b, <1>9, <2>1, <2>1a DEF EntriesAreGuesses
    <3>1. PICK i \in 1 .. lg : G[i].entries = n /\ G[i].at = F[n]
      BY <1>3, <1>2a, <1>12 DEF EntriesAreGuesses
    <3>2. i \in 1 .. lg + 1
      BY <1>3
    <3> QED BY <1>7, <3>1, <3>2
  <2>5. \A i \in 1 .. lg : H[i] = G[i] /\ ~(H[i].by = r /\ H[i].entries = lf)
    <3>1. ~GuessedSince(r, em)
      BY <1>1, <1>2a, <1>12, <1>15 DEF LetInByRoom
    <3> QED BY <1>2a, <1>2b, <1>3, <1>7, <3>1 DEF GuessedSince
  <2>6. OncePerEntry(em)'
    <3> SUFFICES ASSUME NEW i \in 1 .. lg + 1, NEW k \in 1 .. lg + 1,
                        H[i].entries = H[k].entries, H[i].by = H[k].by
                 PROVE  i = k
      BY <1>7b, <1>9 DEF OncePerEntry
    <3>1. CASE i \in 1 .. lg /\ k \in 1 .. lg
      BY <1>3, <1>2a, <1>12, <2>5, <3>1 DEF OncePerEntry
    <3>2. CASE i = lg + 1 \/ k = lg + 1
      BY <1>3a, <1>2b, <1>6, <1>7, <2>1, <2>5, <3>2
    <3> QED BY <1>3a, <3>1, <3>2
  <2>7. LetInByRoom(em)'
    <3> SUFFICES ASSUME NEW q \in Requests, q # r, GuessedSince(q, em)' PROVE GuessedSince(q, em)
      BY <1>10, <1>2a, <1>12, <2>2 DEF LetInByRoom
    <3>1. PICK i \in 1 .. lg + 1 : H[i].by = q /\ H[i].entries = lf
      BY <1>2b, <1>7b, <1>9, <2>1 DEF GuessedSince
    <3>2. i \in 1 .. lg
      BY <1>3, <1>6, <1>7, <3>1
    <3> QED BY <1>2a, <1>2b, <1>3, <1>7, <3>1, <3>2 DEF GuessedSince
  <2> QED BY <2>2, <2>3, <2>4, <2>6, <2>7
<1>16. now' \in Nat
  BY <1>1
<1> QED BY <1>8, <1>11, <1>14, <1>15, <1>16 DEF Limiter

\* Every step leaves the limiter's invariant.
LEMMA NextLimiter == ASSUME AccountsInv, Limiter, [Next]_vars PROVE Limiter'
<1>1. ASSUME UNCHANGED <<failures, guesses, now, job>>
      PROVE  Limiter'
  BY <1>1, NoGuessLimiter DEF At
<1>2. ASSUME NEW r \in Requests, UNCHANGED <<failures, guesses, now>>,
             \E x : job' = [job EXCEPT ![r] = x] /\ (x # None => x.stage # "verify")
      PROVE  Limiter'
  <2>1. \A q \in Requests : At(q, "verify")' => At(q, "verify") /\ job'[q] = job[q]
    BY <1>2 DEF At, AccountsInv, TablesOK
  <2> QED BY <1>2, <2>1, NoGuessLimiter
<1>3. ASSUME NEW r \in Requests, NEW b \in Browsers, NEW e \in Emails, NEW p \in Passwords \cup {None},
             SubmitLogin(r, b, e, p)
      PROVE  Limiter'
  <2>1. UNCHANGED <<failures, guesses, now>>
    BY <1>3 DEF SubmitLogin
  <2>2. ASSUME NEW q \in Requests, At(q, "verify")'
        PROVE  (Allowed(e) /\ job'[q].email = e) \/ (At(q, "verify") /\ job'[q] = job[q])
    BY <1>3, <2>2 DEF SubmitLogin, At, AccountsInv, TablesOK
  <2> QED BY <2>1, <2>2, NoGuessLimiter
<1>5. ASSUME NEW r \in Requests, End(r), UNCHANGED <<loginVars, now>>
      PROVE  Limiter'
  BY <1>2, <1>5 DEF End, loginVars
<1>6. ASSUME NEW r \in Requests,
             \/ \E b \in Browsers \cup {None}, t \in Admins, e \in Emails, p \in Passwords :
                   SubmitCreate(r, b, t, e, p)
             \/ \E b \in Browsers, t \in Admins :
                   \/ \E e \in Emails \cup {None}, on \in BOOLEAN \cup {None} : SubmitUpdate(r, b, t, e, on)
                   \/ \E p \in Passwords : SubmitPassword(r, b, t, p)
      PROVE  Limiter'
  <2>1. PICK b, t, e, p, on, op : Submit(r, b, NoCopy(op, b, t, e, p, on))
    BY <1>6 DEF SubmitCreate, SubmitUpdate, SubmitPassword
  <2>2. NoCopy(op, b, t, e, p, on).stage # "verify"
    BY DEF NoCopy
  <2> QED BY <1>2, <2>1, <2>2 DEF Submit, loginVars
<1>7. ASSUME NEW r \in Requests, Load(r) \/ CheckEmail(r)
      PROVE  Limiter'
  <2>1. job[r] \in Job
    BY <1>7 DEF Load, CheckEmail, At, AccountsInv, TablesOK
  <2>2. UNCHANGED <<loginVars, now>>
    BY <1>7 DEF Load, CheckEmail
  <2>3. CASE End(r)
    BY <1>5, <2>2, <2>3
  <2>4. ASSUME NEW row, NEW stage \in {"check", "commit"}, job' = [job EXCEPT ![r].copy = row, ![r].stage = stage]
        PROVE  Limiter'
    <3> DEFINE x == [job[r] EXCEPT !.copy = row, !.stage = stage]
    <3>1. job' = [job EXCEPT ![r] = x] /\ x.stage = stage
      BY <2>1, <2>4 DEF AccountsInv, TablesOK, Job
    <3> QED BY <1>2, <2>2, <3>1 DEF loginVars
  <2>5. ASSUME job' = [job EXCEPT ![r].stage = "commit"]
        PROVE  Limiter'
    <3> DEFINE x == [job[r] EXCEPT !.stage = "commit"]
    <3>1. job' = [job EXCEPT ![r] = x] /\ x.stage = "commit"
      BY <2>1, <2>5 DEF AccountsInv, TablesOK, Job
    <3> QED BY <1>2, <2>2, <3>1 DEF loginVars
  <2> QED BY <1>7, <2>3, <2>4, <2>5 DEF Load, CheckEmail
<1>8. ASSUME NEW r \in Requests, Commit(r) \/ Fail(r)
      PROVE  Limiter'
  BY <1>5, <1>8 DEF Commit, Fail
<1>9. ASSUME NEW r \in Requests, Login(r)
      PROVE  Limiter'
  <2>1. CASE Authenticated(job[r]) = {}
    BY <1>9, <2>1, LoginLimiter
  <2>2. CASE Authenticated(job[r]) # {}
    BY <1>5, <1>9, <2>2 DEF Login
  <2> QED BY <2>1, <2>2
<1>10. ASSUME NEW b \in Browsers, Refresh(b) \/ Logout(b)
       PROVE  Limiter'
  BY <1>1, <1>10 DEF Refresh, Logout, loginVars
<1>11. CASE UNCHANGED vars
  BY <1>1, <1>11 DEF vars
<1>12. CASE Tick
  BY <1>12, TickLimiter
<1> QED
  BY <1>3, <1>6, <1>7, <1>8, <1>9, <1>10, <1>11, <1>12 DEF Next

\* What the limiter's bound rests on holds along every behaviour.
LEMMA LimiterInvariant == Spec => []Limiter
<1>1. Init => Limiter
  BY InitLimiter
<1>2. AccountsInv /\ Limiter /\ [Next]_vars => Limiter'
  BY NextLimiter
<1> QED
  BY <1>1, <1>2, AccountsInductive, PTL DEF Spec

----------------------------------------------------------------------------
\* Guesses with distinct pairs of entry and slot are no more than the pairs.
LEMMA CountPairs ==
    ASSUME NEW G, NEW I, NEW P, IsFiniteSet(P),
           \A i \in I : <<G[i].entries, G[i].by>> \in P,
           \A i, k \in I : G[i].entries = G[k].entries /\ G[i].by = G[k].by => i = k
    PROVE  Cardinality(I) \in Nat /\ Cardinality(P) \in Nat /\ Cardinality(I) <= Cardinality(P)
<1> DEFINE f == [i \in I |-> <<G[i].entries, G[i].by>>]
<1>1. f \in [I -> P] /\ \A i, k \in I : f[i] = f[k] => i = k
  OBVIOUS
<1>2. f \in Injection(I, P)
  BY <1>1 DEF Injection, IsInjective
<1> HIDE DEF f
<1> QED BY <1>2, FS_Injection, FS_CardinalityType

\* Fewer or as many entries leave room for one more of each request, if there is one.
LEMMA RoomForOneMore ==
    ASSUME NEW m \in Nat, NEW limit \in Nat, NEW q \in Nat, m <= limit, q > 0
    PROVE  /\ m * q \in Nat /\ m * q < (limit + 1) * q
           /\ (m + 1) * q \in Nat /\ (m + 1) * q - 1 < (limit + 1) * q
<1>1. \A a, b, c \in Nat : a <= b => a * c <= b * c
  OBVIOUS
<1>2. m * q <= limit * q /\ (m + 1) * q <= (limit + 1) * q
  BY <1>1
<1>3. (limit + 1) * q = limit * q + q
  OBVIOUS
<1>4. m * q \in Nat /\ limit * q \in Nat /\ (m + 1) * q \in Nat /\ (limit + 1) * q \in Nat
  OBVIOUS
<1> QED BY <1>2, <1>3, <1>4

\* The recent guesses have an entry of the window, or the last one before it; and
\* of the pairs with that one, the entry's own guess is as old as the entry.
LEMMA LimiterBounds == ASSUME Limiter PROVE GuessesBounded
<1> SUFFICES ASSUME NEW e \in Emails
             PROVE  Cardinality(RecentGuesses(e)) < (Limit + 1) * Cardinality(Requests)
  BY DEF GuessesBounded
<1>1. PICK F, G, R, I, Q : /\ F = failures[e] /\ G = guesses[e] /\ R = Recent(F)
                           /\ I = RecentGuesses(e) /\ Q = Requests
  OBVIOUS
<1>2. F \in Seq(Nat) /\ G \in Seq(Guess)
  BY <1>1 DEF Limiter
<1>3. /\ EntriesInOrder(e) /\ WindowNotOverfull(e) /\ GuessesBetweenEntries(e)
      /\ EntriesAreGuesses(e) /\ OncePerEntry(e) /\ now \in Nat /\ Window \in Nat
  BY AccountsAssumption DEF Limiter
<1>4. /\ IsFiniteSet(R) /\ Cardinality(R) \in Nat /\ R \subseteq DOMAIN F /\ Cardinality(R) <= Limit
      /\ R = {n \in DOMAIN F : InWindow(F[n])} /\ Limit \in Nat
  BY <1>1, <1>3, RecentFinite, AccountsAssumption DEF WindowNotOverfull, Recent
<1>5. I = {i \in DOMAIN G : InWindow(G[i].at)}
  BY <1>1 DEF RecentGuesses
<1>6. IsFiniteSet(Q) /\ Cardinality(Q) \in Nat /\ Cardinality(Q) > 0
  BY <1>1, AccountsAssumption, FS_CardinalityType, FS_EmptySet
<1>7. \A i \in DOMAIN G : G[i].at \in Nat /\ G[i].by \in Q
  <2>1. \A i \in DOMAIN G : G[i] \in Guess
    BY <1>2
  <2> QED BY <1>1, <2>1 DEF Guess
<1>8. \A i \in DOMAIN G : G[i].entries \in DOMAIN F
  BY <1>1, <1>3 DEF GuessesBetweenEntries
<1>9. \A i, k \in DOMAIN G : G[i].entries = G[k].entries /\ G[i].by = G[k].by => i = k
  BY <1>1, <1>3 DEF OncePerEntry
<1>10. I \subseteq DOMAIN G
  BY <1>5
<1>13. \A i, k \in I : G[i].entries = G[k].entries /\ G[i].by = G[k].by => i = k
  BY <1>9, <1>10
<1>11. CASE \A i \in I : G[i].entries \in R
  <2>1. IsFiniteSet(R \X Q) /\ Cardinality(R \X Q) = Cardinality(R) * Cardinality(Q)
    BY <1>4, <1>6, FS_Product
  <2>2. PICK P : P = R \X Q
    OBVIOUS
  <2>3. \A i \in I : <<G[i].entries, G[i].by>> \in P
    BY <1>7, <1>10, <1>11, <2>2
  <2>5. IsFiniteSet(P) /\ Cardinality(P) = Cardinality(R) * Cardinality(Q)
    BY <2>1, <2>2
  <2>6. Cardinality(I) \in Nat /\ Cardinality(P) \in Nat /\ Cardinality(I) <= Cardinality(P)
    BY <1>13, <2>3, <2>5, CountPairs
  <2>4. /\ Cardinality(R) * Cardinality(Q) \in Nat
        /\ Cardinality(R) * Cardinality(Q) < (Limit + 1) * Cardinality(Q)
    BY <1>4, <1>6, RoomForOneMore
  <2>7. (Limit + 1) * Cardinality(Q) \in Nat
    BY <1>4, <1>6
  <2> QED BY <1>1, <2>4, <2>5, <2>6, <2>7
<1>12. ASSUME NEW i0 \in I, G[i0].entries \notin R
       PROVE  Cardinality(I) < (Limit + 1) * Cardinality(Q)
  <2>1. PICK k : k = G[i0].entries
    OBVIOUS
  <2>2. k \in DOMAIN F /\ k \notin R /\ ~InWindow(F[k])
    BY <1>4, <1>8, <1>10, <1>12, <2>1
  <2>3. PICK N \in Nat : DOMAIN F = 1 .. N /\ \A n \in 1 .. N : F[n] \in Nat
    BY <1>2
  <2>4. \A i \in I : G[i].entries \in R \cup {k}
    <3> SUFFICES ASSUME NEW i \in I, NEW n, n = G[i].entries, n \notin R, n # k PROVE FALSE
      OBVIOUS
    <3>1. n \in 1 .. N /\ k \in 1 .. N /\ ~InWindow(F[n])
      BY <1>4, <1>8, <1>10, <2>2, <2>3
    <3>2. InWindow(G[i].at) /\ InWindow(G[i0].at) /\ G[i].at \in Nat /\ G[i0].at \in Nat
      BY <1>5, <1>7
    <3>3. n + 1 \in 1 .. N => G[i].at <= F[n + 1]
      BY <1>1, <1>3, <1>10, <2>3 DEF GuessesBetweenEntries
    <3>4. k + 1 \in 1 .. N => G[i0].at <= F[k + 1]
      BY <1>1, <1>3, <1>10, <2>1, <2>3 DEF GuessesBetweenEntries
    <3>5. \A a, b \in 1 .. N : a <= b => F[a] <= F[b]
      BY <1>1, <1>3, <2>3 DEF EntriesInOrder
    <3>6. \A s, t \in Nat : s <= t /\ InWindow(s) => InWindow(t)
      BY <1>3 DEF InWindow
    <3>7. CASE n < k
      <4>1. n + 1 \in 1 .. N /\ n + 1 <= k
        BY <2>3, <3>1, <3>7
      <4>2. G[i].at <= F[n + 1] /\ F[n + 1] <= F[k] /\ F[n + 1] \in Nat /\ F[k] \in Nat
        BY <2>3, <3>1, <3>3, <3>5, <4>1
      <4> QED BY <2>2, <3>2, <3>6, <4>2
    <3>8. CASE k < n
      <4>1. k + 1 \in 1 .. N /\ k + 1 <= n
        BY <2>3, <3>1, <3>8
      <4>2. G[i0].at <= F[k + 1] /\ F[k + 1] <= F[n] /\ F[k + 1] \in Nat /\ F[n] \in Nat
        BY <2>3, <3>1, <3>4, <3>5, <4>1
      <4> QED BY <3>1, <3>2, <3>6, <4>2
    <3> QED BY <2>3, <3>1, <3>7, <3>8
  <2>5. PICK own \in DOMAIN G : G[own].entries = k /\ G[own].at = F[k]
    BY <1>1, <1>3, <2>2 DEF EntriesAreGuesses
  <2>6. own \notin I
    BY <1>5, <2>2, <2>5
  <2>7. PICK A : A = R \cup {k}
    OBVIOUS
  <2>8. IsFiniteSet(A) /\ Cardinality(A) = Cardinality(R) + 1
    BY <1>4, <2>2, <2>7, FS_AddElement
  <2>9. IsFiniteSet(A \X Q) /\ Cardinality(A \X Q) = (Cardinality(R) + 1) * Cardinality(Q)
    BY <1>6, <2>8, FS_Product
  <2>10. PICK P, x : P = A \X Q /\ x = <<k, G[own].by>>
    OBVIOUS
  <2>11. x \in P
    BY <1>7, <2>7, <2>10
  <2>12. IsFiniteSet(P \ {x}) /\ Cardinality(P \ {x}) = (Cardinality(R) + 1) * Cardinality(Q) - 1
    <3>1. IsFiniteSet(P) /\ Cardinality(P) = (Cardinality(R) + 1) * Cardinality(Q)
      BY <2>9, <2>10
    <3>2. IsFiniteSet(P \ {x}) /\ Cardinality(P \ {x}) = Cardinality(P) - 1
      BY <2>11, <3>1, FS_RemoveElement
    <3> QED BY <3>1, <3>2
  <2>13. \A i \in I : <<G[i].entries, G[i].by>> \in P \ {x}
    <3> SUFFICES ASSUME NEW i \in I PROVE <<G[i].entries, G[i].by>> \in P \ {x}
      OBVIOUS
    <3>1. <<G[i].entries, G[i].by>> \in P
      BY <1>7, <1>10, <2>4, <2>7, <2>10
    <3>2. <<G[i].entries, G[i].by>> # x
      BY <1>9, <1>10, <2>5, <2>6, <2>10
    <3> QED BY <3>1, <3>2
  <2>14. Cardinality(I) \in Nat /\ Cardinality(I) <= (Cardinality(R) + 1) * Cardinality(Q) - 1
    <3>1. PICK S : S = P \ {x}
      OBVIOUS
    <3>2. IsFiniteSet(S) /\ \A i \in I : <<G[i].entries, G[i].by>> \in S
      BY <2>12, <2>13, <3>1
    <3>3. Cardinality(I) \in Nat /\ Cardinality(I) <= Cardinality(S)
      BY <1>13, <3>2, CountPairs
    <3> QED BY <2>12, <3>1, <3>3
  <2>15. /\ (Cardinality(R) + 1) * Cardinality(Q) \in Nat
         /\ (Cardinality(R) + 1) * Cardinality(Q) - 1 < (Limit + 1) * Cardinality(Q)
    BY <1>4, <1>6, RoomForOneMore
  <2>16. (Limit + 1) * Cardinality(Q) \in Nat
    BY <1>4, <1>6
  <2> QED BY <2>14, <2>15, <2>16
<1> QED BY <1>1, <1>11, <1>12

\* However logins overlap, an email's password is tried in vain fewer times within
\* a window than there are requests at once for each of the limit and one entries.
THEOREM GuessesAreBounded == Spec => []GuessesBounded
<1>1. Limiter => GuessesBounded
  BY LimiterBounds
<1> QED
  BY <1>1, LimiterInvariant, PTL

\* What the two invariants leave out of the types.
ClockOK == now \in 0 .. MaxTime /\ crossed \in BOOLEAN

\* The clock stops at its bound.
LEMMA ClockKept ==
    /\ Init => ClockOK
    /\ ClockOK /\ [Next]_vars => ClockOK'
<1>1. Init => ClockOK
  <2>1. MaxTime \in Nat
    BY AccountsAssumption
  <2>2. Init => now = 0 /\ crossed = FALSE
    BY DEF Init
  <2>3. 0 \in 0 .. MaxTime
    BY <2>1
  <2>4. FALSE \in BOOLEAN
    OBVIOUS
  <2> QED BY <2>2, <2>3, <2>4 DEF ClockOK
<1>2. ASSUME ClockOK, UNCHANGED <<now, crossed>> PROVE ClockOK'
  BY <1>2 DEF ClockOK
<1>3. ASSUME ClockOK, [Next]_vars PROVE ClockOK'
  <2>1. CASE Tick
    BY <1>3, <2>1, AccountsAssumption DEF Tick, rowVars, ClockOK
  <2>2. ASSUME NEW r \in Requests, Commit(r) PROVE ClockOK'
    BY <1>3, <2>2 DEF Commit, ClockOK
  <2>3. CASE UNCHANGED vars
    BY <1>2, <1>3, <2>3 DEF vars
  <2>4. ASSUME NEW r \in Requests,
               \/ \E b \in Browsers, e \in Emails, p \in Passwords \cup {None} : SubmitLogin(r, b, e, p)
               \/ \E b \in Browsers \cup {None}, t \in Admins, e \in Emails, p \in Passwords :
                     SubmitCreate(r, b, t, e, p)
               \/ \E b \in Browsers, t \in Admins :
                     \/ \E e \in Emails \cup {None}, on \in BOOLEAN \cup {None} : SubmitUpdate(r, b, t, e, on)
                     \/ \E p \in Passwords : SubmitPassword(r, b, t, p)
               \/ Login(r) \/ Load(r) \/ CheckEmail(r) \/ Fail(r)
        PROVE  ClockOK'
    BY <1>2, <1>3, <2>4
    DEF SubmitLogin, SubmitCreate, SubmitUpdate, SubmitPassword, Submit, Login, Load, CheckEmail, Fail, rowVars
  <2>5. ASSUME NEW b \in Browsers, Refresh(b) \/ Logout(b) PROVE ClockOK'
    BY <1>2, <1>3, <2>5 DEF Refresh, Logout, rowVars
  <2> QED BY <1>3, <2>1, <2>2, <2>3, <2>4, <2>5 DEF Next
<1> QED BY <1>1, <1>3

\* Rows, tokens, requests and the limiter's entries have the shapes the code gives
\* them, and the limiter never holds more of a window than its limit.
THEOREM AccountsTypesHold == Spec => []TypeOK
<1>1. TablesOK /\ Limiter /\ ClockOK => TypeOK
  BY DEF TablesOK, Limiter, ClockOK, TypeOK, WindowNotOverfull
<1>2. AccountsInv => TablesOK
  BY DEF AccountsInv
<1> QED
  BY <1>1, <1>2, ClockKept, AccountsInductive, LimiterInvariant, PTL DEF Spec

----------------------------------------------------------------------------
(***************************************************************************)
(* The admins' notifications.  PagingSkipsNothing is not inductive: it     *)
(* does not say where in the list the rows are that the reader has yet to  *)
(* see.  They lie below what he has passed, because the rows keep their    *)
(* time and the list only grows; and a row's place in a listing is the     *)
(* number of rows that are newer.                                          *)
(***************************************************************************)
InboxTypes ==
    /\ rows \in [Ids -> NotificationRow \cup {None}]
    /\ date \in Nat /\ unread \in BOOLEAN /\ disturbed \in BOOLEAN
    /\ page \in Nat /\ total \in Nat \cup {None} /\ items \in Seq(Ids) \cup {None}
    /\ editing \in [Editors -> [id: Ids, read: BOOLEAN] \cup {None}]
    /\ \A e \in Editors : editing[e] # None => rows[editing[e].id] # None
    /\ expected \subseteq Ids /\ listed \subseteq Ids

\* The list, as far as it comes before notification n.
Above(n) == {m \in Matching : Newer(m, n)}

\* How much of it the reader has passed.
Passed == IF items = None THEN Offset ELSE Offset + PageSize

Undisturbed == unread => ~disturbed

\* What he still has to see lies below what he has passed, and has not left the list.
StillBelow ==
    /\ expected \subseteq Matching
    /\ \A n \in expected \ listed : Cardinality(Above(n)) >= Passed

PageFull ==
    /\ total # None => total <= Cardinality(Matching)
    /\ items # None => Len(items) >= Min({PageSize, total - Offset})

InboxInv ==
    /\ InboxTypes
    /\ page = 0 => total = None
    /\ items # None => total # None
    /\ page > 0 /\ Undisturbed => StillBelow /\ PageFull /\ (Finished => expected \subseteq listed)

----------------------------------------------------------------------------
\* Lists of notifications are finite.
LEMMA IdsFinite ==
    ASSUME InboxAssumption, NEW S, S \subseteq Ids
    PROVE  IsFiniteSet(S) /\ Cardinality(S) \in Nat
  BY FS_Subset, FS_CardinalityType DEF InboxAssumption

\* What is on the list is a finite set of notifications.
LEMMA MatchingFinite ==
    ASSUME InboxAssumption, InboxTypes
    PROVE  /\ Matching \subseteq Ids /\ IsFiniteSet(Matching) /\ Cardinality(Matching) \in Nat
           /\ \A n : IsFiniteSet(Above(n)) /\ Cardinality(Above(n)) \in Nat
           /\ \A n \in Matching : rows[n] \in NotificationRow
<1>1. Matching \subseteq Ids
  BY DEF Matching, Added
<1>2. IsFiniteSet(Matching) /\ Cardinality(Matching) \in Nat
  BY <1>1, FS_Subset, FS_CardinalityType DEF InboxAssumption
<1>3. ASSUME NEW n PROVE IsFiniteSet(Above(n)) /\ Cardinality(Above(n)) \in Nat
  BY <1>2, FS_Subset, FS_CardinalityType DEF Above
<1>4. \A n \in Matching : rows[n] \in NotificationRow
  BY DEF Matching, Added, InboxTypes
<1> QED
  BY <1>1, <1>2, <1>3, <1>4

\* A page begins at a natural number of rows.
LEMMA OffsetType ==
    ASSUME InboxAssumption, page \in Nat, page > 0
    PROVE  Offset \in Nat
<1>1. ASSUME NEW p \in Nat, NEW s \in Nat PROVE p * s \in Nat
  OBVIOUS
<1>2. page - 1 \in Nat /\ PageSize \in Nat
  BY DEF InboxAssumption
<1> QED
  BY <1>1, <1>2 DEF Offset

----------------------------------------------------------------------------
\* A listing shows each row that matches, once.
LEMMA ListingIsOnto ==
    ASSUME InboxAssumption, InboxTypes, NEW s \in Listings
    PROVE  /\ DOMAIN s = 1 .. Cardinality(Matching) /\ Len(s) = Cardinality(Matching)
           /\ s \in Seq(Matching)
           /\ \A i, j \in DOMAIN s : s[i] = s[j] => i = j
           /\ \A n \in Matching : \E i \in DOMAIN s : s[i] = n
<1> DEFINE N == Cardinality(Matching)
<1>0. N \in Nat /\ IsFiniteSet(Matching)
  BY MatchingFinite
<1>1. s \in [1 .. N -> Matching] /\ \A i, j \in 1 .. N : i # j => s[i] # s[j]
  BY DEF Listings, SetToSeqs
<1>2. s \in Injection(1 .. N, Matching)
  BY <1>1 DEF Injection, IsInjective
<1>3. Cardinality(1 .. N) = N
  BY <1>0, FS_Interval
<1>4. s \in Surjection(1 .. N, Matching)
  BY <1>0, <1>2, <1>3, FS_Injection
<1>5. \A n \in Matching : \E i \in 1 .. N : s[i] = n
  BY <1>4 DEF Surjection
<1>6. s \in Seq(Matching) /\ Len(s) = N
  BY <1>0, <1>1
<1> QED
  BY <1>1, <1>5, <1>6

\* A row's place in it is the number of rows that are newer.
LEMMA PlaceInListing ==
    ASSUME InboxAssumption, InboxTypes, NEW s \in Listings, NEW k \in DOMAIN s
    PROVE  Cardinality(Above(s[k])) = k - 1
<1> DEFINE N == Cardinality(Matching)
           before == [i \in 1 .. k - 1 |-> s[i]]
<1>0. N \in Nat
  BY MatchingFinite
<1>1. /\ DOMAIN s = 1 .. N
      /\ \A i \in 1 .. N : s[i] \in Matching
      /\ \A i, j \in 1 .. N : s[i] = s[j] => i = j
      /\ \A n \in Matching : \E i \in 1 .. N : s[i] = n
  BY ListingIsOnto
<1>2. k \in 1 .. N
  BY <1>1
<1>3. \A i, j \in 1 .. N : i < j => ~Newer(s[j], s[i])
  BY <1>1 DEF Listings
<1>a. \A m \in Matching : m \in Nat /\ rows[m].at \in Nat
  BY MatchingFinite DEF NotificationRow, InboxAssumption
<1>4. \A m, n \in Matching : m # n => Newer(m, n) \/ Newer(n, m)
  BY <1>a DEF Newer
<1>5. \A m \in Matching : ~Newer(m, m)
  BY <1>a DEF Newer
<1>6. \A i \in 1 .. k - 1 : s[i] \in Above(s[k])
  <2> SUFFICES ASSUME NEW i \in 1 .. k - 1 PROVE s[i] \in Above(s[k])
    OBVIOUS
  <2>1. i \in 1 .. N /\ i < k
    BY <1>0, <1>2
  <2>2. s[i] \in Matching /\ s[k] \in Matching /\ s[i] # s[k] /\ ~Newer(s[k], s[i])
    BY <2>1, <1>1, <1>2, <1>3
  <2> QED
    BY <2>2, <1>4 DEF Above
<1>7. \A m \in Above(s[k]) : \E i \in 1 .. k - 1 : s[i] = m
  <2> SUFFICES ASSUME NEW m \in Above(s[k]) PROVE \E i \in 1 .. k - 1 : s[i] = m
    OBVIOUS
  <2>1. PICK i \in 1 .. N : s[i] = m
    BY <1>1 DEF Above
  <2>2. Newer(s[i], s[k])
    BY <2>1 DEF Above
  <2>3. i # k
    BY <2>2, <1>1, <1>2, <1>5
  <2>4. ~(k < i)
    BY <2>2, <1>2, <1>3
  <2> QED
    BY <2>1, <2>3, <2>4, <1>0, <1>2
<1>8. before \in [1 .. k - 1 -> Above(s[k])]
  BY <1>6
<1>9. before \in Surjection(1 .. k - 1, Above(s[k]))
  BY <1>7, <1>8 DEF Surjection
<1>10. before \in Injection(1 .. k - 1, Above(s[k]))
  <2>1. 1 .. k - 1 \subseteq 1 .. N
    BY <1>0, <1>2
  <2> QED
    BY <2>1, <1>1, <1>8 DEF Injection, IsInjective
<1>11. IsFiniteSet(1 .. k - 1) /\ Cardinality(1 .. k - 1) = k - 1
  <2>1. k - 1 \in Int /\ 1 \in Int /\ k - 1 >= 0
    BY <1>0, <1>2
  <2>2. /\ IsFiniteSet(1 .. k - 1)
        /\ Cardinality(1 .. k - 1) = IF 1 > k - 1 THEN 0 ELSE k - 1 - 1 + 1
    BY <2>1, FS_Interval
  <2> QED
    BY <2>1, <2>2
<1> QED
  BY <1>9, <1>10, <1>11, FS_Surjection

\* The page is the listing from the offset on.
LEMMA PageOfListing ==
    ASSUME InboxAssumption, InboxTypes, page > 0, NEW s \in Listings, Fetch(s)
    PROVE  LET N == Cardinality(Matching) IN
           /\ items' \in Seq(Ids)
           /\ Len(items') = IF N >= Offset + PageSize THEN PageSize
                            ELSE IF N >= Offset THEN N - Offset ELSE 0
           /\ \A k \in 1 .. N : k > Offset /\ k <= Offset + PageSize => s[k] \in ToSet(items')
           /\ ToSet(items') \subseteq Ids
<1> DEFINE N == Cardinality(Matching)
           last == IF Offset + PageSize <= N THEN Offset + PageSize ELSE N
<1>0. N \in Nat /\ Matching \subseteq Ids
  BY MatchingFinite
<1>1. Offset \in Nat
  BY OffsetType DEF InboxTypes
<1>2. PageSize \in Nat /\ PageSize > 0
  BY DEF InboxAssumption
<1>3. Len(s) = N /\ \A i \in 1 .. N : s[i] \in Ids
  BY <1>0, ListingIsOnto
<1>4. items' = SubSeq(s, Offset + 1, last)
  BY <1>0, <1>1, <1>2, <1>3, MinOfTwo DEF Fetch
<1>5. \A i \in Offset + 1 .. last : s[i] \in Ids
  BY <1>0, <1>1, <1>2, <1>3
<1>6. last \in Int /\ Offset + 1 \in Int
  BY <1>0, <1>1, <1>2
<1> HIDE DEF last
<1>7. /\ items' \in Seq(Ids)
      /\ Len(items') = IF Offset + 1 <= last THEN last - (Offset + 1) + 1 ELSE 0
      /\ \A i \in 1 .. last - (Offset + 1) + 1 : items'[i] = s[Offset + 1 + i - 1]
  BY <1>4, <1>5, <1>6, SubSeqProperties
<1>8. Len(items') = IF N >= Offset + PageSize THEN PageSize
                    ELSE IF N >= Offset THEN N - Offset ELSE 0
  BY <1>0, <1>1, <1>2, <1>7 DEF last
<1>9. ASSUME NEW k \in 1 .. N, k > Offset, k <= Offset + PageSize
      PROVE  s[k] \in ToSet(items')
  <2>1. k - Offset \in 1 .. Len(items') /\ k - Offset \in 1 .. last - (Offset + 1) + 1
    BY <1>0, <1>1, <1>2, <1>7, <1>9 DEF last
  <2>2. Offset + 1 + (k - Offset) - 1 = k
    BY <1>0, <1>1
  <2>3. items'[k - Offset] = s[k]
    BY <2>1, <2>2, <1>7
  <2> QED
    BY <2>1, <2>3, <1>7 DEF ToSet
<1>10. ToSet(items') \subseteq Ids
  BY <1>7 DEF ToSet
<1> QED
  BY <1>7, <1>8, <1>9, <1>10


----------------------------------------------------------------------------
\* The list as it is when the reader begins.
LEMMA InitInbox == ASSUME InboxAssumption, InboxInit PROVE InboxInv
<1>1. InboxTypes
  <2>1. rows \in [Ids -> NotificationRow \cup {None}]
    <3>1. [at: {0}, read: {FALSE}] \subseteq NotificationRow
      <4>1. ASSUME NEW A, NEW B, A \subseteq Nat, B \subseteq BOOLEAN
            PROVE  [at: A, read: B] \subseteq [at: Nat, read: BOOLEAN]
        BY <4>1
      <4>2. {0} \subseteq Nat /\ {FALSE} \subseteq BOOLEAN
        OBVIOUS
      <4>3. [at: {0}, read: {FALSE}] \subseteq [at: Nat, read: BOOLEAN]
        BY <4>1, <4>2
      <4> QED
        BY <4>3, Zenon DEF NotificationRow
    <3>2. rows \in [Ids -> [at: {0}, read: {FALSE}] \cup {None}]
      BY DEF InboxInit
    <3> QED
      BY <3>1, <3>2
  <2> QED
    BY <2>1 DEF InboxInit, InboxTypes
<1> QED
  BY <1>1 DEF InboxInit, InboxInv

\* What others do: rows are added, and rows that are there keep their time; one leaves
\* the unread list only if something is marked.
LEMMA ListOnlyGrows ==
    ASSUME InboxAssumption, InboxInv, InboxTypes',
           UNCHANGED <<unread, page, total, items, expected, listed>>,
           disturbed => disturbed',
           Undisturbed' => /\ Matching \subseteq Matching'
                           /\ \A n \in Matching : rows'[n].at = rows[n].at
    PROVE  InboxInv'
<1> SUFFICES ASSUME page > 0, Undisturbed'
             PROVE  StillBelow' /\ PageFull' /\ (Finished => expected \subseteq listed)'
  BY DEF InboxInv
<1>1. Undisturbed /\ Matching \subseteq Matching' /\ \A n \in Matching : rows'[n].at = rows[n].at
  BY DEF Undisturbed
<1>2. StillBelow /\ PageFull /\ (Finished => expected \subseteq listed)
  BY <1>1 DEF InboxInv
<1>3. InboxTypes
  BY DEF InboxInv
<1>4. /\ Cardinality(Matching) \in Nat /\ IsFiniteSet(Matching') /\ Cardinality(Matching') \in Nat
      /\ \A n : /\ Cardinality(Above(n)) \in Nat
                /\ IsFiniteSet(Above(n)') /\ Cardinality(Above(n)') \in Nat
  <2>1. Matching' \subseteq Ids /\ \A n : Above(n)' \subseteq Ids
    BY DEF Matching, Added, Above
  <2> QED
    BY <2>1, <1>3, IdsFinite, MatchingFinite
<1>5. Cardinality(Matching) <= Cardinality(Matching')
  BY <1>1, <1>4, FS_Subset
<1>6. ASSUME NEW n \in Matching PROVE Cardinality(Above(n)) <= Cardinality(Above(n)')
  <2>1. Above(n) \subseteq Above(n)'
    BY <1>1 DEF Above, Newer
  <2> QED
    BY <2>1, <1>4, FS_Subset
<1>7. Passed' = Passed /\ Offset' = Offset /\ Passed \in Int /\ Offset \in Int
  BY <1>3, OffsetType DEF Passed, Offset, InboxTypes, InboxAssumption
<1>8. StillBelow'
  <2>1. expected' \subseteq Matching'
    BY <1>1, <1>2 DEF StillBelow
  <2>2. ASSUME NEW n \in expected' \ listed' PROVE Cardinality(Above(n)') >= Passed'
    <3>1. n \in Matching /\ Cardinality(Above(n)) >= Passed
      BY <1>2 DEF StillBelow
    <3> HIDE DEF Above
    <3> QED
      BY <3>1, <1>4, <1>6, <1>7
  <2> QED
    BY <2>1, <2>2 DEF StillBelow
<1>9. PageFull'
  <2>1. total # None => total \in Nat
    BY <1>3 DEF InboxTypes
  <2> QED
    BY <1>2, <1>4, <1>5, <1>7, <2>1 DEF PageFull
<1> QED
  BY <1>2, <1>8, <1>9 DEF Finished


\* Whatever others do leaves the invariant.
LEMMA OthersInbox ==
    ASSUME InboxAssumption, InboxInv,
           \/ \E n \in Ids, at \in 0 .. date : QueueNotification(n, at)
           \/ \E e \in Editors, n \in Ids : LoadOne(e, n)
           \/ \E e \in Editors : MarkOne(e)
           \/ MarkAll
           \/ InboxTick
    PROVE  InboxInv'
<1>0. InboxTypes
  BY DEF InboxInv
<1>t. \A n \in Added : rows[n] \in NotificationRow
  BY <1>0 DEF Added, InboxTypes
<1>1. ASSUME NEW n \in Ids, NEW at \in 0 .. date, QueueNotification(n, at)
      PROVE  InboxInv'
  <2> DEFINE row == [at |-> at, read |-> FALSE]
  <2>1. row \in NotificationRow /\ row # None /\ ~row.read
    <3>1. at \in Nat /\ FALSE \in BOOLEAN
      BY <1>0 DEF InboxTypes
    <3>2. row \in NotificationRow /\ row.read = FALSE
      BY <3>1 DEF NotificationRow
    <3> QED
      BY <3>2 DEF InboxAssumption
  <2>2. rows[n] = None /\ rows' = [rows EXCEPT ![n] = row] /\ disturbed' = disturbed
    BY <1>1 DEF QueueNotification
  <2> HIDE DEF row
  <2>3. InboxTypes'
    BY <1>0, <1>1, <2>1, <2>2 DEF InboxTypes, QueueNotification, reader
  <2>4. Matching \subseteq Matching' /\ \A m \in Matching : rows'[m].at = rows[m].at
    BY <1>0, <1>1, <2>1, <2>2 DEF InboxTypes, QueueNotification, reader, Matching, Added
  <2> QED
    BY <1>1, <2>3, <2>4, ListOnlyGrows DEF QueueNotification, reader
<1>2. ASSUME NEW e \in Editors, NEW n \in Ids, LoadOne(e, n)
      PROVE  InboxInv'
  <2>1. [id |-> n, read |-> rows[n].read] \in [id: Ids, read: BOOLEAN] /\ rows[n] # None
    BY <1>2, <1>t DEF LoadOne, NotificationRow, Added
  <2>2. InboxTypes'
    BY <1>0, <1>2, <2>1 DEF InboxTypes, LoadOne, reader
  <2> QED
    BY <1>2, <2>2, ListOnlyGrows DEF LoadOne, reader, Matching, Added
<1>3. ASSUME NEW e \in Editors, MarkOne(e)
      PROVE  InboxInv'
  <2> DEFINE i == editing[e].id
             marked == [rows EXCEPT ![i].read = TRUE]
  <2>1. i \in Added
    BY <1>0, <1>3 DEF MarkOne, InboxTypes, Added
  <2>2. marked[i] \in NotificationRow /\ marked[i].at = rows[i].at
    BY <1>0, <1>t, <2>1 DEF NotificationRow, InboxTypes, Added
  <2>3. /\ marked \in [Ids -> NotificationRow \cup {None}]
        /\ \A n \in Added : marked[n] # None /\ marked[n].at = rows[n].at
    BY <1>0, <1>t, <2>1, <2>2 DEF InboxTypes, Added, InboxAssumption
  <2>4. (rows' = rows \/ rows' = marked) /\ disturbed' = (disturbed \/ rows' # rows)
    BY <1>3 DEF MarkOne
  <2> HIDE DEF marked
  <2>5. InboxTypes'
    BY <1>0, <1>3, <2>3, <2>4 DEF InboxTypes, MarkOne, reader, Added
  <2>6. Undisturbed' => /\ Matching \subseteq Matching'
                        /\ \A n \in Matching : rows'[n].at = rows[n].at
    BY <1>0, <1>3, <2>3, <2>4 DEF Undisturbed, MarkOne, reader, Matching, Added, InboxTypes
  <2> QED
    BY <1>3, <2>4, <2>5, <2>6, ListOnlyGrows DEF MarkOne, reader
<1>4. ASSUME MarkAll PROVE InboxInv'
  <2>1. \A n \in Added : [rows[n] EXCEPT !.read = TRUE] \in NotificationRow
                         /\ [rows[n] EXCEPT !.read = TRUE].at = rows[n].at
    BY <1>t DEF NotificationRow
  <2>2. /\ rows' \in [Ids -> NotificationRow \cup {None}]
        /\ \A n \in Added : rows'[n] # None /\ rows'[n].at = rows[n].at
    BY <1>0, <1>4, <1>t, <2>1 DEF MarkAll, Unread, Added, InboxTypes, InboxAssumption
  <2>3. disturbed' = (disturbed \/ rows' # rows)
    BY <1>4 DEF MarkAll
  <2>4. InboxTypes'
    BY <1>0, <1>4, <2>2, <2>3 DEF InboxTypes, MarkAll, reader, Added
  <2>5. Undisturbed' => /\ Matching \subseteq Matching'
                        /\ \A n \in Matching : rows'[n].at = rows[n].at
    BY <1>0, <1>4, <2>2, <2>3 DEF Undisturbed, MarkAll, reader, Matching, Added, InboxTypes
  <2> QED
    BY <1>4, <2>3, <2>4, <2>5, ListOnlyGrows DEF MarkAll, reader
<1>5. ASSUME InboxTick PROVE InboxInv'
  <2>1. InboxTypes'
    BY <1>0, <1>5 DEF InboxTypes, InboxTick, reader
  <2> QED
    BY <1>5, <2>1, ListOnlyGrows DEF InboxTick, reader, Matching, Added
<1> QED
  BY <1>1, <1>2, <1>3, <1>4, <1>5

----------------------------------------------------------------------------
\* He begins at the head of the list, with all of it to see.
LEMMA BeginInbox == ASSUME InboxAssumption, InboxInv, Begin PROVE InboxInv'
<1>0. InboxTypes
  BY DEF InboxInv
<1>1. page = 0 /\ total = None /\ items = None /\ Matching \subseteq Ids
  BY <1>0, MatchingFinite DEF Begin, InboxInv
<1>2. /\ page' = 1 /\ total' = None /\ items' = None /\ expected' = Matching
      /\ Matching' = Matching /\ \A n : Above(n)' = Above(n)
  BY <1>1 DEF Begin, Matching, Added, Above, Newer
<1>3. InboxTypes'
  <2>1. page' \in Nat /\ expected' \subseteq Ids /\ disturbed' \in BOOLEAN
    <3>1. page' \in Nat /\ expected' \subseteq Ids
      BY <1>1, <1>2
    <3>2. disturbed' = FALSE
      BY DEF Begin
    <3> QED
      BY <3>1, <3>2
  <2> HIDE DEF Matching
  <2> QED
    BY <1>0, <2>1 DEF InboxTypes, Begin
<1>4. Passed' = 0
  <2>1. PageSize \in Int
    BY DEF InboxAssumption
  <2> QED
    BY <1>2, <2>1 DEF Passed, Offset
<1>5. StillBelow'
  <2>1. \A n : Cardinality(Above(n)') \in Nat
    BY <1>0, <1>2, MatchingFinite
  <2> HIDE DEF Above, Matching
  <2> QED
    BY <1>2, <1>4, <2>1 DEF StillBelow
<1> QED
  BY <1>2, <1>3, <1>5 DEF InboxInv, PageFull, Finished

\* The total is that of the list as it is.
LEMMA CountInbox == ASSUME InboxAssumption, InboxInv, Count PROVE InboxInv'
<1>0. InboxTypes
  BY DEF InboxInv
<1>1. page > 0 /\ items = None /\ Cardinality(Matching) \in Nat
  BY <1>0, MatchingFinite DEF Count, InboxInv
<1>2. /\ page' = page /\ items' = None /\ total' = Cardinality(Matching)
      /\ expected' = expected /\ listed' = listed /\ Undisturbed' = Undisturbed
      /\ Matching' = Matching /\ Passed' = Passed /\ \A n : Above(n)' = Above(n)
  BY <1>1 DEF Count, Matching, Added, Above, Newer, Passed, Offset, Undisturbed
<1>3. InboxTypes'
  BY <1>0, <1>1, <1>2 DEF InboxTypes, Count
<1>4. ASSUME Undisturbed' PROVE StillBelow' /\ PageFull' /\ ~Finished'
  <2>1. StillBelow
    BY <1>1, <1>2, <1>4 DEF InboxInv
  <2>2. StillBelow'
    BY <1>2, <2>1 DEF StillBelow
  <2>3. PageFull' /\ ~Finished'
    BY <1>1, <1>2 DEF PageFull, Finished
  <2> QED
    BY <2>2, <2>3
<1> QED
  BY <1>1, <1>2, <1>3, <1>4 DEF InboxInv

\* A row that he has not seen is on this page or below it; below it only if the page
\* is full.
LEMMA FetchInbox ==
    ASSUME InboxAssumption, InboxInv, NEW s \in Listings, Fetch(s)
    PROVE  InboxInv'
<1> DEFINE N == Cardinality(Matching)
<1>0. InboxTypes
  BY DEF InboxInv
<1>1. page > 0 /\ page \in Nat /\ total \in Nat /\ total # None /\ items = None
  BY <1>0 DEF Fetch, InboxInv, InboxTypes
<1>2. N \in Nat /\ Offset \in Nat /\ PageSize \in Nat /\ PageSize > 0
  BY <1>0, <1>1, MatchingFinite, OffsetType DEF InboxAssumption
<1>3. /\ page' = page /\ total' = total /\ expected' = expected
      /\ listed' = listed \cup ToSet(items') /\ Undisturbed' = Undisturbed
      /\ Matching' = Matching /\ Offset' = Offset /\ \A n : Above(n)' = Above(n)
  BY DEF Fetch, Matching, Added, Above, Newer, Offset, Undisturbed
<1>4. /\ items' \in Seq(Ids) /\ ToSet(items') \subseteq Ids
      /\ Len(items') = IF N >= Offset + PageSize THEN PageSize
                       ELSE IF N >= Offset THEN N - Offset ELSE 0
      /\ \A k \in 1 .. N : k > Offset /\ k <= Offset + PageSize => s[k] \in ToSet(items')
  BY <1>0, <1>1, PageOfListing
<1>5. InboxTypes'
  BY <1>0, <1>3, <1>4 DEF InboxTypes, Fetch
<1>6. ASSUME Undisturbed' PROVE StillBelow' /\ PageFull' /\ (Finished' => expected' \subseteq listed')
  <2>0. StillBelow /\ PageFull
    BY <1>1, <1>3, <1>6 DEF InboxInv
  <2>1. Passed = Offset /\ Passed' <= Offset + PageSize
    BY <1>1, <1>2, <1>3 DEF Passed
  <2>2. ASSUME NEW n \in expected' \ listed'
        PROVE  Cardinality(Above(n)) >= Offset + PageSize /\ N > Offset + PageSize
    <3>1. n \in Matching /\ n \in expected \ listed /\ n \notin ToSet(items')
      BY <1>3, <2>0 DEF StillBelow
    <3>2. PICK k \in 1 .. N : s[k] = n
      BY <1>0, <3>1, ListingIsOnto
    <3>3. Cardinality(Above(n)) = k - 1
      BY <1>0, <3>2, ListingIsOnto, PlaceInListing
    <3>4. k - 1 >= Offset
      BY <2>0, <2>1, <3>1, <3>3 DEF StillBelow
    <3>5. ~(k > Offset /\ k <= Offset + PageSize)
      BY <1>4, <3>1, <3>2
    <3> QED
      BY <1>2, <3>2, <3>3, <3>4, <3>5
  <2>3. StillBelow'
    <3>1. Passed' \in Int
      BY <1>2, <1>3 DEF Passed
    <3>2. ASSUME NEW n \in expected' \ listed' PROVE Cardinality(Above(n)') >= Passed'
      <4>1. Cardinality(Above(n)) >= Offset + PageSize /\ Cardinality(Above(n)) \in Nat
        BY <1>0, <2>2, MatchingFinite
      <4>2. Cardinality(Above(n)') = Cardinality(Above(n))
        BY <1>3
      <4> HIDE DEF Above
      <4> QED
        BY <1>2, <2>1, <3>1, <4>1, <4>2
    <3>3. expected' \subseteq Matching'
      BY <1>3, <2>0 DEF StillBelow
    <3> QED
      BY <3>2, <3>3 DEF StillBelow
  <2>4. PageFull'
    <3>1. total <= N
      BY <1>1, <2>0 DEF PageFull
    <3>2. Min({PageSize, total - Offset}) = IF PageSize <= total - Offset THEN PageSize ELSE total - Offset
      BY <1>1, <1>2, MinOfTwo
    <3>3. Len(items') >= Min({PageSize, total - Offset})
      BY <1>1, <1>2, <1>4, <3>1, <3>2
    <3> QED
      BY <1>3, <3>1, <3>3 DEF PageFull
  <2>5. Finished' => expected' \subseteq listed'
    <3>1. Finished' => N < Offset + PageSize
      BY <1>2, <1>4 DEF Finished
    <3> QED
      BY <1>2, <2>2, <3>1
  <2> QED
    BY <2>3, <2>4, <2>5
<1> QED
  BY <1>1, <1>3, <1>5, <1>6 DEF InboxInv

\* After a full page he asks for the next one, which begins where it ended.
LEMMA NextPageInbox == ASSUME InboxAssumption, InboxInv, NextPage PROVE InboxInv'
<1>0. InboxTypes
  BY DEF InboxInv
<1>1. page > 0 /\ page \in Nat /\ items # None
  BY <1>0 DEF NextPage, InboxInv, InboxTypes
<1>2. /\ page' = page + 1 /\ total' = None /\ items' = None
      /\ expected' = expected /\ listed' = listed /\ Undisturbed' = Undisturbed
      /\ Matching' = Matching /\ \A n : Above(n)' = Above(n)
  BY DEF NextPage, Matching, Added, Above, Newer, Undisturbed
<1>3. InboxTypes'
  BY <1>0, <1>1, <1>2 DEF InboxTypes, NextPage
<1>4. Passed' = Passed
  <2>1. ASSUME NEW p \in Nat, NEW q \in Nat, q = p + 1, NEW k \in Nat
        PROVE  (q - 1) * k = (p - 1) * k + k
    <3>1. q - 1 = p /\ (p - 1) * k = p * k - k
      BY <2>1
    <3> QED
      BY <3>1, <2>1
  <2>2. PageSize \in Nat /\ page' \in Nat /\ page' = page + 1
    BY <1>1, <1>2 DEF InboxAssumption
  <2>3. (page' - 1) * PageSize = (page - 1) * PageSize + PageSize
    BY <1>1, <2>1, <2>2, Zenon
  <2>4. Offset' = Offset + PageSize
    BY <2>3, Zenon DEF Offset
  <2>5. Passed = Offset + PageSize
    BY <1>1 DEF Passed
  <2>6. Passed' = Offset'
    BY <1>2 DEF Passed
  <2> QED
    BY <2>4, <2>5, <2>6
<1>5. ASSUME Undisturbed' PROVE StillBelow' /\ PageFull' /\ ~Finished'
  <2>1. StillBelow
    BY <1>1, <1>2, <1>5 DEF InboxInv
  <2>2. StillBelow'
    BY <1>2, <1>4, <2>1 DEF StillBelow
  <2>3. PageFull' /\ ~Finished'
    BY <1>2 DEF PageFull, Finished
  <2> QED
    BY <2>2, <2>3
<1> QED
  BY <1>2, <1>3, <1>5 DEF InboxInv

----------------------------------------------------------------------------
\* Every step keeps the invariant.
LEMMA NextInbox == ASSUME InboxAssumption, InboxInv, [InboxNext]_inboxVars PROVE InboxInv'
<1>1. CASE UNCHANGED inboxVars
  BY <1>1 DEF inboxVars, reader, InboxInv, InboxTypes, StillBelow, PageFull, Finished, Undisturbed,
       Passed, Offset, Above, Matching, Added, Newer
<1>2. CASE InboxNext
  BY <1>2, OthersInbox, BeginInbox, CountInbox, FetchInbox, NextPageInbox DEF InboxNext
<1> QED
  BY <1>1, <1>2

\* The invariant holds of every reachable state.
LEMMA InboxInvariant == ASSUME InboxAssumption PROVE InboxSpec => []InboxInv
<1>1. InboxInit => InboxInv
  BY InitInbox
<1>2. InboxInv /\ [InboxNext]_inboxVars => InboxInv'
  BY NextInbox
<1> QED
  BY <1>1, <1>2, PTL DEF InboxSpec

\* Whoever pages to the end of the list (list_notifications) sees everything that was
\* on it when he began, and no page is shorter than its total promises, for any number
\* of notifications and any page size, whatever is added to the list meanwhile.
THEOREM PagingIsComplete == ASSUME InboxAssumption PROVE InboxSpec => []PagingSkipsNothing
<1>1. InboxInv => PagingSkipsNothing
  <2> SUFFICES ASSUME InboxInv, Undisturbed, items # None
               PROVE  /\ Finished => expected \subseteq listed
                      /\ Len(items) >= Min({PageSize, total - Offset})
    BY DEF PagingSkipsNothing, Undisturbed, Finished
  <2>1. page > 0
    BY DEF InboxInv, InboxTypes
  <2> QED
    BY <2>1 DEF InboxInv, PageFull
<1> QED
  BY <1>1, InboxInvariant, PTL

(***************************************************************************)
(* Reviews                                                                 *)
(***************************************************************************)

----------------------------------------------------------------------------
(* The invariant *)

\* A moderation is of a review that exists.
JobsOfReviews == \A a \in Moderators : moderation[a] # None => reviews[moderation[a].review] # None

\* What a page should be about: the shop, or the plant that bears its slug.
Subject(path) == IF path = Shop THEN {None} ELSE Live(path)

\* No notice of it is to come, and none has been missed.
Trusted(path) == ~Due(path) /\ path \notin missed

PagesCurrent ==
    \A path \in Pages : cache[path] # None /\ Trusted(path) =>
        \A p \in Subject(path) : cache[path] = [items |-> Approved(p), counted |-> Approved(p)]

\* A fill of such a page is about the plant that bears the slug, which another may have
\* borne when the fill began, and has read what is approved or nothing yet.
FillsCurrent ==
    \A f \in Fillers : fill[f] # None /\ Trusted(fill[f].page) =>
        \A p \in Subject(fill[f].page) : fill[f].about = p /\ fill[f].items \in {None, Approved(p)}

ReviewsShape == ReviewsTypeOK /\ Distinct(slug) /\ JobsOfReviews
ReviewsInv  == ReviewsShape /\ PagesCurrent /\ FillsCurrent

----------------------------------------------------------------------------
(* Lemmas *)

\* A moderation is about a plant, or about the shop.
LEMMA AJob ==
    ASSUME ReviewsAssumption, ReviewsShape, NEW a \in Moderators, moderation[a] # None
    PROVE  /\ moderation[a] \in Moderation /\ moderation[a].review \in Reviewers /\ moderation[a].to \in ReviewStatuses
           /\ reviews[moderation[a].review] \in ReviewRow
           /\ reviews[moderation[a].review].plant \in Reviewed \cup {None}
BY DEF ReviewsShape, ReviewsTypeOK, JobsOfReviews, Moderation, ReviewRow

\* The parts of a rename.
LEMMA ARenaming ==
    ASSUME ReviewsAssumption, ReviewsShape, NEW e \in Renamers, renaming[e] # None
    PROVE  /\ renaming[e] \in Renaming /\ renaming[e].plant \in Reviewed
           /\ renaming[e].from \in Slugs /\ renaming[e].to \in Slugs
BY DEF ReviewsShape, ReviewsTypeOK, Renaming

\* The parts of a page being filled.
LEMMA AFill ==
    ASSUME ReviewsAssumption, ReviewsShape, NEW f \in Fillers, fill[f] # None
    PROVE  /\ fill[f] \in Fill /\ fill[f].page \in Pages
           /\ fill[f].about \in Reviewed \cup {None}
           /\ fill[f].items \in SUBSET Reviewers \/ fill[f].items = None
BY DEF ReviewsShape, ReviewsTypeOK, Fill

\* The storefront keeps the page, or is about to.
Held(path) == cache[path] # None \/ \E f \in Fillers : fill[f] # None /\ fill[f].page = path

\* A step that adds no page and no fill keeps what is said of them, if what it leaves
\* to be trusted was trusted before, is about the same, and shows the same.
LEMMA CurrentKept ==
    ASSUME ReviewsAssumption, ReviewsInv,
           \A path \in Pages : cache'[path] # None => cache'[path] = cache[path],
           \A f \in Fillers : fill'[f] # None => fill'[f] = fill[f],
           \A path \in Pages : Held(path)' /\ Trusted(path)' =>
               /\ Trusted(path) /\ Subject(path)' \subseteq Subject(path)
               /\ \A p \in Subject(path)' : Approved(p)' = Approved(p)
    PROVE  PagesCurrent' /\ FillsCurrent'
<1>1. PagesCurrent'
  <2> SUFFICES ASSUME NEW path \in Pages, cache'[path] # None, Trusted(path)', NEW p \in Subject(path)'
               PROVE  cache'[path] = [items |-> Approved(p)', counted |-> Approved(p)']
    BY DEF PagesCurrent
  <2>1. Held(path)'
    BY DEF Held
  <2>2. Trusted(path) /\ p \in Subject(path) /\ Approved(p)' = Approved(p) /\ cache'[path] = cache[path]
    BY <2>1
  <2> QED BY <2>2 DEF ReviewsInv, PagesCurrent
<1>2. FillsCurrent'
  <2> SUFFICES ASSUME NEW f \in Fillers, fill'[f] # None, Trusted(fill[f].page)', fill'[f] = fill[f],
                      NEW p \in Subject(fill[f].page)'
               PROVE  fill[f].about = p /\ fill[f].items \in {None, Approved(p)'}
    BY DEF FillsCurrent, Trusted, Due, Subject, Live
  <2>1. fill[f].page \in Pages /\ Held(fill[f].page)'
    BY AFill DEF Held, ReviewsInv
  <2>2. Trusted(fill[f].page) /\ p \in Subject(fill[f].page) /\ Approved(p)' = Approved(p)
    BY <2>1
  <2> QED BY <2>2 DEF ReviewsInv, FillsCurrent
<1> QED BY <1>1, <1>2

\* A notice, whether it arrives or is lost, is the last word on the pages it names.
LEMMA ToldKeeps ==
    ASSUME ReviewsAssumption, ReviewsInv, NEW pages, pages \subseteq Pages, Deliver(pages) \/ Lose(pages),
           UNCHANGED <<reviews, slug>>, \A path \in Pages \ pages : Due(path) => Due(path)'
    PROVE  /\ PagesCurrent' /\ FillsCurrent'
           /\ fill' \in [Fillers -> Fill \cup {None}] /\ cache' \in [Pages -> Page \cup {None}]
           /\ bounds' \in [renames: 0 .. MaxRenames, moderations: 0 .. MaxModerations, failures: 0 .. MaxFailures]
           /\ missed' \subseteq Pages
<1> USE DEF ReviewsInv, ReviewsShape
<1>1. /\ fill' \in [Fillers -> Fill \cup {None}] /\ cache' \in [Pages -> Page \cup {None}]
      /\ missed' \subseteq Pages
  BY DEF Deliver, Lose, ReviewsTypeOK
<1>2. bounds' \in [renames: 0 .. MaxRenames, moderations: 0 .. MaxModerations, failures: 0 .. MaxFailures]
  BY DEF Deliver, Lose, ReviewsTypeOK, ReviewsAssumption
<1>3. /\ \A path \in Pages : cache'[path] # None => cache'[path] = cache[path]
      /\ \A f \in Fillers : fill'[f] # None => fill'[f] = fill[f]
  BY DEF Deliver, Lose
<1>4. ASSUME NEW path \in Pages, Held(path)', Trusted(path)'
      PROVE  /\ Trusted(path) /\ Subject(path)' \subseteq Subject(path)
             /\ \A p \in Subject(path)' : Approved(p)' = Approved(p)
  <2>1. path \notin pages
    <3>1. CASE Deliver(pages)
      <4>1. path \in pages => cache'[path] = None /\ \A f \in Fillers : fill'[f] # None => fill'[f].page # path
        BY <3>1 DEF Deliver
      <4> QED BY <1>4, <4>1 DEF Held
    <3>2. CASE Lose(pages)
      BY <1>4, <3>2 DEF Lose, Trusted
    <3> QED BY <3>1, <3>2
  <2>2. path \in missed => path \in missed'
    BY <2>1 DEF Deliver, Lose
  <2>3. Trusted(path)
    BY <1>4, <2>1, <2>2 DEF Trusted
  <2> QED BY <2>3 DEF Subject, Live, Approved
<1>5. PagesCurrent' /\ FillsCurrent'
  BY <1>3, <1>4, CurrentKept
<1> QED BY <1>1, <1>2, <1>5

\* Nothing is cached at first.
LEMMA InitReviewsInv == ASSUME ReviewsAssumption, ReviewsInit PROVE ReviewsInv
<1>1. ReviewsTypeOK
  BY DEF ReviewsInit, ReviewsTypeOK, ReviewsAssumption
<1>2. Distinct(slug) /\ JobsOfReviews
  BY DEF ReviewsInit, JobsOfReviews
<1>3. PagesCurrent /\ FillsCurrent
  BY DEF ReviewsInit, PagesCurrent, FillsCurrent
<1> QED BY <1>1, <1>2, <1>3 DEF ReviewsInv, ReviewsShape

\* A slug resolved for a review keeps the invariant.
LEMMA ResolveKeeps ==
    ASSUME ReviewsAssumption, ReviewsInv, NEW r \in Reviewers, NEW p \in Reviewed, Resolve(r, p)
    PROVE  ReviewsInv'
<1>1. ReviewsShape'
  BY DEF ReviewsInv, ReviewsShape, ReviewsTypeOK, Distinct, JobsOfReviews, Resolve
<1>2. PagesCurrent' /\ FillsCurrent'
  BY CurrentKept DEF Resolve, Approved, Trusted, Due, Reached, Subject, Live
<1> QED BY <1>1, <1>2 DEF ReviewsInv

\* A review that is submitted is shown nowhere yet.
LEMMA CreateReviewKeeps ==
    ASSUME ReviewsAssumption, ReviewsInv, NEW r \in Reviewers, CreateReview(r)
    PROVE  ReviewsInv'
<1> USE DEF ReviewsInv, ReviewsShape
<1> DEFINE row == [plant |-> writing[r], status |-> "pending"]
<1>1. row \in ReviewRow /\ row # None /\ row.status # "approved"
  BY DEF ReviewRow, ReviewStatuses, ReviewsTypeOK, ReviewsAssumption
<1> HIDE DEF row
<1>2. /\ reviews[r] = None /\ reviews' = [reviews EXCEPT ![r] = row]
      /\ UNCHANGED <<writing, slug, history, moderation, renaming, fill, cache, bounds, missed>>
  BY DEF CreateReview, FirstStatus, row
<1>3. \A v \in Reviewers : reviews[v] # None => reviews'[v] = reviews[v]
  BY <1>2 DEF ReviewsTypeOK
<1>4. \A p \in Reviewed \cup {None} : Approved(p)' = Approved(p)
  BY <1>1, <1>2 DEF ReviewsTypeOK, Approved
<1>5. ReviewsTypeOK'
  BY <1>1, <1>2 DEF ReviewsTypeOK
<1>6. Distinct(slug)' /\ JobsOfReviews'
  BY <1>2, <1>3, AJob DEF Distinct, JobsOfReviews
<1>7. PagesCurrent' /\ FillsCurrent'
  <2>1. \A path \in Pages : Trusted(path)' => Trusted(path)
    BY <1>2 DEF Trusted, Due, Reached
  <2>2. \A path \in Pages : Subject(path)' = Subject(path) /\ Subject(path) \subseteq Reviewed \cup {None}
    BY <1>2 DEF Subject, Live
  <2> QED BY <1>2, <1>4, <2>1, <2>2, CurrentKept
<1> QED BY <1>5, <1>6, <1>7

----------------------------------------------------------------------------
(* Moderations *)

\* A moderation loads what is committed.
LEMMA LoadKeeps ==
    ASSUME ReviewsAssumption, ReviewsInv, NEW a \in Moderators, NEW r \in Reviewers, NEW status \in ReviewStatuses,
           LoadReview(a, r, status)
    PROVE  ReviewsInv'
<1> USE DEF ReviewsInv, ReviewsShape
<1> DEFINE path == IF reviews[r].plant = None THEN Shop ELSE slug[reviews[r].plant]
           j == [review |-> r, from |-> reviews[r].status, to |-> status, committed |-> FALSE, page |-> path]
<1>1. /\ moderation[a] = None /\ reviews[r] # None /\ moderation' = [moderation EXCEPT ![a] = j]
      /\ UNCHANGED <<reviews, writing, slug, history, renaming, fill, cache, missed>>
  BY DEF LoadReview
<1>2. reviews[r] \in ReviewRow /\ reviews[r].plant \in Reviewed \cup {None} /\ reviews[r].status \in ReviewStatuses
  BY <1>1 DEF ReviewsTypeOK, ReviewRow
<1>3. path \in Pages
  BY <1>2 DEF Pages, ReviewsTypeOK
<1>4. j \in Moderation /\ j # None
  <2> HIDE DEF path
  <2>1. j \in Moderation
    BY <1>2, <1>3 DEF Moderation
  <2> QED BY <2>1 DEF ReviewsAssumption
<1>5. j.review = r /\ ~j.committed
  OBVIOUS
<1> HIDE DEF j
<1>6. \A b \in Moderators : moderation'[b] = IF b = a THEN j ELSE moderation[b]
  BY <1>1 DEF ReviewsTypeOK
<1>7. ReviewsTypeOK'
  <2>1. bounds' \in [renames: 0 .. MaxRenames, moderations: 0 .. MaxModerations, failures: 0 .. MaxFailures]
    BY DEF LoadReview, ReviewsTypeOK, ReviewsAssumption
  <2> QED BY <1>1, <1>4, <2>1 DEF ReviewsTypeOK
<1>8. Distinct(slug)' /\ JobsOfReviews'
  BY <1>1, <1>5, <1>6 DEF Distinct, JobsOfReviews
<1>9. PagesCurrent' /\ FillsCurrent'
  <2>1. \A x \in Pages : Trusted(x)' => Trusted(x)
    BY <1>1, <1>6 DEF Trusted, Due, Reached
  <2>2. \A x : Subject(x)' = Subject(x) /\ Approved(x)' = Approved(x)
    BY <1>1 DEF Subject, Live, Approved
  <2> QED BY <1>1, <2>1, <2>2, CurrentKept
<1> QED BY <1>7, <1>8, <1>9

\* A decision that is committed has a notice to come for the page it changes, or that
\* page is one that misses it.
LEMMA CommitKeeps ==
    ASSUME ReviewsAssumption, ReviewsInv, NEW a \in Moderators, CommitReview(a)
    PROVE  ReviewsInv'
<1> USE DEF ReviewsInv, ReviewsShape
<1> DEFINE r == moderation[a].review
           plant == reviews[r].plant
           j == [moderation[a] EXCEPT !.committed = TRUE]
           row == [reviews[r] EXCEPT !.status = moderation[a].to]
<1>1. /\ moderation[a] # None /\ ~moderation[a].committed
      /\ moderation[a] \in Moderation /\ r \in Reviewers /\ moderation[a].to \in ReviewStatuses
      /\ reviews[r] \in ReviewRow /\ plant \in Reviewed \cup {None}
  BY AJob DEF CommitReview
<1>2. /\ moderation' = [moderation EXCEPT ![a] = j]
      /\ UNCHANGED <<writing, slug, history, renaming, fill, cache, bounds>>
  BY DEF CommitReview, ReviewsTypeOK
<1>3. j \in Moderation /\ j.review = r /\ j.page = moderation[a].page /\ j.committed
  BY <1>1 DEF Moderation
<1>4. j # None
  BY <1>3 DEF ReviewsAssumption
<1>5. row \in ReviewRow /\ row.plant = plant /\ row # None
  BY <1>1 DEF ReviewRow, ReviewsAssumption
<1>6. \/ reviews' = reviews /\ missed' = missed
      \/ /\ reviews' = [reviews EXCEPT ![r] = row]
         /\ missed' = IF plant = None \/ slug[plant] = moderation[a].page THEN missed ELSE missed \cup {slug[plant]}
  BY DEF CommitReview, ReviewsTypeOK
<1> HIDE DEF j, row
<1>7. \A v \in Reviewers : /\ reviews[v] # None <=> reviews'[v] # None
                           /\ reviews'[v].plant = reviews[v].plant
                           /\ v # r => reviews'[v] = reviews[v]
  BY <1>1, <1>5, <1>6 DEF ReviewsTypeOK, ReviewsAssumption
<1>8. \A b \in Moderators : moderation'[b] = IF b = a THEN j ELSE moderation[b]
  BY <1>2 DEF ReviewsTypeOK
<1>9. ReviewsTypeOK'
  <2>1. moderation' \in [Moderators -> Moderation \cup {None}] /\ reviews' \in [Reviewers -> ReviewRow \cup {None}]
    BY <1>2, <1>3, <1>5, <1>6 DEF ReviewsTypeOK
  <2>2. missed' \subseteq Pages
    BY <1>1, <1>6 DEF ReviewsTypeOK, Pages
  <2> QED BY <1>2, <2>1, <2>2 DEF ReviewsTypeOK
<1>10. Distinct(slug)'
  BY <1>2 DEF Distinct
<1>11. JobsOfReviews'
  <2> SUFFICES ASSUME NEW b \in Moderators, moderation'[b] # None PROVE reviews'[moderation'[b].review] # None
    BY DEF JobsOfReviews
  <2>1. moderation[b] # None /\ moderation'[b].review = moderation[b].review /\ moderation[b].review \in Reviewers
    BY <1>1, <1>3, <1>8, AJob
  <2> QED BY <1>7, <2>1 DEF JobsOfReviews
<1>12. \A path : Trusted(path)' => Trusted(path)
  BY <1>1, <1>2, <1>6, <1>8 DEF Trusted, Due, Reached
<1>13. ASSUME NEW path \in Pages, Trusted(path)', NEW p \in Subject(path)
       PROVE  Approved(p)' = Approved(p)
  <2>1. CASE reviews' = reviews
    BY <2>1 DEF Approved
  <2>2. CASE p # plant
    BY <1>1, <1>7, <2>2 DEF Approved
  <2>3. CASE p = plant /\ reviews' # reviews
    <3>1. path \notin Noticed(moderation[a])
      <4>1. path \notin Noticed(moderation'[a])
        BY <1>3, <1>4, <1>8, <1>13 DEF Trusted, Due
      <4> QED BY <1>3, <1>8, <4>1 DEF Noticed
    <3>2. path # Shop /\ path # moderation[a].page /\ path \notin missed'
      BY <1>13, <3>1 DEF Noticed, Trusted
    <3>3. p \in Reviewed /\ slug[p] = path
      BY <3>2 DEF Subject, Live
    <3>4. plant # None /\ slug[plant] # moderation[a].page
      BY <2>3, <3>2, <3>3 DEF ReviewsAssumption
    <3> QED BY <1>6, <2>3, <3>2, <3>3, <3>4
  <2> QED BY <2>1, <2>2, <2>3
<1>14. PagesCurrent' /\ FillsCurrent'
  <2>1. \A path : Subject(path)' = Subject(path)
    BY <1>2 DEF Subject, Live
  <2> QED BY <1>2, <1>12, <1>13, <2>1, CurrentKept
<1> QED BY <1>9, <1>10, <1>11, <1>14

\* A moderation that fails has changed nothing.
LEMMA FailReviewKeeps ==
    ASSUME ReviewsAssumption, ReviewsInv, NEW a \in Moderators, FailReview(a)
    PROVE  ReviewsInv'
<1> USE DEF ReviewsInv, ReviewsShape
<1>1. /\ moderation[a] # None /\ ~moderation[a].committed /\ moderation' = [moderation EXCEPT ![a] = None]
      /\ UNCHANGED <<reviews, writing, slug, history, renaming, fill, cache, bounds, missed>>
  BY DEF FailReview
<1>2. \A b \in Moderators : moderation'[b] = IF b = a THEN None ELSE moderation[b]
  BY <1>1 DEF ReviewsTypeOK
<1>3. ReviewsTypeOK' /\ Distinct(slug)' /\ JobsOfReviews'
  BY <1>1, <1>2 DEF ReviewsTypeOK, Distinct, JobsOfReviews
<1>4. \A path : Trusted(path)' => Trusted(path)
  BY <1>1, <1>2 DEF Trusted, Due, Reached
<1>5. \A x : Subject(x)' = Subject(x) /\ Approved(x)' = Approved(x)
  BY <1>1 DEF Subject, Live, Approved
<1> QED BY <1>1, <1>3, <1>4, <1>5, CurrentKept

\* The notice of a decision arrives, or is lost.
LEMMA NotifyKeeps ==
    ASSUME ReviewsAssumption, ReviewsInv, NEW a \in Moderators, NotifyStorefront(a)
    PROVE  ReviewsInv'
<1> USE DEF ReviewsInv, ReviewsShape
<1> DEFINE pages == Noticed(moderation[a])
<1>1. /\ moderation[a] # None /\ moderation[a] \in Moderation /\ moderation' = [moderation EXCEPT ![a] = None]
      /\ (Deliver(pages) \/ Lose(pages))
  BY AJob DEF NotifyStorefront
<1>2. UNCHANGED <<reviews, writing, slug, history, renaming>>
  BY DEF NotifyStorefront
<1>3. \A b \in Moderators : moderation'[b] = IF b = a THEN None ELSE moderation[b]
  BY <1>1 DEF ReviewsTypeOK
<1>4. pages \subseteq Pages
  BY <1>1 DEF Noticed, Moderation, Pages
<1>5. \A path \in Pages \ pages : Due(path) => Due(path)'
  BY <1>2, <1>3 DEF Due, Reached
<1> HIDE DEF pages
<1>6. /\ PagesCurrent' /\ FillsCurrent'
      /\ fill' \in [Fillers -> Fill \cup {None}] /\ cache' \in [Pages -> Page \cup {None}]
      /\ bounds' \in [renames: 0 .. MaxRenames, moderations: 0 .. MaxModerations, failures: 0 .. MaxFailures]
      /\ missed' \subseteq Pages
  BY <1>1, <1>2, <1>4, <1>5, ToldKeeps
<1>7. ReviewsTypeOK' /\ Distinct(slug)' /\ JobsOfReviews'
  BY <1>1, <1>2, <1>3, <1>6 DEF ReviewsTypeOK, Distinct, JobsOfReviews
<1> QED BY <1>6, <1>7

----------------------------------------------------------------------------
(* Renames *)

\* A rename that has not committed, before and after a step of it, is told to no page.
LEMMA UntoldKeeps ==
    ASSUME ReviewsAssumption, ReviewsInv, NEW e \in Renamers,
           ~Reached(e, "announce"), \A d \in Renamers \ {e} : renaming'[d] = renaming[d],
           UNCHANGED <<reviews, slug, moderation, fill, cache, missed>>
    PROVE  PagesCurrent' /\ FillsCurrent'
<1>1. \A path : Trusted(path)' => Trusted(path)
  <2> SUFFICES ASSUME NEW path, Due(path) PROVE Due(path)'
    BY DEF Trusted
  <2>1. CASE \E a \in Moderators : moderation[a] # None /\ moderation[a].committed /\ path \in Noticed(moderation[a])
    BY <2>1 DEF Due
  <2>2. ASSUME NEW d \in Renamers, Reached(d, "announce"), path \in Renamed(renaming[d]) PROVE Due(path)'
    <3>1. d # e /\ renaming'[d] = renaming[d]
      BY <2>2
    <3>2. Reached(d, "announce")' /\ path \in Renamed(renaming[d])'
      BY <2>2, <3>1 DEF Reached, Renamed
    <3> QED BY <3>2 DEF Due
  <2> QED BY <2>1, <2>2 DEF Due
<1>2. \A x : Subject(x)' = Subject(x) /\ Approved(x)' = Approved(x)
  BY DEF Subject, Live, Approved
<1> QED BY <1>1, <1>2, CurrentKept

\* What is loaded of the plant.
LEMMA LoadPlantKeeps ==
    ASSUME ReviewsAssumption, ReviewsInv, NEW e \in Renamers, NEW p \in Reviewed, NEW to \in Slugs, LoadPlant(e, p, to)
    PROVE  ReviewsInv'
<1> USE DEF ReviewsInv, ReviewsShape
<1> DEFINE j == [plant |-> p, from |-> slug[p], to |-> to, released |-> FALSE, stage |-> "check"]
<1>1. /\ renaming[e] = None /\ renaming' = [renaming EXCEPT ![e] = j]
      /\ UNCHANGED <<reviews, writing, slug, history, moderation, fill, cache, missed>>
  BY DEF LoadPlant
<1>2. j \in Renaming
  BY DEF Renaming, ReviewsTypeOK
<1> HIDE DEF j
<1>3. bounds' \in [renames: 0 .. MaxRenames, moderations: 0 .. MaxModerations, failures: 0 .. MaxFailures]
  BY DEF LoadPlant, ReviewsTypeOK, ReviewsAssumption
<1>4. ReviewsTypeOK' /\ Distinct(slug)' /\ JobsOfReviews'
  BY <1>1, <1>2, <1>3 DEF ReviewsTypeOK, Distinct, JobsOfReviews
<1>5. ~Reached(e, "announce") /\ \A d \in Renamers \ {e} : renaming'[d] = renaming[d]
  BY <1>1 DEF Reached, ReviewsTypeOK
<1> QED BY <1>1, <1>4, <1>5, UntoldKeeps

\* What it releases of the history.
LEMMA TakeSlugKeeps ==
    ASSUME ReviewsAssumption, ReviewsInv, NEW e \in Renamers, TakeSlug(e)
    PROVE  ReviewsInv'
<1> USE DEF ReviewsInv, ReviewsShape
<1> DEFINE was == history[renaming[e].to] # None
           j == [renaming[e] EXCEPT !.released = was, !.stage = "commit"]
<1>1. /\ Reached(e, "check") /\ renaming[e] \in Renaming /\ renaming' = [renaming EXCEPT ![e] = j]
      /\ UNCHANGED <<reviews, writing, slug, history, moderation, fill, cache, bounds, missed>>
  BY ARenaming DEF TakeSlug, Reached, ReviewsTypeOK
<1>2. j \in Renaming
  <2>1. was \in BOOLEAN
    OBVIOUS
  <2> HIDE DEF was
  <2> QED BY <1>1, <2>1 DEF Renaming
<1> HIDE DEF j
<1>3. ReviewsTypeOK' /\ Distinct(slug)' /\ JobsOfReviews'
  BY <1>1, <1>2 DEF ReviewsTypeOK, Distinct, JobsOfReviews
<1>4. ~Reached(e, "announce") /\ \A d \in Renamers \ {e} : renaming'[d] = renaming[d]
  BY <1>1 DEF Reached, ReviewsTypeOK
<1> QED BY <1>1, <1>3, <1>4, UntoldKeeps

\* A rename that fails has changed nothing.
LEMMA FailRenameKeeps ==
    ASSUME ReviewsAssumption, ReviewsInv, NEW e \in Renamers, FailRename(e)
    PROVE  ReviewsInv'
<1> USE DEF ReviewsInv, ReviewsShape
<1>1. /\ ~Reached(e, "announce") /\ renaming' = [renaming EXCEPT ![e] = None]
      /\ UNCHANGED <<reviews, writing, slug, history, moderation, fill, cache, bounds, missed>>
  BY DEF FailRename
<1>2. ReviewsTypeOK' /\ Distinct(slug)' /\ JobsOfReviews'
  BY <1>1 DEF ReviewsTypeOK, Distinct, JobsOfReviews
<1>3. \A d \in Renamers \ {e} : renaming'[d] = renaming[d]
  BY <1>1 DEF ReviewsTypeOK
<1> QED BY <1>1, <1>2, <1>3, UntoldKeeps

\* A rename that is committed has a notice to come for the two pages whose plant changes.
LEMMA CommitRenameKeeps ==
    ASSUME ReviewsAssumption, ReviewsInv, NEW e \in Renamers, CommitRename(e)
    PROVE  ReviewsInv'
<1> USE DEF ReviewsInv, ReviewsShape
<1> DEFINE j == [renaming[e] EXCEPT !.stage = "announce"]
<1>0. PICK p, to : p = renaming[e].plant /\ to = renaming[e].to
  OBVIOUS
<1>1. /\ Reached(e, "commit") /\ renaming[e] # None /\ renaming[e] \in Renaming /\ p \in Reviewed /\ to \in Slugs
      /\ renaming[e].from \in Slugs /\ Live(to) \subseteq {p}
      /\ slug' = [slug EXCEPT ![p] = to] /\ renaming' = [renaming EXCEPT ![e] = j]
      /\ UNCHANGED <<reviews, writing, moderation, fill, cache, bounds, missed>>
  BY <1>0, ARenaming DEF CommitRename, Reached, ReviewsTypeOK
<1>2. j \in Renaming /\ j.stage = "announce" /\ j.from = renaming[e].from /\ j.to = to
  BY <1>0, <1>1 DEF Renaming
<1>3. j # None
  BY <1>2 DEF ReviewsAssumption
<1> HIDE DEF j
<1>4. \A d \in Renamers : renaming'[d] = IF d = e THEN j ELSE renaming[d]
  BY <1>1 DEF ReviewsTypeOK
<1>5. \A q \in Reviewed : slug'[q] = IF q = p THEN to ELSE slug[q]
  BY <1>1 DEF ReviewsTypeOK
<1>6. history' \in [Slugs -> Reviewed \cup {None}]
  BY <1>0, <1>1 DEF CommitRename, ReviewsTypeOK
<1>7. ReviewsTypeOK'
  BY <1>1, <1>2, <1>6 DEF ReviewsTypeOK
<1>8. Distinct(slug)'
  BY <1>1, <1>5 DEF Distinct, Live
<1>9. JobsOfReviews'
  BY <1>1 DEF JobsOfReviews
<1>10. \A path : Due(path) => Due(path)'
  <2> SUFFICES ASSUME NEW path, NEW d \in Renamers, Reached(d, "announce"), path \in Renamed(renaming[d])
               PROVE  Due(path)'
    BY <1>1 DEF Due
  <2>1. d # e /\ renaming'[d] = renaming[d]
    BY <1>1, <1>4 DEF Reached
  <2>2. Reached(d, "announce")' /\ path \in Renamed(renaming[d])'
    BY <2>1 DEF Reached, Renamed
  <2> QED BY <2>2 DEF Due
<1>11. Due(to)'
  <2>1. Reached(e, "announce")' /\ to \in Renamed(renaming[e])'
    BY <1>2, <1>3, <1>4 DEF Reached, Renamed
  <2> QED BY <2>1 DEF Due
<1>12. \A path \in Pages : Trusted(path)' => Trusted(path) /\ Subject(path)' \subseteq Subject(path)
  <2> SUFFICES ASSUME NEW path \in Pages, Trusted(path)'
               PROVE  Trusted(path) /\ Subject(path)' \subseteq Subject(path)
    OBVIOUS
  <2>1. path # to
    BY <1>11 DEF Trusted
  <2>2. Trusted(path)
    BY <1>1, <1>10 DEF Trusted
  <2> QED BY <1>5, <2>1, <2>2 DEF Subject, Live
<1>13. \A x : Approved(x)' = Approved(x)
  BY <1>1 DEF Approved
<1>14. PagesCurrent' /\ FillsCurrent'
  BY <1>1, <1>12, <1>13, CurrentKept
<1> QED BY <1>7, <1>8, <1>9, <1>14

\* The notice of a rename arrives, or is lost.
LEMMA AnnounceKeeps ==
    ASSUME ReviewsAssumption, ReviewsInv, NEW e \in Renamers, AnnounceRename(e)
    PROVE  ReviewsInv'
<1> USE DEF ReviewsInv, ReviewsShape
<1> DEFINE pages == Renamed(renaming[e])
<1>1. /\ renaming[e] \in Renaming /\ renaming' = [renaming EXCEPT ![e] = None]
      /\ Deliver(pages) \/ Lose(pages)
  BY ARenaming DEF AnnounceRename, Reached
<1>2. UNCHANGED <<reviews, writing, slug, history, moderation>>
  BY DEF AnnounceRename
<1>3. \A d \in Renamers : renaming'[d] = IF d = e THEN None ELSE renaming[d]
  BY <1>1 DEF ReviewsTypeOK
<1>4. pages \subseteq Pages
  BY <1>1 DEF Renamed, Renaming, Pages
<1>5. ASSUME NEW path \in Pages \ pages, Due(path) PROVE Due(path)'
  <2>1. CASE \E a \in Moderators : moderation[a] # None /\ moderation[a].committed /\ path \in Noticed(moderation[a])
    BY <1>2, <2>1 DEF Due
  <2>2. ASSUME NEW d \in Renamers, Reached(d, "announce"), path \in Renamed(renaming[d]) PROVE Due(path)'
    <3>1. d # e /\ renaming'[d] = renaming[d]
      BY <1>3, <2>2
    <3>2. Reached(d, "announce")' /\ path \in Renamed(renaming[d])'
      BY <2>2, <3>1 DEF Reached, Renamed
    <3> QED BY <3>2 DEF Due
  <2> QED BY <1>5, <2>1, <2>2 DEF Due
<1> HIDE DEF pages
<1>6. /\ PagesCurrent' /\ FillsCurrent'
      /\ fill' \in [Fillers -> Fill \cup {None}] /\ cache' \in [Pages -> Page \cup {None}]
      /\ bounds' \in [renames: 0 .. MaxRenames, moderations: 0 .. MaxModerations, failures: 0 .. MaxFailures]
      /\ missed' \subseteq Pages
  BY <1>1, <1>2, <1>4, <1>5, ToldKeeps
<1>7. ReviewsTypeOK' /\ Distinct(slug)' /\ JobsOfReviews'
  BY <1>1, <1>2, <1>6 DEF ReviewsTypeOK, Distinct, JobsOfReviews
<1> QED BY <1>6, <1>7

----------------------------------------------------------------------------
(* The storefront *)

\* A page that starts to be filled shows nothing yet, and a live slug comes first.
LEMMA StartFillKeeps ==
    ASSUME ReviewsAssumption, ReviewsInv, NEW f \in Fillers, NEW path \in Pages, StartFill(f, path)
    PROVE  ReviewsInv'
<1> USE DEF ReviewsInv, ReviewsShape
<1>1. PICK about \in IF path = Shop THEN {None} ELSE GetPlantBySlug(path) :
          fill' = [fill EXCEPT ![f] = [page |-> path, about |-> about, items |-> None]]
  BY DEF StartFill
<1> DEFINE g == [page |-> path, about |-> about, items |-> None]
<1>2. UNCHANGED <<reviews, writing, slug, history, moderation, renaming, cache, bounds, missed>>
  BY DEF StartFill
<1>3. about \in Reviewed \cup {None} /\ \A p \in Subject(path) : about = p
  <2>1. CASE path = Shop
    BY <1>1, <2>1 DEF Subject
  <2>2. CASE path # Shop
    <3>1. path \in Slugs /\ about \in GetPlantBySlug(path) /\ Subject(path) = Live(path)
      BY <1>1, <2>2 DEF Pages, Subject
    <3>2. about \in Reviewed
      BY <3>1 DEF GetPlantBySlug, Live, ReviewsTypeOK
    <3>3. Live(path) # {} => about \in Live(path)
      BY <3>1 DEF GetPlantBySlug
    <3>4. \A p, q \in Live(path) : p = q
      BY DEF Live, Distinct
    <3> QED BY <3>1, <3>2, <3>3, <3>4
  <2> QED BY <2>1, <2>2
<1>4. g \in Fill /\ g.page = path /\ g.about = about /\ g.items = None
  BY <1>3 DEF Fill
<1>5. fill' = [fill EXCEPT ![f] = g]
  BY <1>1
<1> HIDE DEF g
<1>6. \A h \in Fillers : fill'[h] = IF h = f THEN g ELSE fill[h]
  BY <1>5 DEF ReviewsTypeOK
<1>7. ReviewsTypeOK' /\ Distinct(slug)' /\ JobsOfReviews'
  BY <1>2, <1>4, <1>5 DEF ReviewsTypeOK, Distinct, JobsOfReviews
<1>8. \A x : (Trusted(x)' <=> Trusted(x)) /\ Subject(x)' = Subject(x) /\ Approved(x)' = Approved(x)
  BY <1>2 DEF Trusted, Due, Reached, Subject, Live, Approved
<1>9. PagesCurrent'
  BY <1>2, <1>8 DEF PagesCurrent
<1>10. FillsCurrent'
  <2> SUFFICES ASSUME NEW h \in Fillers, fill'[h] # None, Trusted(fill'[h].page),
                      NEW p \in Subject(fill'[h].page)
               PROVE  fill'[h].about = p /\ fill'[h].items \in {None, Approved(p)}
    BY <1>2 DEF FillsCurrent, Trusted, Due, Reached, Subject, Live, Approved
  <2>1. CASE h = f
    BY <1>3, <1>4, <1>6, <2>1
  <2>2. CASE h # f
    BY <1>6, <2>2 DEF FillsCurrent
  <2> QED BY <2>1, <2>2
<1> QED BY <1>7, <1>9, <1>10

\* The list is as it is committed.
LEMMA ListApprovedKeeps ==
    ASSUME ReviewsAssumption, ReviewsInv, NEW f \in Fillers, ListApproved(f)
    PROVE  ReviewsInv'
<1> USE DEF ReviewsInv, ReviewsShape
<1> DEFINE g == [fill[f] EXCEPT !.items = Approved(fill[f].about)]
<1>1. fill[f] # None /\ fill[f] \in Fill /\ fill' = [fill EXCEPT ![f] = g]
      /\ UNCHANGED <<reviews, writing, slug, history, moderation, renaming, cache, bounds, missed>>
  BY AFill DEF ListApproved, ReviewsTypeOK
<1>2. g \in Fill /\ g.page = fill[f].page /\ g.about = fill[f].about /\ g.items = Approved(fill[f].about)
  <2>1. Approved(fill[f].about) \in SUBSET Reviewers
    BY DEF Approved
  <2> QED BY <1>1, <2>1 DEF Fill
<1> HIDE DEF g
<1>3. \A h \in Fillers : fill'[h] = IF h = f THEN g ELSE fill[h]
  BY <1>1 DEF ReviewsTypeOK
<1>4. ReviewsTypeOK' /\ Distinct(slug)' /\ JobsOfReviews'
  BY <1>1, <1>2 DEF ReviewsTypeOK, Distinct, JobsOfReviews
<1>5. \A x : (Trusted(x)' <=> Trusted(x)) /\ Subject(x)' = Subject(x) /\ Approved(x)' = Approved(x)
  BY <1>1 DEF Trusted, Due, Reached, Subject, Live, Approved
<1>6. PagesCurrent'
  BY <1>1, <1>5 DEF PagesCurrent
<1>7. FillsCurrent'
  <2> SUFFICES ASSUME NEW h \in Fillers, fill'[h] # None, Trusted(fill'[h].page),
                      NEW p \in Subject(fill'[h].page)
               PROVE  fill'[h].about = p /\ fill'[h].items \in {None, Approved(p)}
    BY <1>1 DEF FillsCurrent, Trusted, Due, Reached, Subject, Live, Approved
  <2>1. CASE h = f
    <3>1. fill[f].about = p
      BY <1>1, <1>2, <1>3, <2>1 DEF FillsCurrent
    <3> QED BY <1>2, <1>3, <2>1, <3>1
  <2>2. CASE h # f
    BY <1>3, <2>2 DEF FillsCurrent
  <2> QED BY <2>1, <2>2
<1> QED BY <1>4, <1>6, <1>7

\* The summary makes it a page; if a decision fell in between, its notice is still to come.
LEMMA SummariseKeeps ==
    ASSUME ReviewsAssumption, ReviewsInv, NEW f \in Fillers, Summarise(f)
    PROVE  ReviewsInv'
<1> USE DEF ReviewsInv, ReviewsShape
<1> DEFINE new == [items |-> fill[f].items, counted |-> Approved(fill[f].about)]
<1>1. fill[f] # None /\ fill[f].page \in Pages /\ fill[f].items # None /\ fill[f].items \in SUBSET Reviewers
      /\ cache' = [cache EXCEPT ![fill[f].page] = new] /\ fill' = [fill EXCEPT ![f] = None]
      /\ UNCHANGED <<reviews, writing, slug, history, moderation, renaming, bounds, missed>>
  BY AFill DEF Summarise
<1>2. new \in Page
  BY <1>1 DEF Page, Approved
<1>3. \A h \in Fillers : fill'[h] # None => fill'[h] = fill[h]
  BY <1>1 DEF ReviewsTypeOK
<1>4. ReviewsTypeOK' /\ Distinct(slug)' /\ JobsOfReviews'
  <2> HIDE DEF new
  <2> QED BY <1>1, <1>2 DEF ReviewsTypeOK, Distinct, JobsOfReviews
<1>5. \A x : (Trusted(x)' <=> Trusted(x)) /\ Subject(x)' = Subject(x) /\ Approved(x)' = Approved(x)
  BY <1>1 DEF Trusted, Due, Reached, Subject, Live, Approved
<1>6. FillsCurrent'
  <2> SUFFICES ASSUME NEW h \in Fillers, fill'[h] # None, Trusted(fill[h].page), NEW p \in Subject(fill[h].page)
               PROVE  fill[h].about = p /\ fill[h].items \in {None, Approved(p)}
    BY <1>1, <1>3 DEF FillsCurrent, Trusted, Due, Reached, Subject, Live, Approved
  <2> QED BY <1>3 DEF FillsCurrent
<1>7. PagesCurrent'
  <2> SUFFICES ASSUME NEW path \in Pages, cache'[path] # None, Trusted(path), NEW p \in Subject(path)
               PROVE  cache'[path] = [items |-> Approved(p), counted |-> Approved(p)]
    BY <1>5 DEF PagesCurrent
  <2>1. CASE path = fill[f].page
    <3>1. fill[f].about = p /\ fill[f].items = Approved(p)
      BY <1>1, <2>1 DEF FillsCurrent
    <3>2. cache'[path] = new
      BY <1>1, <2>1 DEF ReviewsTypeOK
    <3> QED BY <3>1, <3>2
  <2>2. CASE path # fill[f].page
    <3>1. cache'[path] = cache[path]
      BY <1>1, <2>2 DEF ReviewsTypeOK
    <3> QED BY <3>1 DEF PagesCurrent
  <2> QED BY <2>1, <2>2
<1> QED BY <1>4, <1>6, <1>7

----------------------------------------------------------------------------
(* The theorems *)

\* Every step keeps the invariant.
LEMMA NextKeeps ==
    ASSUME ReviewsAssumption, ReviewsInv, [ReviewsNext]_reviewsVars
    PROVE  ReviewsInv'
<1>1. CASE UNCHANGED reviewsVars
  BY <1>1 DEF reviewsVars, ReviewsInv, ReviewsShape, ReviewsTypeOK, Distinct, JobsOfReviews,
     PagesCurrent, FillsCurrent, Trusted, Due, Reached, Subject, Live, Approved
<1> QED
  BY <1>1, ResolveKeeps, CreateReviewKeeps, LoadKeeps, CommitKeeps, FailReviewKeeps, NotifyKeeps,
     LoadPlantKeeps, TakeSlugKeeps, CommitRenameKeeps, FailRenameKeeps, AnnounceKeeps,
     StartFillKeeps, ListApprovedKeeps, SummariseKeeps DEF ReviewsNext

\* ReviewsInv holds along every behaviour.
LEMMA ReviewsInductive == ASSUME ReviewsAssumption PROVE ReviewsSpec => []ReviewsInv
<1>1. ReviewsInit => ReviewsInv
  BY InitReviewsInv
<1>2. ReviewsInv /\ [ReviewsNext]_reviewsVars => ReviewsInv'
  BY NextKeeps
<1> QED BY <1>1, <1>2, PTL DEF ReviewsSpec

\* Rows, requests and pages are of the shapes the code gives them.
THEOREM ReviewsTypesHold == ASSUME ReviewsAssumption PROVE ReviewsSpec => []ReviewsTypeOK
<1>1. ReviewsInv => ReviewsTypeOK
  BY DEF ReviewsInv, ReviewsShape
<1> QED BY <1>1, ReviewsInductive, PTL

\* The page kept of the shop, or of a plant under its own slug, shows and counts the
\* approved reviews once every notice that names it has arrived, however moderations,
\* renames, fills and late notices interleave: unless a notice of it was lost, or a
\* decision was committed by a request that knew an earlier slug, and it has not been
\* dropped since.
THEOREM PagesAreCurrent == ASSUME ReviewsAssumption PROVE ReviewsSpec => []PagesShowDecisions
<1>1. ReviewsInv => PagesShowDecisions
  BY DEF ReviewsInv, PagesCurrent, PagesShowDecisions, Trusted, Subject
<1> QED BY <1>1, ReviewsInductive, PTL

(***************************************************************************)
(* The admin panel                                                         *)
(***************************************************************************)

\* Whatever part a behaviour of the admin panel is about, what the others see of it is
\* a behaviour of theirs: they share no row, so each theorem of a component is one of the
\* composition that TLC runs.
THEOREM AdminPanelIsItsParts == SpecAll => Spec /\ OverviewSpec /\ InboxSpec /\ ReviewsSpec
<1>1. InitAll => Init /\ OverviewInit /\ InboxInit /\ ReviewsInit
  BY DEF InitAll
<1>2. [NextAll]_<<part, vars, overviewVars, inboxVars, reviewsVars>> =>
        [Next]_vars /\ [OverviewNext]_overviewVars /\ [InboxNext]_inboxVars /\ [ReviewsNext]_reviewsVars
  BY DEF NextAll
<1> QED
  BY <1>1, <1>2, PTL DEF SpecAll, Spec, OverviewSpec, InboxSpec, ReviewsSpec

\* The rows of admins, orders and reviews, the tokens, figures and pages keep the shapes
\* the code gives them (auth, overview, reviews).
THEOREM AdminPanelTypesHold ==
    ASSUME OverviewAssumption, ReviewsAssumption
    PROVE  SpecAll => []TypesOK
<1>1. TypeOK /\ OverviewTypeOK /\ ReviewsTypeOK => TypesOK
  BY DEF TypesOK
<1> QED
  BY <1>1, AdminPanelIsItsParts, AccountsTypesHold, OverviewTypesHold, ReviewsTypesHold, PTL
=============================================================================
