------------------------------ MODULE Accounts ------------------------------
(***************************************************************************)
(* Admin accounts and their sessions.  A browser holds an access token and *)
(* a refresh token, which nothing can revoke; every request looks up the   *)
(* token's admin first and works later, on rows that others may change in  *)
(* between.  Failed logins are counted per email in a moving window, the   *)
(* check before the password is looked at and the count after.             *)
(***************************************************************************)
EXTENDS Nothing, Naturals, Sequences, FiniteSets

CONSTANTS Admins, Emails, Passwords, Browsers,
          Requests,                  \* requests that may be in progress at once
          AccessLife, RefreshLife,   \* access_token_expire_minutes, refresh_token_expire_days
          Limit, Window,             \* rate_limit_login_email_failures
          MaxCalls, MaxTime          \* bounds: logins and edits sent, the clock

Row   == [email: Emails, password: Passwords, active: BOOLEAN]
Token == [sub: Admins, exp: Nat, login: Nat]   \* login: when it all began, for the properties
Guess == [at: Nat, by: Requests, entries: Nat]   \* entries: how many the limiter had recorded by then
Edits == {"create", "update", "password"}
Job   == [op: Edits \cup {"login"}, browser: Browsers \cup {None}, actor: Admins \cup {None},
          target: Admins \cup {None}, email: Emails \cup {None}, password: Passwords \cup {None},
          active: BOOLEAN \cup {None}, copy: Row \cup {None},
          stage: {"verify", "load", "check", "commit"}]

ASSUME AccountsAssumption ==
    /\ None \notin Admins \cup Emails \cup Passwords \cup Browsers \cup BOOLEAN
    /\ None \notin Row \cup Token \cup Job
    /\ {AccessLife, RefreshLife, Limit, Window, MaxCalls, MaxTime} \subseteq Nat
    /\ Limit > 0 /\ Window > 0
    /\ Requests # {} /\ IsFiniteSet(Requests)

VARIABLES
    admins,     \* admins rows, None before they are created
    access,     \* gg_access_token of each browser
    refresh,    \* gg_refresh_token of each browser
    job,        \* requests in progress
    failures,   \* when the limiter recorded a failure of each email
    now,        \* the clock
    calls,      \* how many logins and edits have been sent
    guesses,    \* history: the passwords of an email that were tried in vain
    crossed     \* history: an admin was deactivated by one who was no longer active

vars == <<admins, access, refresh, job, failures, now, calls, guesses, crossed>>

rowVars   == <<admins, crossed>>
tokenVars == <<access, refresh>>
loginVars == <<failures, guesses>>

UniqueEmails(rows) ==
    \A a, b \in Admins : a # b /\ rows[a] # None /\ rows[b] # None => rows[a].email # rows[b].email

\* Some admins exist, and some of them have just logged in.
Init ==
    /\ admins \in {rows \in [Admins -> Row \cup {None}] :
                     UniqueEmails(rows) /\ \E a \in Admins : rows[a] # None /\ rows[a].active}
    /\ \E who \in [Browsers -> {a \in Admins : admins[a] # None} \cup {None}] :
         /\ \A b \in Browsers : who[b] # None => admins[who[b]].active
         /\ access = [b \in Browsers |-> IF who[b] = None THEN None
                        ELSE [sub |-> who[b], exp |-> AccessLife, login |-> 0]]
         /\ refresh = [b \in Browsers |-> IF who[b] = None THEN None
                        ELSE [sub |-> who[b], exp |-> RefreshLife, login |-> 0]]
    /\ job = [r \in Requests |-> None]
    /\ failures = [e \in Emails |-> <<>>]
    /\ now = 0
    /\ calls = 0
    /\ guesses = [e \in Emails |-> <<>>]
    /\ crossed = FALSE

At(r, stage) == job[r] # None /\ job[r].stage = stage
End(r) == job' = [job EXCEPT ![r] = None]
AdminWith(email) == {a \in Admins : admins[a] # None /\ admins[a].email = email}

----------------------------------------------------------------------------
(* The failure limit of an email *)

\* What of a history is in the window that ends now.
InWindow(time) == now < time + Window
Recent(times)  == {i \in DOMAIN times : InWindow(times[i])}

\* Fault: one failure too many is let in.
Allowed_OneMore(email) == Cardinality(Recent(failures[email])) <= Limit

\* limiter.test, over the entries that are still in the window.
Allowed(email) == Cardinality(Recent(failures[email])) < Limit

\* Fault: an entry is added also when the window is full.
RecordFailure_Uncapped(email) == Append(failures[email], now)

\* limiter.hit adds no entry to a full window.
RecordFailure(email) == IF Allowed(email) THEN Append(failures[email], now) ELSE failures[email]

----------------------------------------------------------------------------
(* login, refresh, logout *)

\* ensure_login_email_allowed
SubmitLogin(r, b, e, p) ==
    /\ job[r] = None
    /\ calls < MaxCalls
    /\ calls' = calls + 1
    /\ IF Allowed(e)
       THEN job' = [job EXCEPT ![r] =
                 [op |-> "login", browser |-> b, actor |-> None, target |-> None, email |-> e,
                  password |-> p, active |-> None, copy |-> None, stage |-> "verify"]]
       ELSE UNCHANGED job
    /\ UNCHANGED <<rowVars, tokenVars, failures, now, guesses>>

NewToken(a, life, since) == [sub |-> a, exp |-> now + life, login |-> since]

SetAuthCookies(b, a) ==
    /\ access'  = [access EXCEPT ![b] = NewToken(a, AccessLife, now)]
    /\ refresh' = [refresh EXCEPT ![b] = NewToken(a, RefreshLife, now)]

ClearAuthCookies(b) ==
    /\ access'  = [access EXCEPT ![b] = None]
    /\ refresh' = [refresh EXCEPT ![b] = None]

\* authenticate_admin: the SELECT, and what follows it without giving way.
Authenticated(j) ==
    {a \in AdminWith(j.email) : admins[a].active /\ admins[a].password = j.password}

Login(r) ==
    /\ At(r, "verify")
    /\ End(r)
    /\ LET j == job[r] IN
       \/ \E a \in Authenticated(j) :
            /\ SetAuthCookies(j.browser, a)
            /\ UNCHANGED loginVars
       \/ /\ Authenticated(j) = {}
          /\ failures' = [failures EXCEPT ![j.email] = RecordFailure(j.email)]
          /\ guesses' = [guesses EXCEPT ![j.email] =
               Append(@, [at |-> now, by |-> r, entries |-> Len(RecordFailure(j.email))])]
          /\ UNCHANGED tokenVars
    /\ UNCHANGED <<rowVars, now, calls>>

\* decode_token; each cookie holds tokens of its own type.
Valid(token) == token # None /\ now < token.exp

\* resolve_admin_from_token
Resolves(token) == Valid(token) /\ admins[token.sub] # None /\ admins[token.sub].active

\* Fault: the refresh token is renewed as well.
RefreshToken_Rotated(b) == NewToken(refresh[b].sub, RefreshLife, refresh[b].login)

\* Only the access cookie is set.
RefreshToken(b) == refresh[b]

Refresh(b) ==
    /\ Resolves(refresh[b])
    /\ access'  = [access EXCEPT ![b] = NewToken(refresh[b].sub, AccessLife, refresh[b].login)]
    /\ refresh' = [refresh EXCEPT ![b] = RefreshToken(b)]
    /\ UNCHANGED <<rowVars, job, loginVars, now, calls>>

Logout(b) ==
    /\ ClearAuthCookies(b)
    /\ UNCHANGED <<rowVars, job, loginVars, now, calls>>

----------------------------------------------------------------------------
(* Edits of admins *)

\* get_current_admin, which the CLI does without.
LetIn(b) == b # None => Resolves(access[b])

NoCopy(op, b, t, e, p, on) ==
    [op |-> op, browser |-> None, actor |-> IF b = None THEN None ELSE access[b].sub, target |-> t,
     email |-> e, password |-> p, active |-> on, copy |-> None,
     stage |-> IF op = "create" THEN "check" ELSE "load"]

\* The request has been let in, and its route calls the service.
Submit(r, b, request) ==
    /\ job[r] = None
    /\ calls < MaxCalls
    /\ calls' = calls + 1
    /\ LetIn(b)
    /\ job' = [job EXCEPT ![r] = request]
    /\ UNCHANGED <<rowVars, tokenVars, loginVars, now>>

\* create_admin, of the API and of the CLI, which is nobody's; a new row's id is
\* nobody else's.
SubmitCreate(r, b, t, e, p) ==
    /\ admins[t] = None
    /\ \A q \in Requests : job[q] # None => job[q].target # t
    /\ Submit(r, b, NoCopy("create", b, t, e, p, TRUE))

\* update_admin, and update_admin_status with nothing but is_active.
SubmitUpdate(r, b, t, e, on) ==
    /\ admins[t] # None
    /\ e # None \/ on # None
    /\ Submit(r, b, NoCopy("update", b, t, e, None, on))

\* change_password
SubmitPassword(r, b, t, p) ==
    /\ admins[t] # None
    /\ Submit(r, b, NoCopy("password", b, t, None, p, None))

\* Fault: one may deactivate oneself.
SelfDeactivation_Never(j) == FALSE

SelfDeactivation(j) == j.actor = j.target /\ j.active = FALSE

\* get_admin, and the email that is written only if it is not the copy's own.
Load(r) ==
    /\ At(r, "load")
    /\ LET j == job[r]
           row == admins[j.target]
           renamed == j.email # None /\ j.email # row.email
       IN IF ~renamed /\ SelfDeactivation(j) THEN End(r)
          ELSE job' = [job EXCEPT ![r].copy = row, ![r].stage = IF renamed THEN "check" ELSE "commit"]
    /\ UNCHANGED <<rowVars, tokenVars, loginVars, now, calls>>

\* get_admin_by_email, of which only what is committed is seen.
CheckEmail(r) ==
    /\ At(r, "check")
    /\ LET j == job[r]
       IN IF AdminWith(j.email) \ {j.target} # {} \/ SelfDeactivation(j) THEN End(r)
          ELSE job' = [job EXCEPT ![r].stage = "commit"]
    /\ UNCHANGED <<rowVars, tokenVars, loginVars, now, calls>>

\* The INSERT of create_admin, of the API and of the CLI.
NewRow(j) == [email |-> j.email, password |-> j.password, active |-> TRUE]

\* The UPDATE of the columns that the request changes of its copy.
RowAfter(j) ==
    LET row == admins[j.target]
    IN [email    |-> IF j.email \notin {None, j.copy.email} THEN j.email ELSE row.email,
        password |-> IF j.password # None THEN j.password ELSE row.password,
        active   |-> IF j.active \notin {None, j.copy.active} THEN j.active ELSE row.active]

Deactivates(j) == j.copy # None /\ j.active = FALSE /\ j.copy.active

Commit(r) ==
    /\ At(r, "commit")
    /\ LET j == job[r] IN
       /\ admins' = [admins EXCEPT ![j.target] = IF j.copy = None THEN NewRow(j) ELSE RowAfter(j)]
       /\ UniqueEmails(admins')
       /\ crossed' = (crossed \/ (Deactivates(j) /\ ~admins[j.actor].active))
    /\ End(r)
    /\ UNCHANGED <<tokenVars, loginVars, now, calls>>

\* An IntegrityError, or any failure before the commit.
Fail(r) ==
    /\ job[r] # None
    /\ End(r)
    /\ UNCHANGED <<rowVars, tokenVars, loginVars, now, calls>>

\* A cookie's max_age is its token's lifetime.
Kept(token) == IF token = None \/ token.exp <= now' THEN None ELSE token

Tick ==
    /\ now < MaxTime
    /\ now' = now + 1
    /\ access'  = [b \in Browsers |-> Kept(access[b])]
    /\ refresh' = [b \in Browsers |-> Kept(refresh[b])]
    /\ UNCHANGED <<rowVars, job, loginVars, calls>>

Next ==
    \/ \E r \in Requests :
         \/ \E b \in Browsers, e \in Emails, p \in Passwords \cup {None} : SubmitLogin(r, b, e, p)
         \/ \E b \in Browsers \cup {None}, t \in Admins, e \in Emails, p \in Passwords :
               SubmitCreate(r, b, t, e, p)
         \/ \E b \in Browsers, t \in Admins :
               \/ \E e \in Emails \cup {None}, on \in BOOLEAN \cup {None} : SubmitUpdate(r, b, t, e, on)
               \/ \E p \in Passwords : SubmitPassword(r, b, t, p)
         \/ Login(r) \/ Load(r) \/ CheckEmail(r) \/ Commit(r) \/ Fail(r)
    \/ \E b \in Browsers : Refresh(b) \/ Logout(b)
    \/ Tick

Spec == Init /\ [][Next]_vars

----------------------------------------------------------------------------
(* Properties *)

\* Rows, tokens, requests and counters are of the shapes the code gives them.
TypeOK ==
    /\ admins \in [Admins -> Row \cup {None}]
    /\ access \in [Browsers -> Token \cup {None}]
    /\ refresh \in [Browsers -> Token \cup {None}]
    /\ job \in [Requests -> Job \cup {None}]
    /\ failures \in [Emails -> Seq(Nat)]
    /\ guesses \in [Emails -> Seq(Guess)]
    /\ \A e \in Emails : Cardinality(Recent(failures[e])) <= Limit
    /\ now \in 0 .. MaxTime
    /\ crossed \in BOOLEAN

\* Somebody can always administer the shop: no series of edits deactivates the
\* last active admin, since nobody deactivates themselves; unless two admins
\* deactivate each other (or in a ring) in requests that overlap.
SomeoneActive == crossed \/ \E a \in Admins : admins[a] # None /\ admins[a].active

\* A session ends: however often it is refreshed, no token outlives the login it
\* goes back to by more than the two lifetimes.
SessionsEnd ==
    \A b \in Browsers :
        /\ access[b] # None => access[b].exp <= access[b].login + RefreshLife + AccessLife
        /\ refresh[b] # None => refresh[b].exp <= refresh[b].login + RefreshLife

\* Attempts that overlap pass the check together and fill one entry.  So within a
\* window an email's password is tried in vain as often as there are requests at
\* once for every entry of it, and by all but one of them for the last entry before
\* it: requests that were let in earlier and took long.
RecentGuesses(e) == {i \in DOMAIN guesses[e] : InWindow(guesses[e][i].at)}

GuessesBounded ==
    \A e \in Emails : Cardinality(RecentGuesses(e)) < (Limit + 1) * Cardinality(Requests)
=============================================================================
