------------------------------- MODULE Accounts -------------------------------
(***************************************************************************)
(* Accounts and the sessions opened with them (modules/auth, users).  A    *)
(* refresh token carries the tokenVersion of the account it was issued     *)
(* for; changing the password increments it.  Between what a request reads *)
(* of an account and what it writes, comparing or hashing the password     *)
(* takes its time, and other requests run.                                 *)
(***************************************************************************)
EXTENDS Grids

CONSTANTS
  People,      \* accounts: one per email address, which is unique
  Applicants,  \* bound: those made on the users page
  Passwords,
  Reserved,    \* roles the users page gives no new account
  Callers,     \* requests in flight
  MaxVersion,  \* bound: changes of a password
  MaxResets,   \* bound: reset tokens issued for an account
  Nobody

VARIABLES
  account,  \* account[u]: password, tokenVersion, isActive; or NoAccount
  holds,    \* user_roles: pairs <<u, r>>, a unique index
  resets,   \* password reset tokens: [of, k, used, late]
  sessions, \* refresh tokens in the users' hands: [of, version]; opened, a ghost,
            \* is the password the session's login gave
  call,     \* call[w]: what request w has read and does next
  torn      \* ghost: users whose roles two requests were changing at once, or one
            \* left half changed, or who were given a role while it was deleted

accountVars == <<account, holds, resets, sessions, call, torn>>

NoAccount == [password |-> Nobody, version |-> 0, active |-> FALSE]
NoCall == [do |-> "nothing", of |-> Nobody]

AccountsInit ==
  /\ account = [u \in People |-> NoAccount]
  /\ holds = {} /\ resets = {} /\ sessions = {} /\ torn = {}
  /\ call = [w \in Callers |-> NoCall]

Takes(w, step) == call[w] = NoCall /\ call' = [call EXCEPT ![w] = step]
Ends(w) == call' = [call EXCEPT ![w] = NoCall]
Exists(u) == account[u] # NoAccount
ChangingRoles(u) == {w \in Callers : call[w].do \in {"clear", "grant"} /\ call[w].of = u}

---- \* Users

\* The address is free and the role assignable when looked up.
CreateUser(w) ==
  \E u \in Applicants, r \in RoleIds \ Reserved, p \in Passwords :
    /\ ~Exists(u) /\ role[r] # Nothing
    /\ Takes(w, [do |-> "create", of |-> u, role |-> r, password |-> p])
    /\ UNCHANGED <<account, holds, resets, sessions, torn>>

\* One statement inserts the user and his role; the index on the address
\* refuses a second one, the foreign key a role that is gone.
InsertUser(w) ==
  /\ call[w].do = "create" /\ Ends(w)
  /\ IF Exists(call[w].of) \/ role[call[w].role] = Nothing THEN UNCHANGED <<account, holds>>
     ELSE /\ account' = [account EXCEPT ![call[w].of] =
                           [password |-> call[w].password, version |-> 0, active |-> TRUE]]
          /\ holds' = holds \cup {<<call[w].of, call[w].role>>}
  /\ UNCHANGED <<resets, sessions, torn>>

ChangeRole(w) ==
  \E u \in People, r \in RoleIds :
    /\ Exists(u) /\ role[r] # Nothing
    /\ Takes(w, [do |-> "clear", of |-> u, role |-> r])
    /\ torn' = torn \cup (IF ChangingRoles(u) # {} THEN {u} ELSE {})
    /\ UNCHANGED <<account, holds, resets, sessions>>

Cleared(u) == {h \in holds : h[1] # u}

\* Mutation: the role is changed without taking the old one away.
ClearRoles_Keep(w) ==
  /\ call[w].do = "clear" /\ call' = [call EXCEPT ![w].do = "grant"]
  /\ UNCHANGED <<account, holds, resets, sessions, torn>>

ClearRoles(w) ==
  /\ call[w].do = "clear" /\ call' = [call EXCEPT ![w].do = "grant"]
  /\ holds' = Cleared(call[w].of)
  /\ UNCHANGED <<account, resets, sessions, torn>>

\* The index on the pair refuses what is there already, the foreign key a role that
\* is gone; then the request fails.
GrantRole(w) ==
  /\ call[w].do = "grant" /\ Ends(w)
  /\ IF role[call[w].role] = Nothing
     THEN torn' = torn \cup {call[w].of} /\ UNCHANGED holds
     ELSE holds' = holds \cup {<<call[w].of, call[w].role>>} /\ UNCHANGED torn
  /\ UNCHANGED <<account, resets, sessions>>

\* toggleActive writes the opposite of what it read, deactivate FALSE.
SetActive(w) ==
  \E u \in People : \E active \in {~account[u].active, FALSE} :
    /\ Exists(u) /\ active # account[u].active
    /\ Takes(w, [do |-> "active", of |-> u, active |-> active])
    /\ UNCHANGED <<account, holds, resets, sessions, torn>>

WriteActive(w) ==
  /\ call[w].do = "active" /\ Ends(w)
  /\ account' = [account EXCEPT ![call[w].of].active = call[w].active]
  /\ UNCHANGED <<holds, resets, sessions, torn>>

---- \* Sessions

\* The account read, the password compared.
Login(w) ==
  \E u \in People :
    /\ Exists(u) /\ account[u].active
    /\ Takes(w, [do |-> "issue", of |-> u, version |-> account[u].version,
                 opened |-> account[u].password])
    /\ UNCHANGED <<account, holds, resets, sessions, torn>>

\* Mutation: the token takes the version the account has by now.
IssueTokens_Now(w) ==
  /\ call[w].do = "issue" /\ Ends(w)
  /\ sessions' = sessions \cup
       {[of |-> call[w].of, version |-> account[call[w].of].version, opened |-> call[w].opened]}
  /\ UNCHANGED <<account, holds, resets, torn>>

\* generateTokens works on the account as it was read.
IssueTokens(w) ==
  /\ call[w].do = "issue" /\ Ends(w)
  /\ sessions' = sessions \cup
       {[of |-> call[w].of, version |-> call[w].version, opened |-> call[w].opened]}
  /\ UNCHANGED <<account, holds, resets, torn>>

\* A session goes on if its version is the account's.
Refresh(w) ==
  \E s \in sessions :
    /\ account[s.of].active /\ account[s.of].version = s.version
    /\ Takes(w, [do |-> "issue", of |-> s.of, version |-> account[s.of].version,
                 opened |-> s.opened])
    /\ UNCHANGED <<account, holds, resets, sessions, torn>>

---- \* Passwords

WithPassword(u, p) == [account EXCEPT ![u].password = p, ![u].version = @ + 1]

\* Who knows the password may change it.
ChangePassword(w) ==
  \E u \in People, p \in Passwords :
    /\ Exists(u) /\ p # account[u].password
    /\ Takes(w, [do |-> "password", of |-> u, password |-> p])
    /\ UNCHANGED <<account, holds, resets, sessions, torn>>

WritePassword(w) ==
  /\ call[w].do = "password" /\ Ends(w)
  /\ account[call[w].of].version < MaxVersion
  /\ account' = WithPassword(call[w].of, call[w].password)
  /\ UNCHANGED <<holds, resets, sessions, torn>>

\* A token is made whether or not others are open.
ForgotPassword(w) ==
  \E u \in People, k \in 1..MaxResets :
    /\ call[w] = NoCall
    /\ Exists(u) /\ account[u].active
    /\ ~\E t \in resets : t.of = u /\ t.k = k
    /\ resets' = resets \cup {[of |-> u, k |-> k, used |-> FALSE, late |-> FALSE]}
    /\ UNCHANGED <<account, holds, sessions, call, torn>>

ResetPassword(w) ==
  \E t \in resets, p \in Passwords :
    /\ ~t.used /\ ~t.late
    /\ Takes(w, [do |-> "reset", of |-> t.of, token |-> t, password |-> p])
    /\ UNCHANGED <<account, holds, resets, sessions, torn>>

SameToken(s, t) == s.of = t.of /\ s.k = t.k

\* The hour a token is good for is over.
Hour ==
  /\ \E t \in resets : ~t.late /\ resets' = (resets \ {t}) \cup {[t EXCEPT !.late = TRUE]}
  /\ UNCHANGED <<account, holds, sessions, call, torn>>

\* The program's one transaction: the password and the token's use.
CommitReset(w) ==
  /\ call[w].do = "reset" /\ Ends(w)
  /\ account[call[w].of].version < MaxVersion
  /\ account' = WithPassword(call[w].of, call[w].password)
  /\ resets' = {IF SameToken(t, call[w].token) THEN [t EXCEPT !.used = TRUE] ELSE t : t \in resets}
  /\ UNCHANGED <<holds, sessions, torn>>

\* A request fails between two of its steps.
CallDies(w) ==
  /\ call[w] # NoCall /\ Ends(w)
  /\ torn' = torn \cup (IF call[w].do = "grant" THEN {call[w].of} ELSE {})
  /\ UNCHANGED <<account, holds, resets, sessions>>

AccountSteps(w) ==
  \/ CreateUser(w) \/ InsertUser(w) \/ SetActive(w) \/ WriteActive(w)
  \/ ChangeRole(w) \/ ClearRoles(w) \/ GrantRole(w)
  \/ Login(w) \/ IssueTokens(w) \/ Refresh(w)
  \/ ChangePassword(w) \/ WritePassword(w) \/ ForgotPassword(w) \/ ResetPassword(w)
  \/ CommitReset(w) \/ CallDies(w)
=============================================================================
