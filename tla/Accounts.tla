------------------------------ MODULE Accounts ------------------------------
(***************************************************************************)
(* The accounts: registration, proof of the address, password changes and  *)
(* what they mean for sessions.  Every change of an account reads its row, *)
(* works on the copy and writes the whole row back with UpdateUser, so a   *)
(* request also writes what it did not mean to change, as it was when it   *)
(* read it.                                                                *)
(*                                                                         *)
(* Whoever holds a mailbox reads the links mailed to it.  Passwords and    *)
(* user names are left out: a login or a password change stands for one    *)
(* with the right password.  Links that expire and the pause between two   *)
(* reset mails only refuse requests.  Mails arrive.                        *)
(***************************************************************************)
EXTENDS Naturals, FiniteSets

CONSTANTS
    None,
    Users,
    Addresses,
    Procs,      \* requests
    MaxTokens,  \* bound: verification links made
    MaxChanges  \* bound: password changes

ASSUME AccountsAssumption ==
    /\ None \notin Users \cup Addresses \cup Nat
    /\ IsFiniteSet(Procs)
    /\ MaxTokens \in Nat /\ MaxChanges \in Nat

Tokens == 1..MaxTokens

\* The columns of a users row that matter here.
UserRows == [email : Addresses, email_verified : BOOLEAN, verification_token : Tokens \cup {None},
             reset : BOOLEAN, token_version : 0..MaxChanges]

ASSUME NoRow == None \notin UserRows

VARIABLES
    row,       \* users, None before the registration
    made,      \* verification tokens made so far
    mailedTo,  \* where the link with a token was mailed, None if not yet
    session,   \* a token some login returned, if any
    req,       \* what each request is at
    changes,   \* history: password changes done, per user
    proved,    \* history: whose links, mailed to which addresses, were opened
    clean      \* history: no two requests overlapped

vars == <<row, made, mailedTo, session, req, changes, proved, clean>>

Idle == [pc |-> "idle", user |-> None, saved |-> None, mail |-> FALSE, password |-> FALSE]

TypeOK ==
    /\ row \in [Users -> UserRows \cup {None}]
    /\ made \in 0..MaxTokens
    /\ mailedTo \in [Tokens -> Addresses \cup {None}]
    /\ session \in [user : Users, version : 0..MaxChanges, epoch : 0..MaxChanges] \cup {None}
    /\ req \in [Procs -> [pc : {"idle", "insert", "update", "mail"}, user : Users \cup {None},
                          saved : UserRows \cup {None}, mail : BOOLEAN, password : BOOLEAN]]
    /\ changes \in [Users -> 0..MaxChanges]
    /\ proved \subseteq Users \X Addresses
    /\ clean \in BOOLEAN

Init ==
    /\ row = [u \in Users |-> None]
    /\ made = 0
    /\ mailedTo = [t \in Tokens |-> None]
    /\ session = None
    /\ req = [p \in Procs |-> Idle]
    /\ changes = [u \in Users |-> 0]
    /\ proved = {}
    /\ clean = TRUE

At(p, l) == req[p].pc = l
AllIdle == \A p \in Procs : At(p, "idle")
Registered(u) == row[u] # None
Taken(m) == \E u \in Users : Registered(u) /\ row[u].email = m
Becomes(p, r) == req' = [req EXCEPT ![p] = r]

\* A request that has read the row of u and is about to write s.
Start(p, l, u, s, mail, password) ==
    /\ At(p, "idle")
    /\ Becomes(p, [pc |-> l, user |-> u, saved |-> s, mail |-> mail, password |-> password])
    /\ clean' = (clean /\ AllIdle)

\* The bound on password changes counts those on their way.
Room(u) ==
    changes[u] + Cardinality({p \in Procs : req[p].password /\ req[p].user = u}) < MaxChanges

NewToken == made < MaxTokens /\ made' = made + 1
Token == made + 1

-----------------------------------------------------------------------------
(***************************************************************************)
(* Requests read a row.                                                    *)
(***************************************************************************)

\* The identifier u is a new one.
Register(p, u, m) ==
    /\ ~Registered(u) /\ \A q \in Procs : req[q].user # u
    /\ ~Taken(m)
    /\ NewToken
    /\ Start(p, "insert", u,
             [email |-> m, email_verified |-> FALSE, verification_token |-> Token,
              reset |-> FALSE, token_version |-> 0], TRUE, FALSE)
    /\ UNCHANGED <<row, mailedTo, session, changes, proved>>

\* Somebody opens the link with a token.
VerifyEmail(p, u) ==
    /\ Registered(u)
    /\ row[u].verification_token # None
    /\ mailedTo[row[u].verification_token] # None
    /\ ~row[u].email_verified
    /\ Start(p, "update", u,
             [row[u] EXCEPT !.email_verified = TRUE, !.verification_token = None], FALSE, FALSE)
    /\ proved' = proved \cup {<<u, mailedTo[row[u].verification_token]>>}
    /\ UNCHANGED <<row, made, mailedTo, session, changes>>

ResendVerificationUnmailed(p, u) ==
    /\ Registered(u) /\ ~row[u].email_verified
    /\ NewToken
    /\ Start(p, "update", u, [row[u] EXCEPT !.verification_token = Token], FALSE, FALSE)
    /\ UNCHANGED <<row, mailedTo, session, changes, proved>>

ResendVerification(p, u) ==
    /\ Registered(u) /\ ~row[u].email_verified
    /\ NewToken
    /\ Start(p, "update", u, [row[u] EXCEPT !.verification_token = Token], TRUE, FALSE)
    /\ UNCHANGED <<row, mailedTo, session, changes, proved>>

ForgotPassword(p, u) ==
    /\ Registered(u)
    /\ Start(p, "update", u, [row[u] EXCEPT !.reset = TRUE], FALSE, FALSE)
    /\ UNCHANGED <<row, made, mailedTo, session, changes, proved>>

ResetPasswordKeepsSessions(p, u) ==
    /\ Registered(u) /\ row[u].reset /\ Room(u)
    /\ Start(p, "update", u, [row[u] EXCEPT !.reset = FALSE], FALSE, TRUE)
    /\ UNCHANGED <<row, made, mailedTo, session, changes, proved>>

\* With the link of the reset mail.
ResetPassword(p, u) ==
    /\ Registered(u) /\ row[u].reset /\ Room(u)
    /\ Start(p, "update", u, [row[u] EXCEPT !.reset = FALSE, !.token_version = @ + 1], FALSE, TRUE)
    /\ UNCHANGED <<row, made, mailedTo, session, changes, proved>>

\* What a signed-in user may do.  The check and the read that follows it are
\* one step; a session can be had by a login.
RequireVerifiedUser(u) == Registered(u) /\ row[u].email_verified

\* With the current password.
ChangePassword(p, u) ==
    /\ RequireVerifiedUser(u) /\ Room(u)
    /\ Start(p, "update", u, [row[u] EXCEPT !.token_version = @ + 1], FALSE, TRUE)
    /\ UNCHANGED <<row, made, mailedTo, session, changes, proved>>

\* Another user name: nothing of the row changes but what it does not name.
RenameProfile(p, u) ==
    /\ RequireVerifiedUser(u)
    /\ Start(p, "update", u, row[u], FALSE, FALSE)
    /\ UNCHANGED <<row, made, mailedTo, session, changes, proved>>

\* An empty address is to leave it as it is.
UpdateProfileBlank(p, u, m) ==
    /\ RequireVerifiedUser(u)
    /\ Start(p, "update", u, [row[u] EXCEPT !.email = None], FALSE, FALSE)
    /\ UNCHANGED <<row, made, mailedTo, session, changes, proved>>

\* Another address has to be proved; the link is mailed before the row is saved.
UpdateProfile(p, u, m) ==
    /\ RequireVerifiedUser(u) /\ ~Taken(m)
    /\ NewToken
    /\ mailedTo' = [mailedTo EXCEPT ![Token] = m]
    /\ Start(p, "update", u,
             [row[u] EXCEPT !.email = m, !.email_verified = FALSE, !.verification_token = Token],
             FALSE, FALSE)
    /\ UNCHANGED <<row, session, changes, proved>>

-----------------------------------------------------------------------------
(***************************************************************************)
(* ... and write it.  users.email is unique: a write that would break that *)
(* fails, and the request with it.                                         *)
(***************************************************************************)

Fits(p) ==
    \A u \in Users \ {req[p].user} : Registered(u) => row[u].email # req[p].saved.email

WriteFails(p) ==
    /\ req[p].pc \in {"insert", "update"}
    /\ ~Fits(p)
    /\ Becomes(p, Idle)
    /\ UNCHANGED <<row, made, mailedTo, session, changes, proved, clean>>

CreateUser(p) ==
    /\ At(p, "insert")
    /\ Fits(p)
    /\ row' = [row EXCEPT ![req[p].user] = req[p].saved]
    /\ Becomes(p, [req[p] EXCEPT !.pc = "mail"])
    /\ UNCHANGED <<made, mailedTo, session, changes, proved, clean>>

\* Of a verified account, write only that it is.
UpdateUserVerified(p) ==
    LET u == req[p].user IN
    /\ At(p, "update") /\ Fits(p)
    /\ row' = [row EXCEPT ![u] = IF req[p].saved.email_verified /\ ~req[p].password
                                 THEN [@ EXCEPT !.email_verified = TRUE] ELSE req[p].saved]
    /\ changes' = IF req[p].password THEN [changes EXCEPT ![u] = @ + 1] ELSE changes
    /\ Becomes(p, IF req[p].mail THEN [req[p] EXCEPT !.pc = "mail"] ELSE Idle)
    /\ UNCHANGED <<made, mailedTo, session, proved, clean>>

UpdateUser(p) ==
    LET u == req[p].user IN
    /\ At(p, "update") /\ Fits(p)
    /\ row' = [row EXCEPT ![u] = req[p].saved]
    /\ changes' = IF req[p].password THEN [changes EXCEPT ![u] = @ + 1] ELSE changes
    /\ Becomes(p, IF req[p].mail THEN [req[p] EXCEPT !.pc = "mail"] ELSE Idle)
    /\ UNCHANGED <<made, mailedTo, session, proved, clean>>

SendVerificationEmail(p) ==
    /\ At(p, "mail")
    /\ mailedTo' = [mailedTo EXCEPT ![req[p].saved.verification_token] = req[p].saved.email]
    /\ Becomes(p, Idle)
    /\ UNCHANGED <<row, made, session, changes, proved, clean>>

-----------------------------------------------------------------------------
(***************************************************************************)
(* Sessions.                                                               *)
(***************************************************************************)

\* The token carries the version of the account.
GenerateUserToken(u) == [user |-> u, version |-> row[u].token_version, epoch |-> changes[u]]

\* A login; one of the tokens handed out is remembered.
Login(u) ==
    /\ session = None
    /\ Registered(u) /\ row[u].email_verified
    /\ session' = GenerateUserToken(u)
    /\ UNCHANGED <<row, made, mailedTo, req, changes, proved, clean>>

tokenRevoked(s) == s.version # row[s.user].token_version

-----------------------------------------------------------------------------
Request(p) ==
    \E u \in Users :
       \/ VerifyEmail(p, u) \/ ResendVerification(p, u) \/ RenameProfile(p, u)
       \/ ForgotPassword(p, u) \/ ResetPassword(p, u) \/ ChangePassword(p, u)
       \/ \E m \in Addresses : Register(p, u, m) \/ UpdateProfile(p, u, m)

Step(p) == WriteFails(p) \/ CreateUser(p) \/ UpdateUser(p) \/ SendVerificationEmail(p)

Next ==
    \/ \E p \in Procs : Request(p) \/ Step(p)
    \/ \E u \in Users : Login(u)

Spec == Init /\ [][Next]_vars

-----------------------------------------------------------------------------
\* A verified account's address was proved: somebody opened a link that was
\* mailed to it for this account, however requests overlap (VerifyEmail,
\* UpdateProfile: "A new email address must be proven").
VerifiedWasProved ==
    \A u \in Users : Registered(u) /\ row[u].email_verified => <<u, row[u].email>> \in proved

\* An account that is not verified can be: once the requests are done, the
\* token it stores is one that was mailed to its address.
UnverifiedHasLink ==
    AllIdle =>
       \A u \in Users : Registered(u) /\ ~row[u].email_verified =>
          /\ row[u].verification_token # None
          /\ mailedTo[row[u].verification_token] = row[u].email

\* "A password change ... revokes every previously issued token" (auth.go).
PasswordChangeRevokes ==
    session # None /\ session.epoch < changes[session.user] => tokenRevoked(session)

\* It does so for good as long as the requests of all users do not overlap.
SerialPasswordChangeRevokes == clean => PasswordChangeRevokes
=============================================================================
