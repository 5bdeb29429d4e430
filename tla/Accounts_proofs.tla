--------------------------- MODULE Accounts_proofs ---------------------------
(***************************************************************************)
(* Proofs about Accounts, for any users, addresses and bounds, and any     *)
(* finite number of overlapping requests.                                  *)
(*                                                                         *)
(* The argument: a request holds a copy of a row, so what is claimed of    *)
(* the rows has to be claimed of every copy on its way back.  A link is    *)
(* made for one address (MailInv), whichever copies carry its token; and   *)
(* the only request that may drop a link it has made holds a token that    *)
(* nobody else has read (LinkInv).                                         *)
(***************************************************************************)
EXTENDS Accounts, FiniteSetTheorems, TLAPS

Busy(p) == ~At(p, "idle")
Pending(u) == {p \in Procs : req[p].password /\ req[p].user = u}

\* What a request holds.
Holds(p) ==
    /\ ~Busy(p) => req[p] = Idle
    /\ Busy(p) =>
          /\ req[p].user \in Users /\ req[p].saved \in UserRows
          /\ req[p].password => At(p, "update") /\ ~req[p].mail
          /\ At(p, "update") => Registered(req[p].user)

RequestInv == \A p \in Procs : Holds(p)

\* The versions stay within the changes, done and on their way.
VersionInv ==
    /\ \A u \in Users :
          /\ changes[u] + Cardinality(Pending(u)) <= MaxChanges
          /\ Registered(u) => row[u].token_version <= changes[u]
    /\ \A p \in Procs : Busy(p) =>
          req[p].saved.token_version <= changes[req[p].user] + (IF req[p].password THEN 1 ELSE 0)

\* Tokens that are not made yet are nowhere.
MadeInv ==
    /\ \A t \in Tokens : t > made => mailedTo[t] = None
    /\ \A u \in Users : Registered(u) /\ row[u].verification_token # None =>
          row[u].verification_token <= made
    /\ \A p \in Procs : Busy(p) /\ req[p].saved.verification_token # None =>
          req[p].saved.verification_token <= made

\* A copy r of the row of u, when token t is meant for address for[t].
Copy(for, u, r) ==
    /\ r.email_verified => <<u, r.email>> \in proved
    /\ r.verification_token # None => for[r.verification_token] = r.email

MailInv ==
    \E for \in [Tokens -> Addresses \cup {None}] :
       /\ \A t \in Tokens : mailedTo[t] # None => mailedTo[t] = for[t]
       /\ \A u \in Users : Registered(u) => Copy(for, u, row[u])
       /\ \A p \in Procs : Busy(p) => Copy(for, req[p].user, req[p].saved)

\* The link with token t was mailed or is about to be.
Linked(t) ==
    /\ t # None
    /\ \/ mailedTo[t] # None
       \/ \E p \in Procs : At(p, "mail") /\ req[p].saved.verification_token = t

LinkedRow(u) ==
    Registered(u) /\ ~row[u].email_verified => Linked(row[u].verification_token)

\* A request that has yet to mail its link is the only one with that token.
LinkedCopy(p) ==
    Busy(p) /\ ~At(p, "mail") /\ ~req[p].saved.email_verified =>
       IF req[p].mail THEN req[p].saved.verification_token # None
                      ELSE Linked(req[p].saved.verification_token)

LinkInv ==
    /\ \A u \in Users : LinkedRow(u)
    /\ \A p \in Procs : LinkedCopy(p)

\* Without overlaps the versions count the changes.
SerialInv ==
    clean =>
       /\ \A p, q \in Procs : Busy(p) /\ Busy(q) => p = q
       /\ \A u \in Users : changes[u] = IF Registered(u) THEN row[u].token_version ELSE 0
       /\ \A p \in Procs : At(p, "insert") =>
             ~Registered(req[p].user) /\ req[p].saved.token_version = 0
       /\ \A p \in Procs : At(p, "update") =>
             req[p].saved.token_version =
                changes[req[p].user] + (IF req[p].password THEN 1 ELSE 0)
       /\ session # None => session.version = session.epoch

IInv ==
    TypeOK /\ RequestInv /\ VersionInv /\ MadeInv /\ MailInv /\ LinkInv /\ SerialInv

-----------------------------------------------------------------------------
(***************************************************************************)
(* Every request reads a row in one of three ways: it keeps the link of    *)
(* the account, has opened it, or makes one.                               *)
(***************************************************************************)

Begin(p, u, l, s, mail, password) ==
    /\ Start(p, l, u, s, mail, password)
    /\ s \in UserRows /\ mail \in BOOLEAN /\ password \in BOOLEAN
    /\ \/ /\ l = "insert" /\ ~Registered(u)
          /\ s.token_version = 0 /\ ~password
       \/ /\ l = "update" /\ Registered(u)
          /\ s.token_version = IF password THEN row[u].token_version + 1 ELSE row[u].token_version
          /\ password => ~mail /\ Room(u)
    /\ UNCHANGED <<row, session, changes>>

KeepsLink(u, s, mail) ==
    /\ Registered(u) /\ ~mail
    /\ s.email = row[u].email
    /\ s.email_verified = row[u].email_verified
    /\ s.verification_token = row[u].verification_token
    /\ UNCHANGED <<made, mailedTo, proved>>

OpenedLink(u, s, mail) ==
    /\ Registered(u) /\ ~mail
    /\ row[u].verification_token # None
    /\ mailedTo[row[u].verification_token] # None
    /\ s.email = row[u].email
    /\ s.email_verified
    /\ s.verification_token = None
    /\ proved' = proved \cup {<<u, mailedTo[row[u].verification_token]>>}
    /\ UNCHANGED <<made, mailedTo>>

MakesLink(s, mail) ==
    /\ NewToken
    /\ ~s.email_verified
    /\ s.verification_token = Token
    /\ mailedTo' = IF mail THEN mailedTo ELSE [mailedTo EXCEPT ![Token] = s.email]
    /\ UNCHANGED proved

Link(u, s, mail) == KeepsLink(u, s, mail) \/ OpenedLink(u, s, mail) \/ MakesLink(s, mail)

Begins(p, u) ==
    \E l \in {"insert", "update"}, s \in UserRows, mail \in BOOLEAN, password \in BOOLEAN :
       Begin(p, u, l, s, mail, password) /\ Link(u, s, mail)

LEMMA RowType ==
    ASSUME TypeOK, NEW u \in Users, Registered(u)
    PROVE  row[u] \in UserRows
BY DEF TypeOK, Registered

LEMMA MakesToken ==
    ASSUME TypeOK, NewToken
    PROVE  Token \in Tokens /\ made \in Nat /\ made' \in 0..MaxTokens
BY AccountsAssumption DEF TypeOK, NewToken, Token, Tokens

\* There is room for one more change.
LEMMA RoomLeft ==
    ASSUME TypeOK, VersionInv, NEW u \in Users, Registered(u), Room(u)
    PROVE  row[u].token_version + 1 \in 0..MaxChanges
<1>1. IsFiniteSet(Pending(u))
  BY AccountsAssumption, FS_Subset DEF Pending
<1>2. Cardinality(Pending(u)) \in Nat
  BY <1>1, FS_CardinalityType
<1>3. changes[u] + Cardinality(Pending(u)) < MaxChanges
  BY DEF Room, Pending
<1>4. row[u].token_version \in 0..MaxChanges /\ row[u].token_version <= changes[u]
  BY RowType DEF VersionInv, UserRows
<1>5. changes[u] \in 0..MaxChanges
  BY DEF TypeOK
<1> QED BY <1>2, <1>3, <1>4, <1>5, AccountsAssumption

LEMMA RequestBegins ==
    ASSUME IInv, NEW p \in Procs, NEW u \in Users, NEW m \in Addresses,
           \/ VerifyEmail(p, u) \/ ResendVerification(p, u) \/ RenameProfile(p, u)
           \/ ForgotPassword(p, u) \/ ResetPassword(p, u) \/ ChangePassword(p, u)
           \/ Register(p, u, m) \/ UpdateProfile(p, u, m)
    PROVE  Begins(p, u)
<1>1. TypeOK /\ VersionInv
  BY DEF IInv
<1>2. Registered(u) => row[u] \in UserRows
  BY <1>1, RowType
<1>3. NewToken => Token \in Tokens
  BY <1>1, MakesToken
<1>4. Registered(u) /\ Room(u) => row[u].token_version + 1 \in 0..MaxChanges
  BY <1>1, RoomLeft
<1>5. CASE VerifyEmail(p, u)
  <2> DEFINE s == [row[u] EXCEPT !.email_verified = TRUE, !.verification_token = None]
  <2>1. /\ s \in UserRows /\ s.email = row[u].email /\ s.email_verified
        /\ s.verification_token = None /\ s.token_version = row[u].token_version
    BY <1>2, <1>5 DEF VerifyEmail, UserRows
  <2>2. Begin(p, u, "update", s, FALSE, FALSE)
    BY <1>5, <2>1 DEF VerifyEmail, Begin
  <2>3. OpenedLink(u, s, FALSE)
    BY <1>5, <2>1 DEF VerifyEmail, OpenedLink
  <2> QED BY <2>1, <2>2, <2>3 DEF Begins, Link
<1>6. CASE ResendVerification(p, u)
  <2> DEFINE s == [row[u] EXCEPT !.verification_token = Token]
  <2>1. /\ s \in UserRows /\ s.email_verified = row[u].email_verified
        /\ s.verification_token = Token /\ s.token_version = row[u].token_version
    BY <1>2, <1>3, <1>6 DEF ResendVerification, UserRows
  <2>2. Begin(p, u, "update", s, TRUE, FALSE)
    BY <1>6, <2>1 DEF ResendVerification, Begin
  <2>3. MakesLink(s, TRUE)
    BY <1>6, <2>1 DEF ResendVerification, MakesLink
  <2> QED BY <2>1, <2>2, <2>3 DEF Begins, Link
<1>7. CASE RenameProfile(p, u)
  <2> DEFINE s == row[u]
  <2>1. /\ s \in UserRows /\ s.token_version = row[u].token_version
    BY <1>2, <1>7 DEF RenameProfile, RequireVerifiedUser, UserRows
  <2>2. Begin(p, u, "update", s, FALSE, FALSE)
    BY <1>7, <2>1 DEF RenameProfile, RequireVerifiedUser, Begin
  <2>3. KeepsLink(u, s, FALSE)
    BY <1>7, <2>1 DEF RenameProfile, RequireVerifiedUser, KeepsLink
  <2> QED BY <2>1, <2>2, <2>3 DEF Begins, Link
<1>8. CASE ForgotPassword(p, u)
  <2> DEFINE s == [row[u] EXCEPT !.reset = TRUE]
  <2>1. /\ s \in UserRows /\ s.email = row[u].email
        /\ s.email_verified = row[u].email_verified
        /\ s.verification_token = row[u].verification_token
        /\ s.token_version = row[u].token_version
    BY <1>2, <1>8 DEF ForgotPassword, UserRows
  <2>2. Begin(p, u, "update", s, FALSE, FALSE)
    BY <1>8, <2>1 DEF ForgotPassword, Begin
  <2>3. KeepsLink(u, s, FALSE)
    BY <1>8, <2>1 DEF ForgotPassword, KeepsLink
  <2> QED BY <2>1, <2>2, <2>3 DEF Begins, Link
<1>9. CASE ResetPassword(p, u)
  <2> DEFINE s == [row[u] EXCEPT !.reset = FALSE, !.token_version = @ + 1]
  <2>1. /\ s \in UserRows /\ s.email = row[u].email
        /\ s.email_verified = row[u].email_verified
        /\ s.verification_token = row[u].verification_token
        /\ s.token_version = row[u].token_version + 1
    BY <1>2, <1>4, <1>9 DEF ResetPassword, UserRows
  <2>2. Begin(p, u, "update", s, FALSE, TRUE)
    BY <1>9, <2>1 DEF ResetPassword, Begin
  <2>3. KeepsLink(u, s, FALSE)
    BY <1>9, <2>1 DEF ResetPassword, KeepsLink
  <2> QED BY <2>1, <2>2, <2>3 DEF Begins, Link
<1>10. CASE ChangePassword(p, u)
  <2> DEFINE s == [row[u] EXCEPT !.token_version = @ + 1]
  <2>1. /\ s \in UserRows /\ s.email = row[u].email
        /\ s.email_verified = row[u].email_verified
        /\ s.verification_token = row[u].verification_token
        /\ s.token_version = row[u].token_version + 1
    BY <1>2, <1>4, <1>10 DEF ChangePassword, RequireVerifiedUser, UserRows
  <2>2. Begin(p, u, "update", s, FALSE, TRUE)
    BY <1>10, <2>1 DEF ChangePassword, RequireVerifiedUser, Begin
  <2>3. KeepsLink(u, s, FALSE)
    BY <1>10, <2>1 DEF ChangePassword, RequireVerifiedUser, KeepsLink
  <2> QED BY <2>1, <2>2, <2>3 DEF Begins, Link
<1>11. CASE Register(p, u, m)
  <2> DEFINE s == [email |-> m, email_verified |-> FALSE, verification_token |-> Token,
                   reset |-> FALSE, token_version |-> 0]
  <2>1. /\ s \in UserRows /\ ~s.email_verified
        /\ s.verification_token = Token /\ s.token_version = 0
    BY <1>3, <1>11, AccountsAssumption DEF Register, UserRows
  <2>2. Begin(p, u, "insert", s, TRUE, FALSE)
    BY <1>11, <2>1 DEF Register, Begin
  <2>3. MakesLink(s, TRUE)
    BY <1>11, <2>1 DEF Register, MakesLink
  <2> QED BY <2>1, <2>2, <2>3 DEF Begins, Link
<1>12. CASE UpdateProfile(p, u, m)
  <2> DEFINE s == [row[u] EXCEPT !.email = m, !.email_verified = FALSE,
                                 !.verification_token = Token]
  <2>1. /\ s \in UserRows /\ ~s.email_verified /\ s.email = m
        /\ s.verification_token = Token /\ s.token_version = row[u].token_version
    BY <1>2, <1>3, <1>12 DEF UpdateProfile, RequireVerifiedUser, UserRows
  <2>2. Begin(p, u, "update", s, FALSE, FALSE)
    BY <1>12, <2>1 DEF UpdateProfile, RequireVerifiedUser, Begin
  <2>3. MakesLink(s, FALSE)
    BY <1>12, <2>1 DEF UpdateProfile, RequireVerifiedUser, MakesLink
  <2> QED BY <2>1, <2>2, <2>3 DEF Begins, Link
<1> QED BY <1>5, <1>6, <1>7, <1>8, <1>9, <1>10, <1>11, <1>12

-----------------------------------------------------------------------------
(***************************************************************************)
(* A request that begins keeps the invariant.                              *)
(***************************************************************************)

\* What a request that begins holds, and that the others stay.
LEMMA BeginsRequest ==
    ASSUME TypeOK, RequestInv, NEW p \in Procs, NEW u \in Users, NEW l, NEW s,
           NEW mail, NEW password, Begin(p, u, l, s, mail, password)
    PROVE  /\ req[p] = Idle /\ ~Busy(p) /\ ~req[p].password
           /\ req'[p].pc = l /\ req'[p].user = u /\ req'[p].saved = s
           /\ req'[p].mail = mail /\ req'[p].password = password
           /\ \A q \in Procs \ {p} : req'[q] = req[q]
           /\ clean' = (clean /\ AllIdle)
           /\ l \in {"insert", "update"}
<1>1. At(p, "idle") /\ req' = [req EXCEPT ![p] = [pc |-> l, user |-> u, saved |-> s,
                                                 mail |-> mail, password |-> password]]
  BY DEF Begin, Start, Becomes
<1>2. req[p] = Idle
  BY <1>1 DEF RequestInv, Holds, Busy
<1>3. l \in {"insert", "update"} /\ clean' = (clean /\ AllIdle)
  BY DEF Begin, Start
<1>4. p \in DOMAIN req
  BY DEF TypeOK
<1> QED BY <1>1, <1>2, <1>3, <1>4 DEF Busy, Idle

LEMMA BeginsType ==
    ASSUME TypeOK, RequestInv, NEW p \in Procs, NEW u \in Users, Begins(p, u)
    PROVE  TypeOK' /\ RequestInv'
<1>1. PICK l \in {"insert", "update"}, s \in UserRows, mail \in BOOLEAN, password \in BOOLEAN :
        Begin(p, u, l, s, mail, password) /\ Link(u, s, mail)
  BY DEF Begins
<1>2. /\ req' = [req EXCEPT ![p] = [pc |-> l, user |-> u, saved |-> s,
                                   mail |-> mail, password |-> password]]
      /\ clean' = (clean /\ AllIdle)
      /\ UNCHANGED <<row, session, changes>>
  BY <1>1 DEF Begin, Start, Becomes
<1>3. made' \in 0..MaxTokens
  BY <1>1, MakesToken DEF Link, KeepsLink, OpenedLink, MakesLink, TypeOK
<1>4. mailedTo' \in [Tokens -> Addresses \cup {None}]
  <2>1. s.email \in Addresses
    BY <1>1 DEF UserRows
  <2> QED BY <1>1, <2>1 DEF Link, KeepsLink, OpenedLink, MakesLink, TypeOK
<1>5. proved' \subseteq Users \X Addresses
  <2>1. CASE OpenedLink(u, s, mail)
    <3>1. row[u].verification_token \in Tokens
      BY <2>1, RowType DEF OpenedLink, UserRows
    <3>2. mailedTo[row[u].verification_token] \in Addresses
      BY <2>1, <3>1 DEF OpenedLink, TypeOK
    <3> QED BY <2>1, <3>2 DEF OpenedLink, TypeOK
  <2> QED BY <1>1, <2>1 DEF Link, KeepsLink, MakesLink, TypeOK
<1>6. clean' \in BOOLEAN
  BY <1>2 DEF TypeOK
<1>7. TypeOK'
  BY <1>1, <1>2, <1>3, <1>4, <1>5, <1>6 DEF TypeOK
<1>8. RequestInv'
  <2> SUFFICES ASSUME NEW q \in Procs PROVE Holds(q)'
    BY DEF RequestInv
  <2>1. /\ req'[p].pc = l /\ req'[p].user = u /\ req'[p].saved = s
        /\ req'[p].mail = mail /\ req'[p].password = password
        /\ \A x \in Procs \ {p} : req'[x] = req[x]
    BY <1>1, BeginsRequest
  <2>2. password => l = "update" /\ ~mail
    BY <1>1 DEF Begin
  <2>3. l = "update" => Registered(u)
    BY <1>1 DEF Begin
  <2>4. CASE q = p
    BY <1>2, <2>1, <2>2, <2>3, <2>4 DEF Holds, Busy, At, Registered
  <2>5. CASE q # p
    BY <1>2, <2>1, <2>5 DEF Holds, Busy, At, RequestInv, Registered
  <2> QED BY <2>4, <2>5
<1> QED BY <1>7, <1>8

LEMMA PendingFinite == \A u \in Users : IsFiniteSet(Pending(u)) /\ Cardinality(Pending(u)) \in Nat
<1> SUFFICES ASSUME NEW u \in Users
             PROVE  IsFiniteSet(Pending(u)) /\ Cardinality(Pending(u)) \in Nat
  OBVIOUS
<1>1. IsFiniteSet(Pending(u))
  BY AccountsAssumption, FS_Subset DEF Pending
<1> QED BY <1>1, FS_CardinalityType

LEMMA BeginsVersion ==
    ASSUME TypeOK, RequestInv, VersionInv, NEW p \in Procs, NEW u \in Users, Begins(p, u)
    PROVE  VersionInv'
<1>1. PICK l \in {"insert", "update"}, s \in UserRows, mail \in BOOLEAN, password \in BOOLEAN :
        Begin(p, u, l, s, mail, password) /\ Link(u, s, mail)
  BY DEF Begins
<1>2. UNCHANGED <<row, changes>>
  BY <1>1 DEF Begin
<1>3. ASSUME NEW x \in Users
      PROVE  changes[x] + Cardinality(Pending(x)') <= MaxChanges
  <2>1. CASE password /\ x = u
    <3>1. /\ ~req[p].password /\ req'[p].password = password /\ req'[p].user = u
          /\ \A q \in Procs \ {p} : req'[q] = req[q]
      BY <1>1, BeginsRequest
    <3>2. req'[p].password /\ req'[p].user = x
      BY <2>1, <3>1
    <3>3. Pending(x)' = Pending(x) \cup {p} /\ p \notin Pending(x)
      BY <3>1, <3>2 DEF Pending
    <3>4. Cardinality(Pending(x)') = Cardinality(Pending(x)) + 1
      BY <3>3, FS_AddElement, PendingFinite
    <3>5. changes[x] + Cardinality(Pending(x)) < MaxChanges
      BY <1>1, <2>1 DEF Begin, Room, Pending
    <3> QED BY <3>4, <3>5, PendingFinite, AccountsAssumption DEF TypeOK
  <2>2. CASE ~(password /\ x = u)
    <3>1. /\ ~req[p].password /\ req'[p].password = password /\ req'[p].user = u
          /\ \A q \in Procs \ {p} : req'[q] = req[q]
      BY <1>1, BeginsRequest
    <3>2. \A q \in Procs : req'[q].password /\ req'[q].user = x <=> req[q].password /\ req[q].user = x
      BY <2>2, <3>1
    <3>3. Pending(x)' = Pending(x)
      BY <3>2 DEF Pending
    <3> QED BY <3>3 DEF VersionInv
  <2> QED BY <2>1, <2>2
<1>4. ASSUME NEW q \in Procs, Busy(q)'
      PROVE  req'[q].saved.token_version <= changes[req'[q].user] + (IF req'[q].password THEN 1 ELSE 0)
  <2>1. CASE q = p
    <3>1. Registered(u) => row[u].token_version <= changes[u] /\ row[u].token_version \in 0..MaxChanges
      BY RowType DEF VersionInv, UserRows
    <3>2. changes[u] \in 0..MaxChanges
      BY DEF TypeOK
    <3>3. s.token_version <= changes[u] + (IF password THEN 1 ELSE 0)
      BY <1>1, <3>1, <3>2, AccountsAssumption DEF Begin
    <3> QED BY <1>1, <2>1, <3>3, BeginsRequest
  <2>2. CASE q # p
    <3>1. req'[q] = req[q] /\ Busy(q)
      BY <1>1, <1>4, <2>2, BeginsRequest DEF Busy, At
    <3> QED BY <3>1 DEF VersionInv
  <2> QED BY <2>1, <2>2
<1> QED BY <1>2, <1>3, <1>4 DEF VersionInv, Registered

LEMMA BeginsMade ==
    ASSUME TypeOK, RequestInv, MadeInv, NEW p \in Procs, NEW u \in Users, Begins(p, u)
    PROVE  MadeInv'
<1>1. PICK l \in {"insert", "update"}, s \in UserRows, mail \in BOOLEAN, password \in BOOLEAN :
        Begin(p, u, l, s, mail, password) /\ Link(u, s, mail)
  BY DEF Begins
<1>2. row' = row
  BY <1>1 DEF Begin
<1>3. made \in Nat /\ made' \in Nat /\ made <= made'
  BY <1>1, MakesToken DEF Link, KeepsLink, OpenedLink, MakesLink, TypeOK, NewToken
<1>4. ASSUME NEW t \in Tokens, t > made'
      PROVE  mailedTo'[t] = None
  <2>1. t \in Nat /\ t > made
    BY <1>3, <1>4 DEF Tokens
  <2>2. mailedTo[t] = None
    BY <2>1 DEF MadeInv
  <2>3. CASE MakesLink(s, mail)
    <3>1. t # Token
      BY <1>3, <1>4, <2>1, <2>3 DEF MakesLink, NewToken, Token
    <3> QED BY <2>2, <2>3, <3>1 DEF MakesLink
  <2> QED BY <1>1, <2>2, <2>3 DEF Link, KeepsLink, OpenedLink
<1>5. s.verification_token # None => s.verification_token <= made'
  <2>1. CASE MakesLink(s, mail)
    BY <1>3, <2>1 DEF MakesLink, NewToken, Token
  <2> QED BY <1>1, <1>2, <2>1 DEF Link, KeepsLink, OpenedLink, MadeInv
<1>6. ASSUME NEW r \in UserRows, r.verification_token # None, r.verification_token <= made
      PROVE  r.verification_token <= made'
  BY <1>3, <1>6 DEF UserRows, Tokens
<1>7. ASSUME NEW x \in Users, Registered(x)', row'[x].verification_token # None
      PROVE  row'[x].verification_token <= made'
  BY <1>2, <1>6, <1>7, RowType DEF MadeInv, Registered
<1>8. ASSUME NEW q \in Procs, Busy(q)', req'[q].saved.verification_token # None
      PROVE  req'[q].saved.verification_token <= made'
  <2>1. CASE q = p
    BY <1>1, <1>5, <1>8, <2>1, BeginsRequest
  <2>2. CASE q # p
    <3>1. req'[q] = req[q] /\ Busy(q)
      BY <1>1, <1>8, <2>2, BeginsRequest DEF Busy, At
    <3> QED BY <1>6, <1>8, <3>1 DEF MadeInv, RequestInv, Holds
  <2> QED BY <2>1, <2>2
<1> QED BY <1>4, <1>7, <1>8 DEF MadeInv

LEMMA BeginsMail ==
    ASSUME TypeOK, RequestInv, MadeInv, MailInv, NEW p \in Procs, NEW u \in Users, Begins(p, u)
    PROVE  MailInv'
<1>1. PICK l \in {"insert", "update"}, s \in UserRows, mail \in BOOLEAN, password \in BOOLEAN :
        Begin(p, u, l, s, mail, password) /\ Link(u, s, mail)
  BY DEF Begins
<1>2. PICK for \in [Tokens -> Addresses \cup {None}] :
        /\ \A t \in Tokens : mailedTo[t] # None => mailedTo[t] = for[t]
        /\ \A x \in Users : Registered(x) => Copy(for, x, row[x])
        /\ \A q \in Procs : Busy(q) => Copy(for, req[q].user, req[q].saved)
  BY DEF MailInv
<1>3. /\ row' = row
      /\ req'[p].user = u /\ req'[p].saved = s
      /\ \A q \in Procs \ {p} : req'[q] = req[q]
  BY <1>1, BeginsRequest DEF Begin
<1>4. proved \subseteq proved'
  BY <1>1 DEF Link, KeepsLink, OpenedLink, MakesLink
<1>5. SUFFICES \E g \in [Tokens -> Addresses \cup {None}] :
                 /\ \A t \in Tokens : mailedTo'[t] # None => mailedTo'[t] = g[t]
                 /\ Copy(g, u, s)'
                 /\ \A t \in Tokens : t <= made => g[t] = for[t]
  <2>1. PICK g \in [Tokens -> Addresses \cup {None}] :
          /\ \A t \in Tokens : mailedTo'[t] # None => mailedTo'[t] = g[t]
          /\ Copy(g, u, s)'
          /\ \A t \in Tokens : t <= made => g[t] = for[t]
    BY <1>5
  <2>2. ASSUME NEW x \in Users, NEW r \in UserRows, Copy(for, x, r),
               r.verification_token # None => r.verification_token <= made
        PROVE  Copy(g, x, r)'
    BY <1>4, <2>1, <2>2 DEF Copy, UserRows
  <2>3. ASSUME NEW x \in Users, Registered(x)'
        PROVE  Copy(g, x, row[x])'
    BY <1>2, <1>3, <2>2, <2>3, RowType DEF MadeInv, Registered, Copy
  <2>4. ASSUME NEW q \in Procs, Busy(q)'
        PROVE  Copy(g, req[q].user, req[q].saved)'
    <3>1. CASE q = p
      BY <1>3, <2>1, <3>1 DEF Copy
    <3>2. CASE q # p
      <4>1. req'[q] = req[q] /\ Busy(q)
        BY <1>3, <2>4, <3>2 DEF Busy, At
      <4>2. req[q].user \in Users /\ req[q].saved \in UserRows
        BY <4>1 DEF RequestInv, Holds
      <4> QED BY <1>2, <2>2, <4>1, <4>2 DEF MadeInv, Copy
    <3> QED BY <3>1, <3>2
  <2> QED BY <2>1, <2>3, <2>4 DEF MailInv
<1>6. CASE KeepsLink(u, s, mail)
  <2>1. Copy(for, u, s)'
    BY <1>2, <1>6 DEF KeepsLink, Copy
  <2> QED BY <1>2, <1>6, <2>1 DEF KeepsLink
<1>7. CASE OpenedLink(u, s, mail)
  <2>1. row[u].verification_token \in Tokens
    BY <1>7, RowType DEF OpenedLink, UserRows
  <2>2. mailedTo[row[u].verification_token] = row[u].email
    BY <1>2, <1>7, <2>1 DEF OpenedLink, Copy
  <2>3. Copy(for, u, s)'
    BY <1>7, <2>2 DEF OpenedLink, Copy
  <2> QED BY <1>2, <1>7, <2>3 DEF OpenedLink
<1>8. CASE MakesLink(s, mail)
  <2>1. Token \in Tokens /\ made \in Nat /\ s.email \in Addresses
    BY <1>8, MakesToken DEF MakesLink, UserRows
  <2>2. PICK g \in [Tokens -> Addresses \cup {None}] :
          g[Token] = s.email /\ \A t \in Tokens \ {Token} : g[t] = for[t]
    <3>1. [for EXCEPT ![Token] = s.email] \in [Tokens -> Addresses \cup {None}]
      BY <1>2, <2>1
    <3> QED BY <2>1, <3>1
  <2>3. Copy(g, u, s)'
    BY <1>8, <2>2 DEF MakesLink, Copy
  <2>4. ASSUME NEW t \in Tokens, t <= made
        PROVE  g[t] = for[t]
    BY <2>1, <2>2, <2>4 DEF Token
  <2>5. mailedTo[Token] = None
    BY <2>1 DEF MadeInv, Token
  <2>6. ASSUME NEW t \in Tokens, mailedTo'[t] # None
        PROVE  mailedTo'[t] = g[t]
    <3>1. CASE t = Token
      BY <1>8, <2>1, <2>2, <2>5, <2>6, <3>1 DEF MakesLink, TypeOK
    <3>2. CASE t # Token
      BY <1>2, <1>8, <2>2, <2>6, <3>2 DEF MakesLink, TypeOK
    <3> QED BY <3>1, <3>2
  <2> QED BY <2>3, <2>4, <2>6
<1> QED BY <1>1, <1>6, <1>7, <1>8 DEF Link

\* Links stay mailed.
LEMMA LinkedStays ==
    ASSUME NEW t \in Tokens, Linked(t),
           mailedTo[t] # None => mailedTo'[t] # None,
           \A q \in Procs : At(q, "mail") => At(q, "mail")' /\ req'[q].saved = req[q].saved
    PROVE  Linked(t)'
BY DEF Linked

LEMMA BeginsLink ==
    ASSUME TypeOK, RequestInv, LinkInv, NEW p \in Procs, NEW u \in Users, Begins(p, u)
    PROVE  LinkInv'
<1>1. PICK l \in {"insert", "update"}, s \in UserRows, mail \in BOOLEAN, password \in BOOLEAN :
        Begin(p, u, l, s, mail, password) /\ Link(u, s, mail)
  BY DEF Begins
<1>2. /\ row' = row
      /\ ~Busy(p) /\ req'[p].pc = l /\ req'[p].saved = s /\ req'[p].mail = mail
      /\ \A q \in Procs \ {p} : req'[q] = req[q]
  BY <1>1, BeginsRequest DEF Begin
<1>3. \A q \in Procs : At(q, "mail") => At(q, "mail")' /\ req'[q].saved = req[q].saved
  BY <1>2 DEF Busy, At
<1>4. s.email \in Addresses /\ s.email # None
  BY AccountsAssumption DEF UserRows
<1>5. ASSUME NEW t \in Tokens, mailedTo[t] # None
      PROVE  mailedTo'[t] # None
  BY <1>1, <1>4, <1>5 DEF Link, KeepsLink, OpenedLink, MakesLink, TypeOK
<1>6. ASSUME NEW t \in Tokens \cup {None}, Linked(t)
      PROVE  Linked(t)'
  <2>1. t \in Tokens
    BY <1>6 DEF Linked
  <2> QED BY <1>3, <1>5, <1>6, <2>1, LinkedStays
<1>7. ASSUME NEW x \in Users
      PROVE  LinkedRow(x)'
  <2> SUFFICES ASSUME Registered(x), ~row[x].email_verified
               PROVE  LinkedRow(x)'
    BY <1>2 DEF LinkedRow, Registered
  <2>1. PICK t \in Tokens \cup {None} : t = row[x].verification_token
    BY RowType DEF UserRows
  <2>2. Linked(t)
    BY <2>1 DEF LinkInv, LinkedRow
  <2>3. Linked(t)'
    BY <1>6, <2>2
  <2> QED BY <1>2, <2>1, <2>3 DEF LinkedRow, Linked
<1>8. ASSUME NEW q \in Procs \ {p}
      PROVE  LinkedCopy(q)'
  <2>1. req'[q] = req[q] /\ (Busy(q) <=> Busy(q)') /\ (At(q, "mail") <=> At(q, "mail")')
    BY <1>2 DEF Busy, At
  <2>2. CASE Busy(q) /\ ~At(q, "mail") /\ ~req[q].saved.email_verified /\ ~req[q].mail
    <3>1. PICK t \in Tokens \cup {None} : t = req[q].saved.verification_token
      BY <2>2 DEF RequestInv, Holds, UserRows
    <3>2. Linked(t)
      BY <2>2, <3>1 DEF LinkInv, LinkedCopy
    <3>3. Linked(t)'
      BY <1>6, <3>2
    <3> QED BY <2>1, <3>1, <3>3 DEF LinkedCopy, Linked
  <2> QED BY <2>1, <2>2 DEF LinkInv, LinkedCopy
<1>9. LinkedCopy(p)'
  <2>1. CASE KeepsLink(u, s, mail)
    <3>1. PICK t \in Tokens \cup {None} : t = row[u].verification_token
      BY <2>1, RowType DEF KeepsLink, UserRows
    <3>2. ~s.email_verified => Linked(t)
      BY <2>1, <3>1 DEF KeepsLink, LinkInv, LinkedRow
    <3>3. ~s.email_verified => Linked(t)'
      BY <1>6, <3>2
    <3> QED BY <1>2, <2>1, <3>1, <3>3 DEF KeepsLink, LinkedCopy, Linked
  <2>2. CASE OpenedLink(u, s, mail)
    BY <1>2, <2>2 DEF OpenedLink, LinkedCopy
  <2>3. CASE MakesLink(s, mail)
    <3>1. Token \in Tokens /\ Token # None
      BY <2>3, MakesToken, AccountsAssumption DEF MakesLink, Tokens
    <3>2. ~mail => mailedTo'[Token] # None
      BY <1>4, <2>3, <3>1 DEF MakesLink, TypeOK
    <3>3. PICK t \in Tokens : t = Token
      BY <3>1
    <3>4. ~mail => Linked(t)'
      BY <3>1, <3>2, <3>3 DEF Linked, MakesLink
    <3> QED BY <1>2, <2>3, <3>1, <3>3, <3>4 DEF MakesLink, LinkedCopy, Linked
  <2> QED BY <1>1, <2>1, <2>2, <2>3 DEF Link
<1> QED BY <1>7, <1>8, <1>9 DEF LinkInv

LEMMA BeginsSerial ==
    ASSUME TypeOK, RequestInv, SerialInv, NEW p \in Procs, NEW u \in Users, Begins(p, u)
    PROVE  SerialInv'
<1>1. PICK l \in {"insert", "update"}, s \in UserRows, mail \in BOOLEAN, password \in BOOLEAN :
        Begin(p, u, l, s, mail, password) /\ Link(u, s, mail)
  BY DEF Begins
<1>2. /\ UNCHANGED <<row, session, changes>>
      /\ req'[p].pc = l /\ req'[p].user = u /\ req'[p].saved = s /\ req'[p].password = password
      /\ \A q \in Procs \ {p} : req'[q] = req[q]
      /\ clean' = (clean /\ AllIdle)
  BY <1>1, BeginsRequest DEF Begin
<1> SUFFICES ASSUME clean, AllIdle
             PROVE  SerialInv'
  BY <1>2 DEF SerialInv
<1>3. \A q \in Procs \ {p} : ~Busy(q)' /\ ~At(q, "insert")' /\ ~At(q, "update")'
  BY <1>2 DEF AllIdle, Busy, At
<1>4. \A x \in Users : changes[x] = IF Registered(x) THEN row[x].token_version ELSE 0
  BY DEF SerialInv
<1>5. /\ l = "insert" => ~Registered(u) /\ s.token_version = 0
      /\ l = "update" => /\ Registered(u)
                         /\ s.token_version = IF password THEN row[u].token_version + 1
                                                          ELSE row[u].token_version
  BY <1>1 DEF Begin
<1>6. row[u].token_version \in Nat \/ ~Registered(u)
  BY RowType, AccountsAssumption DEF UserRows
<1>7. At(p, "insert")' => ~Registered(req[p].user)' /\ req'[p].saved.token_version = 0
  BY <1>2, <1>5 DEF At, Registered
<1>8. At(p, "update")' =>
        req'[p].saved.token_version = changes'[req'[p].user] + (IF req'[p].password THEN 1 ELSE 0)
  BY <1>2, <1>4, <1>5, <1>6 DEF At
<1>9. session' # None => session'.version = session'.epoch
  BY <1>2 DEF SerialInv
<1> QED BY <1>2, <1>3, <1>4, <1>7, <1>8, <1>9 DEF SerialInv, Registered

-----------------------------------------------------------------------------
(***************************************************************************)
(* So does a request that writes its copy.                                 *)
(***************************************************************************)

Writes(p) ==
    /\ req[p].pc \in {"insert", "update"}
    /\ row' = [row EXCEPT ![req[p].user] = req[p].saved]
    /\ changes' = IF req[p].password THEN [changes EXCEPT ![req[p].user] = @ + 1] ELSE changes
    /\ \/ req'[p] = Idle /\ ~req[p].mail
       \/ req'[p] = [req[p] EXCEPT !.pc = "mail"] /\ ~req[p].password
    /\ req' \in [Procs -> {req'[q] : q \in Procs}]
    /\ \A q \in Procs \ {p} : req'[q] = req[q]
    /\ UNCHANGED <<made, mailedTo, session, proved, clean>>

LEMMA StepWrites ==
    ASSUME TypeOK, RequestInv, NEW p \in Procs, CreateUser(p) \/ UpdateUser(p)
    PROVE  Writes(p)
<1>1. p \in DOMAIN req /\ DOMAIN req = Procs
  BY DEF TypeOK
<1>2. CASE CreateUser(p)
  <2>1. ~req[p].password
    BY <1>2 DEF CreateUser, RequestInv, Holds, Busy, At
  <2>2. req' = [req EXCEPT ![p] = [req[p] EXCEPT !.pc = "mail"]]
    BY <1>2 DEF CreateUser, Becomes
  <2> QED BY <1>1, <1>2, <2>1, <2>2 DEF CreateUser, Writes, At
<1>3. CASE UpdateUser(p)
  <2>1. req[p].password => ~req[p].mail
    BY <1>3 DEF UpdateUser, RequestInv, Holds, Busy, At
  <2>2. req' = [req EXCEPT ![p] = IF req[p].mail THEN [req[p] EXCEPT !.pc = "mail"] ELSE Idle]
    BY <1>3 DEF UpdateUser, Becomes
  <2>3. \/ req'[p] = Idle /\ ~req[p].mail
        \/ req'[p] = [req[p] EXCEPT !.pc = "mail"] /\ ~req[p].password
    BY <1>1, <2>1, <2>2
  <2>4. req' \in [Procs -> {req'[q] : q \in Procs}] /\ \A q \in Procs \ {p} : req'[q] = req[q]
    BY <1>1, <2>2
  <2> QED BY <1>3, <2>3, <2>4 DEF UpdateUser, Writes, At
<1> QED BY <1>2, <1>3

\* What the others hold is not touched.
LEMMA WritesOthers ==
    ASSUME TypeOK, RequestInv, NEW p \in Procs, Writes(p)
    PROVE  /\ req[p].user \in Users /\ req[p].saved \in UserRows /\ Busy(p)
           /\ \A x \in Users \ {req[p].user} : row'[x] = row[x] /\ changes'[x] = changes[x]
           /\ row'[req[p].user] = req[p].saved
           /\ changes'[req[p].user] =
                 IF req[p].password THEN changes[req[p].user] + 1 ELSE changes[req[p].user]
           /\ \A x \in Users : Registered(x) => Registered(x)'
           /\ \A q \in Procs : At(q, "mail") => At(q, "mail")' /\ req'[q].saved = req[q].saved
           /\ Busy(p)' => /\ req'[p].user = req[p].user /\ req'[p].saved = req[p].saved
                          /\ At(p, "mail")' /\ ~req[p].password
           /\ ~req'[p].password
           /\ ~Busy(p)' => req'[p] = Idle
<1>1. /\ req[p].user \in Users /\ req[p].saved \in UserRows /\ Busy(p) /\ ~At(p, "mail")
  BY DEF Writes, RequestInv, Holds, Busy, At
<1>2. row \in [Users -> UserRows \cup {None}] /\ changes \in [Users -> 0..MaxChanges]
  BY DEF TypeOK
<1>3. \A x \in Users \ {req[p].user} : row'[x] = row[x] /\ changes'[x] = changes[x]
  BY <1>1, <1>2 DEF Writes
<1>4. row'[req[p].user] = req[p].saved
  BY <1>1, <1>2 DEF Writes
<1>5. changes'[req[p].user] =
        IF req[p].password THEN changes[req[p].user] + 1 ELSE changes[req[p].user]
  BY <1>1, <1>2 DEF Writes
<1>6. \A x \in Users : Registered(x) => Registered(x)'
  BY <1>1, <1>3, <1>4, NoRow DEF Registered
<1>7. \A q \in Procs : At(q, "mail") => At(q, "mail")' /\ req'[q].saved = req[q].saved
  BY <1>1 DEF Writes, At
<1>8. /\ Busy(p)' => /\ req'[p].user = req[p].user /\ req'[p].saved = req[p].saved
                     /\ At(p, "mail")' /\ ~req[p].password
      /\ ~req'[p].password
      /\ ~Busy(p)' => req'[p] = Idle
  <2>1. req[p] \in [pc : {"idle", "insert", "update", "mail"}, user : Users \cup {None},
                    saved : UserRows \cup {None}, mail : BOOLEAN, password : BOOLEAN]
    BY DEF TypeOK
  <2> QED BY <2>1 DEF Writes, Busy, At, Idle
<1> QED BY <1>1, <1>3, <1>4, <1>5, <1>6, <1>7, <1>8

\* A write may raise a counter for which there is room.
LEMMA WritesVersion ==
    ASSUME TypeOK, RequestInv, VersionInv, NEW p \in Procs, Writes(p)
    PROVE  VersionInv' /\ changes' \in [Users -> 0..MaxChanges]
<1> DEFINE u == req[p].user
<1>1. u \in Users /\ req[p].saved.token_version \in 0..MaxChanges
  BY WritesOthers DEF UserRows
<1>2. changes \in [Users -> 0..MaxChanges]
  BY DEF TypeOK
<1>3. ASSUME NEW x \in Users
      PROVE  /\ changes'[x] \in 0..MaxChanges /\ changes[x] <= changes'[x]
             /\ changes'[x] + Cardinality(Pending(x)') <= MaxChanges
  <2>1. /\ changes[x] \in Nat /\ changes[x] + Cardinality(Pending(x)) <= MaxChanges
        /\ Cardinality(Pending(x)) \in Nat
    BY <1>2, PendingFinite, AccountsAssumption DEF VersionInv
  <2>2. ~req'[p].password
    BY WritesOthers
  <2>3. CASE req[p].password /\ x = u
    <3>1. Pending(x)' = Pending(x) \ {p} /\ p \in Pending(x)
      BY <2>2, <2>3 DEF Pending, Writes
    <3>2. /\ Cardinality(Pending(x)') = Cardinality(Pending(x)) - 1
          /\ Cardinality(Pending(x)') \in Nat
      BY <3>1, FS_RemoveElement, FS_CardinalityType, PendingFinite
    <3>3. changes'[x] = changes[x] + 1
      BY <2>3, WritesOthers
    <3> QED BY <2>1, <3>2, <3>3, AccountsAssumption
  <2>4. CASE ~(req[p].password /\ x = u)
    <3>1. \A q \in Procs : req'[q].password /\ req'[q].user = x <=> req[q].password /\ req[q].user = x
      BY <2>2, <2>4 DEF Writes
    <3>2. Pending(x)' = Pending(x)
      BY <3>1 DEF Pending
    <3>3. changes'[x] = changes[x]
      BY <2>4, WritesOthers
    <3> QED BY <1>2, <2>1, <3>2, <3>3
  <2> QED BY <2>3, <2>4
<1>4. changes' \in [Users -> 0..MaxChanges]
  BY <1>1, <1>2, <1>3 DEF Writes
<1>5. req[p].saved.token_version <= changes'[u]
  BY <1>1, <1>2, WritesOthers, AccountsAssumption DEF VersionInv
<1>6. ASSUME NEW x \in Users, Registered(x)'
      PROVE  row'[x].token_version <= changes'[x]
  <2>1. CASE x = u
    BY <1>5, <2>1, WritesOthers
  <2>2. CASE x # u
    BY <1>6, <2>2, WritesOthers DEF VersionInv, Registered
  <2> QED BY <2>1, <2>2
<1>7. ASSUME NEW q \in Procs, Busy(q)'
      PROVE  req'[q].saved.token_version <= changes'[req'[q].user] + (IF req'[q].password THEN 1 ELSE 0)
  <2>1. CASE q = p
    BY <1>1, <1>3, <1>5, <1>7, <2>1, WritesOthers
  <2>2. CASE q # p
    <3>1. req'[q] = req[q] /\ Busy(q)
      BY <1>7, <2>2 DEF Writes, Busy, At
    <3>2. req[q].user \in Users /\ req[q].saved.token_version \in 0..MaxChanges
      BY <3>1 DEF RequestInv, Holds, UserRows
    <3>3. req[q].saved.token_version <= changes[req[q].user] + (IF req[q].password THEN 1 ELSE 0)
      BY <3>1 DEF VersionInv
    <3>4. changes[req[q].user] <= changes'[req[q].user]
      BY <1>3, <3>2
    <3>5. changes[req[q].user] \in Int /\ changes'[req[q].user] \in Int
      BY <1>2, <1>4, <3>2
    <3> QED BY <3>1, <3>2, <3>3, <3>4, <3>5
  <2> QED BY <2>1, <2>2
<1> QED BY <1>3, <1>4, <1>6, <1>7 DEF VersionInv

LEMMA WritesType ==
    ASSUME TypeOK, RequestInv, VersionInv, NEW p \in Procs, Writes(p)
    PROVE  TypeOK' /\ RequestInv'
<1>1. changes' \in [Users -> 0..MaxChanges]
  BY WritesVersion
<1>2. row' \in [Users -> UserRows \cup {None}]
  BY WritesOthers DEF Writes, TypeOK
<1>3. ASSUME NEW q \in Procs
      PROVE  req'[q] \in [pc : {"idle", "insert", "update", "mail"}, user : Users \cup {None},
                          saved : UserRows \cup {None}, mail : BOOLEAN, password : BOOLEAN]
  <2>1. req[q] \in [pc : {"idle", "insert", "update", "mail"}, user : Users \cup {None},
                    saved : UserRows \cup {None}, mail : BOOLEAN, password : BOOLEAN]
    BY DEF TypeOK
  <2>2. CASE q = p /\ req'[p] = Idle
    BY <2>2 DEF Idle
  <2>3. CASE q = p /\ req'[p] = [req[p] EXCEPT !.pc = "mail"]
    BY <2>1, <2>3
  <2> QED BY <2>1, <2>2, <2>3 DEF Writes
<1>4. req' \in [Procs -> [pc : {"idle", "insert", "update", "mail"}, user : Users \cup {None},
                        saved : UserRows \cup {None}, mail : BOOLEAN, password : BOOLEAN]]
  BY <1>3 DEF Writes
<1>5. TypeOK'
  BY <1>1, <1>2, <1>4 DEF Writes, TypeOK
<1>6. ASSUME NEW q \in Procs
      PROVE  Holds(q)'
  <2>1. CASE q = p
    BY <2>1, WritesOthers DEF Holds, Busy, At
  <2>2. CASE q # p
    <3>1. req'[q] = req[q] /\ Holds(q)
      BY <2>2 DEF Writes, RequestInv
    <3>2. At(q, "update") => Registered(req[q].user) /\ req[q].user \in Users
      BY <3>1 DEF Holds, Busy, At
    <3>3. At(q, "update") => row'[req[q].user] # None
      BY <3>2, WritesOthers DEF Registered
    <3> QED BY <3>1, <3>3 DEF Holds, Busy, At, Registered
  <2> QED BY <2>1, <2>2
<1> QED BY <1>5, <1>6 DEF RequestInv

LEMMA WritesMade ==
    ASSUME TypeOK, RequestInv, MadeInv, NEW p \in Procs, Writes(p)
    PROVE  MadeInv'
<1>1. ASSUME NEW x \in Users, Registered(x)', row'[x].verification_token # None
      PROVE  row'[x].verification_token <= made
  BY <1>1, WritesOthers DEF MadeInv, Registered
<1>2. ASSUME NEW q \in Procs, Busy(q)', req'[q].saved.verification_token # None
      PROVE  req'[q].saved.verification_token <= made
  <2>1. Busy(q) /\ req'[q].saved = req[q].saved
    BY <1>2, WritesOthers DEF Writes, Busy, At
  <2> QED BY <1>2, <2>1 DEF MadeInv
<1>3. made' = made /\ mailedTo' = mailedTo
  BY DEF Writes
<1> QED BY <1>1, <1>2, <1>3 DEF MadeInv

LEMMA WritesMail ==
    ASSUME TypeOK, RequestInv, MailInv, NEW p \in Procs, Writes(p)
    PROVE  MailInv'
<1>1. PICK for \in [Tokens -> Addresses \cup {None}] :
        /\ \A t \in Tokens : mailedTo[t] # None => mailedTo[t] = for[t]
        /\ \A x \in Users : Registered(x) => Copy(for, x, row[x])
        /\ \A q \in Procs : Busy(q) => Copy(for, req[q].user, req[q].saved)
  BY DEF MailInv
<1>2. mailedTo' = mailedTo /\ proved' = proved
  BY DEF Writes
<1>3. ASSUME NEW x \in Users, Registered(x)'
      PROVE  Copy(for, x, row[x])'
  <2>1. CASE x = req[p].user
    <3>1. Copy(for, x, req[p].saved) /\ row'[x] = req[p].saved
      BY <1>1, <2>1, WritesOthers
    <3> QED BY <1>2, <3>1 DEF Copy
  <2>2. CASE x # req[p].user
    <3>1. row'[x] = row[x]
      BY <2>2, WritesOthers
    <3> QED BY <1>1, <1>2, <1>3, <3>1 DEF Copy, Registered
  <2> QED BY <2>1, <2>2
<1>4. ASSUME NEW q \in Procs, Busy(q)'
      PROVE  Copy(for, req[q].user, req[q].saved)'
  <2>1. Busy(q) /\ req'[q].saved = req[q].saved /\ req'[q].user = req[q].user
    BY <1>4, WritesOthers DEF Writes, Busy, At
  <2> QED BY <1>1, <1>2, <2>1 DEF Copy
<1>5. \A t \in Tokens : mailedTo'[t] # None => mailedTo'[t] = for[t]
  BY <1>1, <1>2
<1> QED BY <1>3, <1>4, <1>5 DEF MailInv

\* The row of a user that was not verified, after p wrote its copy.
LEMMA WritesLink ==
    ASSUME TypeOK, RequestInv, LinkInv, NEW p \in Procs, Writes(p)
    PROVE  LinkInv'
<1> PICK u \in Users : u = req[p].user
  BY WritesOthers
<1>1. ASSUME NEW t \in Tokens \cup {None}, Linked(t)
      PROVE  Linked(t)'
  <2>1. t \in Tokens /\ mailedTo' = mailedTo
    BY <1>1 DEF Linked, Writes
  <2> QED BY <1>1, <2>1, LinkedStays, WritesOthers
<1>2. ASSUME NEW x \in Users, x # u
      PROVE  LinkedRow(x)'
  <2>1. row'[x] = row[x]
    BY <1>2, WritesOthers
  <2>2. CASE Registered(x) /\ ~row[x].email_verified
    <3>1. PICK t \in Tokens \cup {None} : t = row[x].verification_token
      BY <2>2, RowType DEF UserRows
    <3>2. Linked(t)'
      BY <1>1, <2>2, <3>1 DEF LinkInv, LinkedRow
    <3> QED BY <2>1, <3>1, <3>2 DEF LinkedRow, Linked
  <2> QED BY <2>1, <2>2 DEF LinkedRow, Registered
<1>3. LinkedRow(u)'
  <2>1. row'[u] = req[p].saved /\ Busy(p) /\ ~At(p, "mail") /\ LinkedCopy(p)
    BY WritesOthers DEF Writes, LinkInv, At
  <2>2. PICK t \in Tokens \cup {None} : t = req[p].saved.verification_token
    BY WritesOthers DEF UserRows
  <2>3. CASE ~req[p].saved.email_verified /\ req[p].mail
    <3>1. t # None
      BY <2>1, <2>2, <2>3 DEF LinkedCopy
    <3>2. Busy(p)' => At(p, "mail")' /\ req'[p].saved = req[p].saved
      BY WritesOthers
    <3>3. req'[p] = [req[p] EXCEPT !.pc = "mail"]
      BY <2>3 DEF Writes
    <3>4. Busy(p)'
      BY <3>3 DEF Busy, At, TypeOK
    <3>5. At(p, "mail")' /\ req'[p].saved.verification_token = t
      BY <2>2, <3>2, <3>4
    <3>6. Linked(t)'
      BY <3>1, <3>5 DEF Linked
    <3> QED BY <2>1, <2>2, <3>6 DEF LinkedRow, Linked
  <2>4. CASE ~req[p].saved.email_verified /\ ~req[p].mail
    <3>1. Linked(t)'
      BY <1>1, <2>1, <2>2, <2>4 DEF LinkedCopy
    <3> QED BY <2>1, <2>2, <3>1 DEF LinkedRow, Linked
  <2> QED BY <2>1, <2>3, <2>4 DEF LinkedRow
<1>4. ASSUME NEW q \in Procs
      PROVE  LinkedCopy(q)'
  <2>1. CASE q = p
    BY <2>1, WritesOthers DEF LinkedCopy
  <2>2. CASE q # p
    <3>1. req'[q] = req[q] /\ (Busy(q) <=> Busy(q)') /\ (At(q, "mail") <=> At(q, "mail")')
      BY <2>2 DEF Writes, Busy, At
    <3>2. CASE Busy(q) /\ ~At(q, "mail") /\ ~req[q].saved.email_verified /\ ~req[q].mail
      <4>1. PICK t \in Tokens \cup {None} : t = req[q].saved.verification_token
        BY <3>2 DEF RequestInv, Holds, UserRows
      <4>2. Linked(t)'
        BY <1>1, <3>2, <4>1 DEF LinkInv, LinkedCopy
      <4> QED BY <3>1, <4>1, <4>2 DEF LinkedCopy, Linked
    <3> QED BY <3>1, <3>2 DEF LinkInv, LinkedCopy
  <2> QED BY <2>1, <2>2
<1> QED BY <1>2, <1>3, <1>4 DEF LinkInv

LEMMA WritesSerial ==
    ASSUME TypeOK, RequestInv, SerialInv, NEW p \in Procs, Writes(p)
    PROVE  SerialInv'
<1> SUFFICES ASSUME clean PROVE SerialInv'
  BY DEF Writes, SerialInv
<1> PICK u \in Users : u = req[p].user
  BY WritesOthers
<1>1. \A q \in Procs \ {p} : ~Busy(q)' /\ ~At(q, "insert")' /\ ~At(q, "update")'
  BY WritesOthers DEF SerialInv, Writes, Busy, At
<1>2. ~At(p, "insert")' /\ ~At(p, "update")'
  BY WritesOthers DEF Busy, At
<1>3. changes[u] = (IF Registered(u) THEN row[u].token_version ELSE 0) /\ changes[u] \in Nat
  BY WritesOthers, AccountsAssumption DEF SerialInv, TypeOK
<1>4. changes'[u] = row'[u].token_version
  <2>1. CASE At(p, "insert")
    BY <1>3, <2>1, WritesOthers DEF SerialInv, RequestInv, Holds, At
  <2>2. CASE At(p, "update")
    BY <1>3, <2>2, WritesOthers DEF SerialInv
  <2> QED BY <2>1, <2>2 DEF Writes, At
<1>5. Registered(u)'
  BY WritesOthers, NoRow DEF Registered
<1>6. ASSUME NEW x \in Users
      PROVE  changes'[x] = IF Registered(x)' THEN row'[x].token_version ELSE 0
  <2>1. CASE x = u
    BY <1>4, <1>5, <2>1
  <2>2. CASE x # u
    BY <2>2, WritesOthers DEF SerialInv, Registered
  <2> QED BY <2>1, <2>2
<1>7. session' # None => session'.version = session'.epoch
  BY DEF Writes, SerialInv
<1> QED BY <1>1, <1>2, <1>6, <1>7 DEF SerialInv

-----------------------------------------------------------------------------
(***************************************************************************)
(* And one that fails, mails its link, or a login.                         *)
(***************************************************************************)

\* A request ends; at most its link has been mailed.
Ends(p) ==
    /\ Busy(p) /\ Becomes(p, Idle)
    /\ \/ ~At(p, "mail") /\ mailedTo' = mailedTo
       \/ /\ At(p, "mail")
          /\ mailedTo' = [mailedTo EXCEPT ![req[p].saved.verification_token] = req[p].saved.email]
    /\ UNCHANGED <<row, made, session, changes, proved, clean>>

LEMMA StepEnds ==
    ASSUME NEW p \in Procs, WriteFails(p) \/ SendVerificationEmail(p)
    PROVE  Ends(p)
BY DEF WriteFails, SendVerificationEmail, Ends, Busy, At

LEMMA EndsRequest ==
    ASSUME TypeOK, RequestInv, NEW p \in Procs, Ends(p)
    PROVE  /\ req[p].user \in Users /\ req[p].saved \in UserRows
           /\ req[p].saved.email \in Addresses /\ req[p].saved.email # None
           /\ req'[p] = Idle /\ ~Busy(p)'
           /\ \A q \in Procs \ {p} : req'[q] = req[q]
           /\ \A q \in Procs : Busy(q)' => q # p /\ req'[q] = req[q] /\ Busy(q)
<1>1. req[p].user \in Users /\ req[p].saved \in UserRows
  BY DEF Ends, RequestInv, Holds
<1>2. req[p].saved.email \in Addresses /\ req[p].saved.email # None
  BY <1>1, AccountsAssumption DEF UserRows
<1>3. req'[p] = Idle /\ \A q \in Procs \ {p} : req'[q] = req[q]
  BY DEF Ends, Becomes, TypeOK
<1>4. ~Busy(p)'
  BY <1>3 DEF Busy, At, Idle
<1> QED BY <1>1, <1>2, <1>3, <1>4 DEF Busy, At

LEMMA EndsInv ==
    ASSUME IInv, NEW p \in Procs, Ends(p)
    PROVE  TypeOK' /\ RequestInv' /\ VersionInv' /\ MadeInv' /\ SerialInv'
<1>1. /\ TypeOK /\ RequestInv /\ VersionInv /\ MadeInv /\ SerialInv
      /\ UNCHANGED <<row, made, session, changes, proved, clean>>
  BY DEF IInv, Ends
<1>2. TypeOK'
  <2>1. mailedTo' \in [Tokens -> Addresses \cup {None}]
    BY <1>1, EndsRequest DEF Ends, TypeOK
  <2>2. Idle \in [pc : {"idle", "insert", "update", "mail"}, user : Users \cup {None},
                  saved : UserRows \cup {None}, mail : BOOLEAN, password : BOOLEAN]
    BY DEF Idle
  <2> QED BY <1>1, <2>1, <2>2 DEF Ends, Becomes, TypeOK
<1>3. RequestInv'
  <2> SUFFICES ASSUME NEW q \in Procs PROVE Holds(q)'
    BY DEF RequestInv
  <2>1. CASE q = p
    BY <1>1, <2>1, EndsRequest DEF Holds
  <2>2. CASE q # p
    BY <1>1, <2>2, EndsRequest DEF Holds, RequestInv, Busy, At, Registered
  <2> QED BY <2>1, <2>2
<1>4. VersionInv'
  <2>1. ASSUME NEW x \in Users
        PROVE  changes'[x] + Cardinality(Pending(x)') <= MaxChanges
    <3>1. Pending(x)' \subseteq Pending(x)
      BY <1>1, EndsRequest DEF Pending, Idle
    <3>2. Cardinality(Pending(x)') <= Cardinality(Pending(x)) /\ Cardinality(Pending(x)') \in Nat
      BY <3>1, FS_Subset, FS_CardinalityType, PendingFinite
    <3>3. changes[x] \in 0..MaxChanges /\ changes[x] + Cardinality(Pending(x)) <= MaxChanges
      BY <1>1 DEF TypeOK, VersionInv
    <3> QED BY <1>1, <3>2, <3>3, PendingFinite, AccountsAssumption
  <2>2. ASSUME NEW q \in Procs, Busy(q)'
        PROVE  req'[q].saved.token_version
                  <= changes'[req'[q].user] + (IF req'[q].password THEN 1 ELSE 0)
    BY <1>1, <2>2, EndsRequest DEF VersionInv
  <2> QED BY <1>1, <2>1, <2>2 DEF VersionInv, Registered
<1>5. MadeInv'
  <2>1. ASSUME NEW t \in Tokens, t > made
        PROVE  mailedTo'[t] = None
    <3>1. t # req[p].saved.verification_token
      BY <1>1, <2>1, AccountsAssumption DEF MadeInv, Ends, Tokens, TypeOK
    <3> QED BY <1>1, <2>1, <3>1 DEF Ends, MadeInv, TypeOK
  <2>2. ASSUME NEW q \in Procs, Busy(q)', req'[q].saved.verification_token # None
        PROVE  req'[q].saved.verification_token <= made
    BY <1>1, <2>2, EndsRequest DEF MadeInv
  <2> QED BY <1>1, <2>1, <2>2 DEF MadeInv, Registered
<1>6. SerialInv'
  BY <1>1, EndsRequest DEF SerialInv, Busy, At, Registered
<1> QED BY <1>2, <1>3, <1>4, <1>5, <1>6

LEMMA EndsMail ==
    ASSUME TypeOK, RequestInv, MailInv, NEW p \in Procs, Ends(p)
    PROVE  MailInv'
<1>1. PICK for \in [Tokens -> Addresses \cup {None}] :
        /\ \A t \in Tokens : mailedTo[t] # None => mailedTo[t] = for[t]
        /\ \A x \in Users : Registered(x) => Copy(for, x, row[x])
        /\ \A q \in Procs : Busy(q) => Copy(for, req[q].user, req[q].saved)
  BY DEF MailInv
<1>2. UNCHANGED <<row, proved>>
  BY DEF Ends
<1>3. ASSUME NEW t \in Tokens, mailedTo'[t] # None
      PROVE  mailedTo'[t] = for[t]
  <2>1. CASE At(p, "mail") /\ t = req[p].saved.verification_token
    <3>1. t # None
      BY AccountsAssumption DEF Tokens
    <3>2. for[t] = req[p].saved.email
      BY <1>1, <2>1, <3>1 DEF Copy, Ends
    <3> QED BY <2>1, <3>2 DEF Ends, TypeOK
  <2>2. CASE ~(At(p, "mail") /\ t = req[p].saved.verification_token)
    BY <1>1, <1>3, <2>2 DEF Ends, TypeOK
  <2> QED BY <2>1, <2>2
<1>4. ASSUME NEW x \in Users, Registered(x)'
      PROVE  Copy(for, x, row[x])'
  BY <1>1, <1>2, <1>4 DEF Copy, Registered
<1>5. ASSUME NEW q \in Procs, Busy(q)'
      PROVE  Copy(for, req[q].user, req[q].saved)'
  <2>1. Busy(q) /\ req'[q] = req[q]
    BY <1>5, EndsRequest
  <2> QED BY <1>1, <1>2, <2>1 DEF Copy
<1> QED BY <1>3, <1>4, <1>5 DEF MailInv

LEMMA EndsLink ==
    ASSUME TypeOK, RequestInv, LinkInv, NEW p \in Procs, Ends(p)
    PROVE  LinkInv'
<1>1. ASSUME NEW t \in Tokens \cup {None}, Linked(t)
      PROVE  Linked(t)'
  <2>1. t \in Tokens /\ t # None
    BY <1>1 DEF Linked
  <2>2. mailedTo[t] # None => mailedTo'[t] # None
    BY <2>1, EndsRequest DEF Ends, TypeOK
  <2>3. CASE \E q \in Procs \ {p} : At(q, "mail") /\ req[q].saved.verification_token = t
    BY <2>1, <2>3, EndsRequest DEF Linked, At
  <2>4. CASE At(p, "mail") /\ req[p].saved.verification_token = t
    BY <2>1, <2>4, EndsRequest DEF Linked, Ends, TypeOK
  <2> QED BY <1>1, <2>1, <2>2, <2>3, <2>4 DEF Linked
<1>2. row' = row
  BY DEF Ends
<1>3. ASSUME NEW x \in Users
      PROVE  LinkedRow(x)'
  <2>1. CASE Registered(x) /\ ~row[x].email_verified
    <3>1. PICK t \in Tokens \cup {None} : t = row[x].verification_token
      BY <2>1, RowType DEF UserRows
    <3>2. Linked(t)'
      BY <1>1, <2>1, <3>1 DEF LinkInv, LinkedRow
    <3> QED BY <1>2, <3>1, <3>2 DEF LinkedRow, Linked
  <2> QED BY <1>2, <2>1 DEF LinkedRow, Registered
<1>4. ASSUME NEW q \in Procs
      PROVE  LinkedCopy(q)'
  <2>1. CASE q = p
    BY <2>1, EndsRequest DEF LinkedCopy
  <2>2. CASE q # p
    <3>1. req'[q] = req[q] /\ (Busy(q) <=> Busy(q)') /\ (At(q, "mail") <=> At(q, "mail")')
      BY <2>2, EndsRequest DEF Busy, At
    <3>2. CASE Busy(q) /\ ~At(q, "mail") /\ ~req[q].saved.email_verified /\ ~req[q].mail
      <4>1. PICK t \in Tokens \cup {None} : t = req[q].saved.verification_token
        BY <3>2 DEF RequestInv, Holds, UserRows
      <4>2. Linked(t)'
        BY <1>1, <3>2, <4>1 DEF LinkInv, LinkedCopy
      <4> QED BY <3>1, <4>1, <4>2 DEF LinkedCopy, Linked
    <3> QED BY <3>1, <3>2 DEF LinkInv, LinkedCopy
  <2> QED BY <2>1, <2>2
<1> QED BY <1>3, <1>4 DEF LinkInv

LEMMA LoginInv ==
    ASSUME IInv, NEW u \in Users, Login(u)
    PROVE  IInv'
<1>1. UNCHANGED <<row, made, mailedTo, req, changes, proved, clean>>
  BY DEF Login
<1>2. row[u] \in UserRows /\ Registered(u)
  BY RowType DEF Login, IInv
<1>3. TypeOK'
  BY <1>1, <1>2 DEF IInv, TypeOK, Login, GenerateUserToken, UserRows
<1>4. RequestInv'
  BY <1>1 DEF IInv, RequestInv, Holds, Busy, At, Registered
<1>5. VersionInv'
  BY <1>1 DEF IInv, VersionInv, Pending, Busy, At, Registered
<1>6. MadeInv'
  BY <1>1 DEF IInv, MadeInv, Busy, At, Registered
<1>7. MailInv'
  BY <1>1 DEF IInv, MailInv, Copy, Busy, At, Registered
<1>8. LinkInv'
  BY <1>1 DEF IInv, LinkInv, LinkedRow, LinkedCopy, Linked, Busy, At, Registered
<1>9. SerialInv'
  BY <1>1, <1>2 DEF IInv, SerialInv, Busy, At, Registered, Login, GenerateUserToken
<1> QED BY <1>3, <1>4, <1>5, <1>6, <1>7, <1>8, <1>9 DEF IInv

-----------------------------------------------------------------------------
(***************************************************************************)
(* The invariant, and what follows from it.                                *)
(***************************************************************************)

LEMMA InitInv == Init => IInv
<1> SUFFICES ASSUME Init PROVE IInv
  OBVIOUS
<1>1. \A p \in Procs : req[p] = Idle /\ ~Busy(p) /\ ~At(p, "insert") /\ ~At(p, "update")
  BY DEF Init, Busy, At, Idle
<1>2. \A u \in Users : ~Registered(u)
  BY DEF Init, Registered
<1>3. TypeOK
  BY AccountsAssumption DEF Init, TypeOK, Idle
<1>4. VersionInv
  <2>1. \A u \in Users : Pending(u) = {}
    BY <1>1 DEF Pending, Idle
  <2> QED BY <1>1, <1>2, <2>1, FS_EmptySet, AccountsAssumption DEF Init, VersionInv
<1>5. RequestInv
  BY <1>1 DEF RequestInv, Holds
<1>6. MadeInv
  BY <1>1, <1>2 DEF Init, MadeInv
<1>7. MailInv
  BY <1>1, <1>2 DEF Init, MailInv
<1>8. LinkInv
  BY <1>1, <1>2 DEF LinkInv, LinkedRow, LinkedCopy
<1>9. SerialInv
  BY <1>1, <1>2 DEF Init, SerialInv
<1> QED BY <1>3, <1>4, <1>5, <1>6, <1>7, <1>8, <1>9 DEF IInv

LEMMA NextInv == IInv /\ [Next]_vars => IInv'
<1> SUFFICES ASSUME IInv, [Next]_vars PROVE IInv'
  OBVIOUS
<1>1. /\ TypeOK /\ RequestInv /\ VersionInv /\ MadeInv /\ MailInv /\ LinkInv /\ SerialInv
  BY DEF IInv
<1>2. ASSUME NEW p \in Procs, Request(p)
      PROVE  IInv'
  <2>1. PICK u \in Users : Begins(p, u)
    <3>1. PICK u \in Users :
            \/ VerifyEmail(p, u) \/ ResendVerification(p, u) \/ RenameProfile(p, u)
            \/ ForgotPassword(p, u) \/ ResetPassword(p, u) \/ ChangePassword(p, u)
            \/ \E m \in Addresses : Register(p, u, m) \/ UpdateProfile(p, u, m)
      BY <1>2 DEF Request
    <3>2. CASE \E m \in Addresses : TRUE
      BY <3>1, <3>2, RequestBegins
    <3>3. CASE ~\E m \in Addresses : TRUE
      BY <1>1, <3>1, <3>3, RowType DEF UserRows, VerifyEmail, ResendVerification, RenameProfile,
         ForgotPassword, ResetPassword, ChangePassword, RequireVerifiedUser
    <3> QED BY <3>2, <3>3
  <2>2. TypeOK' /\ RequestInv'
    BY <1>1, <2>1, BeginsType
  <2>3. VersionInv' /\ MadeInv'
    BY <1>1, <2>1, BeginsVersion, BeginsMade
  <2>4. MailInv'
    BY <1>1, <2>1, BeginsMail
  <2>5. LinkInv'
    BY <1>1, <2>1, BeginsLink
  <2>6. SerialInv'
    BY <1>1, <2>1, BeginsSerial
  <2> QED BY <2>2, <2>3, <2>4, <2>5, <2>6 DEF IInv
<1>3. ASSUME NEW p \in Procs, Step(p)
      PROVE  IInv'
  <2>1. CASE CreateUser(p) \/ UpdateUser(p)
    <3>1. Writes(p)
      BY <1>1, <2>1, StepWrites
    <3>2. TypeOK' /\ RequestInv' /\ VersionInv'
      BY <1>1, <3>1, WritesType, WritesVersion
    <3>3. MadeInv' /\ MailInv'
      BY <1>1, <3>1, WritesMade, WritesMail
    <3>4. LinkInv' /\ SerialInv'
      BY <1>1, <3>1, WritesLink, WritesSerial
    <3> QED BY <3>2, <3>3, <3>4 DEF IInv
  <2>2. CASE WriteFails(p) \/ SendVerificationEmail(p)
    <3>1. Ends(p)
      BY <2>2, StepEnds
    <3>2. TypeOK' /\ RequestInv' /\ VersionInv' /\ MadeInv' /\ SerialInv'
      BY <3>1, EndsInv
    <3>3. MailInv' /\ LinkInv'
      BY <1>1, <3>1, EndsMail, EndsLink
    <3> QED BY <3>2, <3>3 DEF IInv
  <2> QED BY <1>3, <2>1, <2>2 DEF Step
<1>4. CASE UNCHANGED vars
  BY <1>1, <1>4 DEF vars, IInv, TypeOK, RequestInv, Holds, VersionInv, Pending, MadeInv, MailInv,
     Copy, LinkInv, LinkedRow, LinkedCopy, Linked, SerialInv, Busy, At, Registered
<1> QED BY <1>2, <1>3, <1>4, LoginInv DEF Next

THEOREM InvariantHolds == Spec => []IInv
BY InitInv, NextInv, PTL DEF Spec

\* The rows, tokens and requests have their types: no request writes a row
\* that the table could not hold, and the versions stay within the changes.
THEOREM TypeCorrect == Spec => []TypeOK
<1>1. IInv => TypeOK
  BY DEF IInv
<1> QED BY <1>1, InvariantHolds, PTL

\* However requests overlap, the address of a verified account was proved
\* (VerifyEmail, UpdateProfile).
THEOREM AddressesAreProved == Spec => []VerifiedWasProved
<1>1. IInv => VerifiedWasProved
  BY DEF IInv, MailInv, Copy, VerifiedWasProved
<1> QED BY <1>1, InvariantHolds, PTL

\* However requests overlap, an account that is not verified stores a token
\* whose link was mailed to its address (Register, ResendVerification,
\* UpdateProfile).
THEOREM UnverifiedCanVerify == Spec => []UnverifiedHasLink
<1>1. IInv => UnverifiedHasLink
  <2> SUFFICES ASSUME IInv, AllIdle, NEW u \in Users, Registered(u), ~row[u].email_verified
               PROVE  /\ row[u].verification_token # None
                      /\ mailedTo[row[u].verification_token] = row[u].email
    BY DEF UnverifiedHasLink
  <2>1. Linked(row[u].verification_token)
    BY DEF IInv, LinkInv, LinkedRow
  <2>2. /\ row[u].verification_token # None
        /\ mailedTo[row[u].verification_token] # None
    BY <2>1 DEF Linked, AllIdle, At
  <2>3. row[u].verification_token \in Tokens
    BY <2>2, RowType DEF IInv, UserRows
  <2> QED BY <2>2, <2>3 DEF IInv, MailInv, Copy
<1> QED BY <1>1, InvariantHolds, PTL

\* As long as no two requests overlap, a password change revokes the sessions
\* from before it for good (ChangePassword, ResetPassword, tokenRevoked).
THEOREM SerialChangesRevoke == Spec => []SerialPasswordChangeRevokes
<1>1. IInv => SerialPasswordChangeRevokes
  <2> SUFFICES ASSUME IInv, clean, session # None, session.epoch < changes[session.user]
               PROVE  tokenRevoked(session)
    BY DEF SerialPasswordChangeRevokes, PasswordChangeRevokes
  <2>1. /\ session.user \in Users /\ session.epoch \in Nat
        /\ session.version = session.epoch
    BY AccountsAssumption DEF IInv, TypeOK, SerialInv
  <2>2. changes[session.user] =
          IF Registered(session.user) THEN row[session.user].token_version ELSE 0
    BY <2>1 DEF IInv, SerialInv
  <2>3. changes[session.user] = row[session.user].token_version
    BY <2>1, <2>2
  <2> QED BY <2>1, <2>3 DEF tokenRevoked
<1> QED BY <1>1, InvariantHolds, PTL
=============================================================================
