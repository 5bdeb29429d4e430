----------------------------- MODULE Donations -----------------------------
(***************************************************************************)
(* Payments reported by Ko-fi and Patreon, or imported by an admin, and    *)
(* the donor status users get for them.  One action per SQL statement, so  *)
(* webhooks, claims, the verification of an address and the expiry job     *)
(* interleave as they do in the service.                                   *)
(*                                                                         *)
(* An event stands for its transaction (Ko-fi) or member (Patreon) id,     *)
(* with the address it was made with.  Webhooks come late, twice and out   *)
(* of order: a delivery may carry any state the platform has been in.      *)
(* Requests about an account read its row and write all of it back, the    *)
(* donor status included; their other columns are in Accounts.  Amounts,   *)
(* tiers and signatures are left out.                                      *)
(***************************************************************************)
EXTENDS Naturals, FiniteSets

CONSTANTS
    None,
    Users,
    Addresses,
    Events,        \* ids of transactions and members
    Patreon,       \* the events that are Patreon members
    AddressOf,     \* the address of an event
    KindOf,        \* one_time or subscription
    Procs,         \* requests
    Job,           \* the goroutine of StartExpiryJob
    Grace,         \* donorGraceDays
    MaxDay,        \* bound: days
    MaxItems,      \* bound: rows of an import
    Imported,      \* bound: what they say
    Uses,          \* bound: who uses which address
    Claims,        \* bound: who claims which address
    AdminSets      \* bound: whose status an admin sets, and to what

DonorStatuses == {"none", "supporter", "monthly_supporter"}

Workers == Procs \cup {Job}
Days == 0..MaxDay

\* What a platform says of an event.
Reports == [event : Events, active : BOOLEAN, at : Days \cup {None}]

ASSUME DonationsAssumption ==
    /\ None \notin Users \cup Addresses \cup Events \cup Nat
    /\ Patreon \subseteq Events
    /\ AddressOf \in [Events -> Addresses]
    /\ KindOf \in [Events -> {"one_time", "subscription"}]
    /\ \A e \in Patreon : KindOf[e] = "subscription"
    /\ Job \notin Procs
    /\ Grace \in Nat /\ MaxDay \in Nat /\ MaxItems \in Nat
    /\ Imported \subseteq Reports
    /\ Uses \subseteq Users \X Addresses /\ Claims \subseteq Users \X Addresses
    /\ AdminSets \subseteq Users \X DonorStatuses

EventRows == [active : BOOLEAN, at : Days \cup {None}, user : Users \cup {None}]

VARIABLES
    address,   \* users.email, None before the registration
    verified,  \* users.email_verified
    donor,     \* users.donor_status
    source,    \* users.donor_source
    row,       \* donation_events, None where there is no row
    claim,     \* donor_claims: the address a user claims
    day,       \* NOW(), in days
    req,       \* what each worker is at
    adminSet,  \* history: users whose status an admin set, not computed since
    cut,       \* history: a worker was cut short
    clean      \* history: none was, and no two workers overlapped

accounts == <<address, verified>>
status == <<donor, source, adminSet>>
history == <<cut, clean>>
vars == <<address, verified, donor, source, row, claim, day, req, adminSet, cut, clean>>

Idle == [pc |-> "idle", left |-> 0, item |-> None, owner |-> None,
         from |-> None, verified |-> FALSE, links |-> FALSE, claim |-> FALSE, todo |-> {},
         user |-> None, current |-> "none", computed |-> "none"]

TypeOK ==
    /\ address \in [Users -> Addresses \cup {None}]
    /\ verified \in [Users -> BOOLEAN]
    /\ donor \in [Users -> DonorStatuses]
    /\ source \in [Users -> {"none", "auto", "admin"}]
    /\ row \in [Events -> EventRows \cup {None}]
    /\ claim \in [Users -> Addresses \cup {None}]
    /\ day \in Days
    /\ req \in [Workers ->
          [pc : {"idle", "update", "lookup", "upsert", "link", "recompute", "events", "write", "drop_claim"},
           left : 0..MaxItems, item : Reports \cup {None}, owner : Users \cup {None},
           from : Addresses \cup {None}, verified : BOOLEAN, links : BOOLEAN, claim : BOOLEAN,
           todo : SUBSET Users, user : Users \cup {None},
           current : DonorStatuses, computed : DonorStatuses]]
    /\ adminSet \subseteq Users
    /\ cut \in BOOLEAN /\ clean \in BOOLEAN

Init ==
    /\ address = [u \in Users |-> None]
    /\ verified = [u \in Users |-> FALSE]
    /\ donor = [u \in Users |-> "none"]
    /\ source = [u \in Users |-> "none"]
    /\ row = [e \in Events |-> None]
    /\ claim = [u \in Users |-> None]
    /\ day = 0
    /\ req = [p \in Workers |-> Idle]
    /\ adminSet = {}
    /\ cut = FALSE /\ clean = TRUE

At(p, l) == req[p].pc = l
AllIdle == \A p \in Workers : At(p, "idle")

Start(p, r) ==
    /\ At(p, "idle")
    /\ req' = [req EXCEPT ![p] = r]
    /\ clean' = (clean /\ AllIdle)
    /\ cut' = cut

Stored(e) == row[e] # None
Unclaimed(m) == {e \in Events : Stored(e) /\ AddressOf[e] = m /\ row[e].user = None}

-----------------------------------------------------------------------------
(***************************************************************************)
(* Accounts, as far as donations see them, and the days.                   *)
(***************************************************************************)

Registered(u) == address[u] # None

\* CreateUser, after the address was looked up; it is unique.
Register(u, m) ==
    /\ ~Registered(u) /\ \A v \in Users : address[v] # m
    /\ address' = [address EXCEPT ![u] = m]
    /\ UNCHANGED <<verified, status, row, claim, day, req, history>>

\* A request that has read the row of u and is about to write it back, with
\* address m, and to link the donations made with it if l.
ReadUser(p, u, m, v, l) ==
    /\ Registered(u)
    /\ Start(p, [Idle EXCEPT !.pc = "update", !.user = u, !.from = m, !.verified = v,
                             !.links = l, !.current = donor[u]])
    /\ UNCHANGED <<accounts, status, row, claim, day>>

\* A new link, a new password or another name: the columns are written as read.
ForgotPassword(p, u) == ReadUser(p, u, address[u], verified[u], FALSE)

\* Another address has to be verified.
UpdateProfile(p, u, m) ==
    /\ \A v \in Users : address[v] # m
    /\ ReadUser(p, u, m, FALSE, FALSE)

\* The link in the mail, without the donations made before.
VerifyEmailOnly(p, u) == ~verified[u] /\ ReadUser(p, u, address[u], TRUE, FALSE)

\* The link in the mail.
VerifyEmail(p, u) == ~verified[u] /\ ReadUser(p, u, address[u], TRUE, TRUE)

\* users.email is unique.
Taken(p) == \E v \in Users \ {req[p].user} : address[v] = req[p].from

UpdateUserFails(p) ==
    /\ At(p, "update")
    /\ Taken(p)
    /\ req' = [req EXCEPT ![p] = Idle]
    /\ UNCHANGED <<accounts, status, row, claim, day, history>>

\* The whole row, with the donor status it had when it was read; donor_source
\* is not among the columns.
UpdateUser(p) ==
    /\ At(p, "update")
    /\ ~Taken(p)
    /\ LET u == req[p].user IN
       /\ address' = [address EXCEPT ![u] = req[p].from]
       /\ verified' = [verified EXCEPT ![u] = req[p].verified]
       /\ donor' = [donor EXCEPT ![u] = req[p].current]
       /\ req' = [req EXCEPT ![p] =
                    IF req[p].links THEN [Idle EXCEPT !.pc = "link", !.user = u, !.from = req[p].from]
                    ELSE Idle]
    /\ UNCHANGED <<source, adminSet, row, claim, day, history>>

\* An admin sets the status; donor_source stays what it was.
SetDonorStatus(u, s) ==
    /\ donor' = [donor EXCEPT ![u] = s]
    /\ adminSet' = adminSet \cup {u}
    /\ UNCHANGED <<accounts, source, row, claim, day, req, history>>

NextDay ==
    /\ day < MaxDay
    /\ day' = day + 1
    /\ UNCHANGED <<accounts, status, row, claim, req, history>>

-----------------------------------------------------------------------------
(***************************************************************************)
(* Payments come in: a lookup of the user and an upsert for each.          *)
(***************************************************************************)

\* A payment has one time, or none that parses, however often it is reported.
\* Nobody reads the time of a tip, or asks whether it is active.
KofiRows ==
    {r \in Reports : /\ r.event \notin Patreon
                     /\ KindOf[r.event] = "one_time" => r.active /\ r.at = None
                     /\ r.at \in 0..day \cup {None}
                     /\ Stored(r.event) => r.at = row[r.event].at}

\* A webhook of Ko-fi only tells that something was paid.
KofiReports == {r \in KofiRows : r.active}

PatreonReports == {r \in Reports : r.event \in Patreon /\ r.at \in 0..day \cup {None}}

\* GetUserByEmail, verified or not.
Owners(m) ==
    LET found == {u \in Users : address[u] = m} IN IF found = {} THEN {None} ELSE found

\* A worker looks for the user of a report, with t to recompute and n more
\* rows to come.
Found(r, o, n, t) ==
    [Idle EXCEPT !.pc = "upsert", !.item = r, !.owner = o, !.left = n, !.todo = t]

Receive(p, r, n) ==
    /\ \E o \in Owners(AddressOf[r.event]) : Start(p, Found(r, o, n, {}))
    /\ UNCHANGED <<accounts, status, row, claim, day>>

HandleKofi(p) == \E r \in KofiReports : Receive(p, r, 0)

PatreonTimeNextDay(r) == IF r.active /\ r.at = None THEN [r EXCEPT !.at = day + 1] ELSE r

\* An active member who was never charged counts from now.
PatreonTime(r) == IF r.active /\ r.at = None THEN [r EXCEPT !.at = day] ELSE r

HandlePatreon(p) == \E r \in PatreonReports : Receive(p, PatreonTime(r), 0)

\* Rows of either platform.
ImportRows == (KofiRows \cup PatreonReports) \cap Imported

ImportDonations(p) ==
    \E r \in ImportRows : \E n \in 1..(MaxItems - 1) : Receive(p, r, n)

ImportNext(p) ==
    /\ At(p, "lookup")
    /\ \E r \in ImportRows :
       \E o \in Owners(AddressOf[r.event]) :
          req' = [req EXCEPT ![p] = Found(r, o, req[p].left - 1, req[p].todo)]
    /\ UNCHANGED <<accounts, status, row, claim, day, history>>

\* An event that is there keeps its user, and its time when none is given.
Upserted(r, o) ==
    IF Stored(r.event)
    THEN [active |-> r.active,
          at |-> IF r.at = None THEN row[r.event].at ELSE r.at,
          user |-> IF row[r.event].user = None THEN o ELSE row[r.event].user]
    ELSE [active |-> r.active, at |-> r.at, user |-> o]

\* Where a worker goes on with the users t left to recompute.
Onward(p, t) ==
    IF t # {} THEN "recompute" ELSE IF req[p].claim THEN "drop_claim" ELSE "idle"

Proceed(p, t) ==
    req' = [req EXCEPT ![p] =
              IF Onward(p, t) = "idle" THEN Idle
              ELSE [Idle EXCEPT !.pc = Onward(p, t), !.todo = t, !.claim = req[p].claim,
                                !.user = IF req[p].claim THEN req[p].user ELSE None]]

UpsertDonationEvent(p) ==
    /\ At(p, "upsert")
    /\ LET r == req[p].item
           saved == Upserted(r, req[p].owner)
           t == req[p].todo \cup ({saved.user} \ {None})
       IN
       /\ row' = [row EXCEPT ![r.event] = saved]
       /\ IF req[p].left = 0 THEN Proceed(p, t)
          ELSE req' = [req EXCEPT ![p] = [Idle EXCEPT !.pc = "lookup", !.left = req[p].left, !.todo = t]]
    /\ UNCHANGED <<accounts, status, claim, day, history>>

-----------------------------------------------------------------------------
(***************************************************************************)
(* Donations made with another address, or before the registration.        *)
(***************************************************************************)

ClaimStart(u, m) ==
    /\ Unclaimed(m) # {}
    /\ address[u] # None
    /\ claim' = [claim EXCEPT ![u] = m]
    /\ UNCHANGED <<accounts, status, row, day, req, history>>

\* With the right code, in time.
ClaimVerify(p, u) ==
    /\ claim[u] # None
    /\ Start(p, [Idle EXCEPT !.pc = "link", !.user = u, !.from = claim[u], !.claim = TRUE])
    /\ UNCHANGED <<accounts, status, row, claim, day>>

Linked(p) ==
    [e \in Events |-> IF e \in Unclaimed(req[p].from) THEN [row[e] EXCEPT !.user = req[p].user]
                      ELSE row[e]]

LinkAndReturn(p) ==
    /\ At(p, "link")
    /\ row' = Linked(p)
    /\ Proceed(p, {})
    /\ UNCHANGED <<accounts, status, claim, day, history>>

\* linkPendingDonations and ClaimVerify go on to recompute, whatever was linked.
LinkDonationEventsByEmail(p) ==
    /\ At(p, "link")
    /\ row' = Linked(p)
    /\ Proceed(p, {req[p].user})
    /\ UNCHANGED <<accounts, status, claim, day, history>>

DeleteDonorClaim(p) ==
    /\ At(p, "drop_claim")
    /\ claim' = [claim EXCEPT ![req[p].user] = None]
    /\ req' = [req EXCEPT ![p] = Idle]
    /\ UNCHANGED <<accounts, status, row, day, history>>

-----------------------------------------------------------------------------
(***************************************************************************)
(* RecomputeDonorStatus: three statements.                                 *)
(***************************************************************************)

ReadDonorStatus(p) ==
    /\ At(p, "recompute")
    /\ \E u \in req[p].todo :
          IF source[u] = "admin" THEN Proceed(p, req[p].todo \ {u})
          ELSE req' = [req EXCEPT ![p].pc = "events", ![p].user = u, ![p].current = donor[u]]
    /\ UNCHANGED <<accounts, status, row, claim, day, history>>

OfUser(u, k) == {e \in Events : Stored(e) /\ row[e].user = u /\ KindOf[e] = k}
ActiveSubscriptions(u) == {e \in OfUser(u, "subscription") : row[e].active}

FreshSubscriptions(u) ==
    {e \in ActiveSubscriptions(u) : row[e].at # None /\ row[e].at + Grace >= day}

EntitledForEver(u) ==
    IF ActiveSubscriptions(u) # {} THEN "monthly_supporter"
    ELSE IF OfUser(u, "one_time") # {} THEN "supporter" ELSE "none"

\* The status the events of a user entitle to.
EntitledTo(u) ==
    IF FreshSubscriptions(u) # {} THEN "monthly_supporter"
    ELSE IF OfUser(u, "one_time") # {} THEN "supporter" ELSE "none"

ReadDonationEvents(p) ==
    /\ At(p, "events")
    /\ LET u == req[p].user IN
       IF EntitledTo(u) = req[p].current THEN Proceed(p, req[p].todo \ {u})
       ELSE req' = [req EXCEPT ![p].pc = "write", ![p].current = "none",
                                 ![p].computed = EntitledTo(u)]
    /\ UNCHANGED <<accounts, status, row, claim, day, history>>

WriteDonorStatus(p) ==
    /\ At(p, "write")
    /\ LET u == req[p].user IN
       /\ donor' = [donor EXCEPT ![u] = req[p].computed]
       /\ source' = [source EXCEPT ![u] = "auto"]
       /\ adminSet' = adminSet \ {u}
       /\ Proceed(p, req[p].todo \ {u})
    /\ UNCHANGED <<accounts, row, claim, day, history>>

-----------------------------------------------------------------------------
(***************************************************************************)
(* The expiry job: at boot and every six hours.                            *)
(***************************************************************************)

StaleSubscriptionUserIDs ==
    {u \in Users : /\ source[u] = "auto" /\ donor[u] = "monthly_supporter"
                   /\ ActiveSubscriptions(u) # {} /\ FreshSubscriptions(u) = {}}

\* A sweep that finds nobody changes nothing.
ExpireStaleSubscriptions ==
    /\ StaleSubscriptionUserIDs # {}
    /\ Start(Job, [Idle EXCEPT !.pc = "recompute", !.todo = StaleSubscriptionUserIDs])
    /\ UNCHANGED <<accounts, status, row, claim, day>>

\* A database error ends a request where it is.  The job only skips the user
\* it fails on, who is on the list of the next sweep.
Abort(p) ==
    /\ ~At(p, "idle")
    /\ req' = [req EXCEPT ![p] = Idle]
    /\ cut' = TRUE /\ clean' = FALSE
    /\ UNCHANGED <<accounts, status, row, claim, day>>

-----------------------------------------------------------------------------
Step(p) ==
    \/ UpdateUserFails(p) \/ UpdateUser(p)
    \/ ImportNext(p) \/ UpsertDonationEvent(p)
    \/ LinkDonationEventsByEmail(p) \/ DeleteDonorClaim(p)
    \/ ReadDonorStatus(p) \/ ReadDonationEvents(p) \/ WriteDonorStatus(p)

Request(p) ==
    \/ HandleKofi(p) \/ HandlePatreon(p) \/ ImportDonations(p)
    \/ \E u \in Users : ForgotPassword(p, u) \/ VerifyEmail(p, u) \/ ClaimVerify(p, u)
    \/ \E x \in Uses : UpdateProfile(p, x[1], x[2])

Next ==
    \/ \E x \in Uses : Register(x[1], x[2])
    \/ \E x \in Claims : ClaimStart(x[1], x[2])
    \/ \E x \in AdminSets : SetDonorStatus(x[1], x[2])
    \/ NextDay
    \/ \E p \in Procs : Request(p) \/ Abort(p)
    \/ ExpireStaleSubscriptions
    \/ \E p \in Workers : Step(p)

Spec == Init /\ [][Next]_vars

\* The ticker fires for ever, and each statement returns: a worker goes on
\* unless it is cut short.
FairSpec ==
    /\ Spec
    /\ WF_vars(ExpireStaleSubscriptions)
    /\ \A p \in Workers : WF_vars(Step(p))

-----------------------------------------------------------------------------
\* A status that payments and time have outdated is one the expiry job finds:
\* as long as workers, requests about accounts included, neither overlap nor are
\* cut short, every user at rest has the status its events entitle it to, or is
\* on the list of the next sweep (RecomputeDonorStatus, StaleSubscriptionUserIDs).
OutdatedIsListed ==
    clean /\ AllIdle =>
       \A u \in Users \ adminSet : donor[u] = EntitledTo(u) \/ u \in StaleSubscriptionUserIDs

\* Who has proved an address has every donation made with it, whether it came
\* before or after ("users who donated before registering get their benefits
\* automatically", user_service.go, VerifyEmail).
VerifiedGetTheirs ==
    clean /\ AllIdle => \A u \in Users : verified[u] => Unclaimed(address[u]) = {}

\* Who is on the list of the expiry job is downgraded or has paid again, however
\* webhooks, imports, claims and whole-row writes interfere with the sweep,
\* unless the subscription was reported ended by a request that was cut short:
\* the job looks for active ones only (ExpireStaleSubscriptions).
StaleDowngraded ==
    \A u \in Users :
       u \in StaleSubscriptionUserIDs ~>
          \/ donor[u] # "monthly_supporter" \/ FreshSubscriptions(u) # {}
          \/ cut /\ ActiveSubscriptions(u) = {}

\* "A status set manually by an admin is never overwritten."
AdminStatusKept ==
    [][\A u \in adminSet : donor'[u] = donor[u] \/ u \in adminSet']_vars
=============================================================================
