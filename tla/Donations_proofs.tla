--------------------------- MODULE Donations_proofs ---------------------------
(***************************************************************************)
(* Proofs about Donations, for any users, addresses, payments, requests,   *)
(* grace days and bounds.                                                  *)
(*                                                                         *)
(* The argument: while nothing overlaps, a user whose payments changed is  *)
(* on the list of the worker that changed them until the status is written *)
(* (SettledInv); and the status that is written may be outdated only by    *)
(* the time that went by, which is what the expiry job looks for (Due).    *)
(* A request about an account writes the status back it has read, which    *)
(* nobody but an admin has changed since (WritesBack).                     *)
(***************************************************************************)
EXTENDS Donations, TLAPS

Busy(p) == ~At(p, "idle")

Works ==
    [pc : {"idle", "update", "lookup", "upsert", "link", "recompute", "events", "write", "drop_claim"},
     left : 0..MaxItems, item : Reports \cup {None}, owner : Users \cup {None},
     from : Addresses \cup {None}, verified : BOOLEAN, links : BOOLEAN, claim : BOOLEAN,
     todo : SUBSET Users, user : Users \cup {None},
     current : DonorStatuses, computed : DonorStatuses]

\* What a worker may hold.
Sound(r) ==
    /\ r \in Works
    /\ r.pc = "idle" => r = Idle
    /\ r.pc = "update" => r.user \in Users /\ r.from \in Addresses /\ r.todo = {}
    /\ r.pc = "lookup" => r.left > 0
    /\ r.pc = "upsert" => r.item \in Reports
    /\ r.pc = "link" => r.user \in Users /\ r.todo = {}
    /\ r.pc = "drop_claim" => r.todo = {}
    /\ r.pc \in {"events", "write"} => r.user \in r.todo

RequestInv == \A p \in Workers : Sound(req[p])

\* Only the admin endpoint that sets donor_source could make it 'admin'; there
\* is none.  A status that is about to be written back was computed, or set by
\* an admin.
SourceInv ==
    /\ \A u \in Users :
          /\ source[u] # "admin"
          /\ u \notin adminSet /\ donor[u] # "none" => source[u] = "auto"
    /\ \A p \in Workers :
          At(p, "update") /\ req[p].current # "none" =>
             req[p].user \in adminSet \/ source[req[p].user] = "auto"

\* What a status written before today may be.
Lapsed(u) == ActiveSubscriptions(u) # {} /\ FreshSubscriptions(u) = {}

Due(u, s) ==
    \/ s = EntitledTo(u)
    \/ s = "monthly_supporter" /\ Lapsed(u)

Awaited(u) == \E p \in Workers : u \in req[p].todo

AloneInv == clean => \A p, q \in Workers : Busy(p) /\ Busy(q) => p = q

Settled == \A u \in Users : Due(u, donor[u]) \/ u \in adminSet \/ Awaited(u)

ReadsCurrent ==
    \A p \in Workers :
       At(p, "events") => req[p].current = donor[req[p].user] \/ req[p].user \in adminSet

WritesDue == \A p \in Workers : At(p, "write") => Due(req[p].user, req[p].computed)

WritesBack ==
    \A p \in Workers :
       At(p, "update") => req[p].current = donor[req[p].user] \/ req[p].user \in adminSet

AllSettled == Settled /\ ReadsCurrent /\ WritesDue /\ WritesBack

SettledInv == clean => AllSettled

\* The donations of the address of u are u's or are being linked.
Linking(u) == \E p \in Workers : At(p, "link") /\ req[p].from = address[u]
Theirs(u) == Unclaimed(address[u]) = {} \/ Linking(u)

AllTheirs == \A u \in Users : verified[u] => Theirs(u)

OwnersFound ==
    \A p \in Workers, u \in Users :
       At(p, "upsert") /\ verified[u] /\ address[u] = AddressOf[req[p].item.event] =>
          req[p].owner # None

\* Only a request that goes on to link the donations makes an address verified.
ProvesAddress ==
    \A p \in Workers :
       At(p, "update") /\ req[p].verified =>
          req[p].from = address[req[p].user] /\ (req[p].links \/ verified[req[p].user])

AllVerified == AllTheirs /\ OwnersFound /\ ProvesAddress

VerifiedInv ==
    /\ \A u \in Users : verified[u] => address[u] # None
    /\ \A p \in Workers : At(p, "update") => address[req[p].user] # None
    /\ clean => AllVerified

IInv ==
    TypeOK /\ RequestInv /\ SourceInv /\ AloneInv /\ SettledInv /\ VerifiedInv

-----------------------------------------------------------------------------
(***************************************************************************)
(* What a step leaves a worker with.                                       *)
(***************************************************************************)

Gets(p, r) == Sound(r) /\ req' = [req EXCEPT ![p] = r]

LEMMA GetsKeeps ==
    ASSUME TypeOK, RequestInv, NEW p \in Workers, NEW r, Gets(p, r)
    PROVE  /\ req' \in [Workers -> Works] /\ RequestInv'
           /\ req'[p] = r /\ \A q \in Workers \ {p} : req'[q] = req[q]
BY DEF Gets, TypeOK, RequestInv, Sound, Works

LEMMA IdleSound == Sound(Idle)
BY DonationsAssumption DEF Sound, Idle, Works, DonorStatuses

LEMMA ProceedGets ==
    ASSUME TypeOK, RequestInv, NEW p \in Workers, NEW t \in SUBSET Users, Proceed(p, t)
    PROVE  \E r \in Works : /\ Gets(p, r) /\ r.todo = t
                            /\ r.pc \in {"idle", "recompute", "drop_claim"}
<1> DEFINE w == IF req[p].claim THEN req[p].user ELSE None
           s == [Idle EXCEPT !.pc = Onward(p, t), !.todo = t, !.claim = req[p].claim,
                             !.user = w]
           r == IF Onward(p, t) = "idle" THEN Idle ELSE s
<1>1. req' = [req EXCEPT ![p] = r]
  BY DEF Proceed
<1>2. req[p] \in Works
  BY DEF TypeOK, Works
<1>3. /\ Onward(p, t) \in {"idle", "recompute", "drop_claim"}
      /\ Onward(p, t) # "recompute" => t = {}
  BY DEF Onward
<1>4. Idle \in Works /\ Idle.todo = {} /\ Idle.pc = "idle"
  BY IdleSound DEF Sound, Idle
<1>5. /\ s \in Works /\ s.pc = Onward(p, t) /\ s.todo = t
  <2>1. w \in Users \cup {None} /\ req[p].claim \in BOOLEAN
    BY <1>2 DEF Works
  <2>2. Onward(p, t) \in {"idle", "update", "lookup", "upsert", "link", "recompute", "events",
                         "write", "drop_claim"}
    BY <1>3
  <2> HIDE DEF w
  <2> QED BY <1>4, <2>1, <2>2 DEF Works, Idle
<1>6. Sound(r) /\ r.todo = t /\ r.pc \in {"idle", "recompute", "drop_claim"}
  BY <1>3, <1>4, <1>5, IdleSound DEF Sound
<1> QED BY <1>1, <1>6 DEF Gets, Sound

\* A worker that has looked up the user of a report.
LEMMA FoundSound ==
    ASSUME NEW r \in Reports, NEW o \in Users \cup {None}, NEW n \in 0..MaxItems,
           NEW t \in SUBSET Users
    PROVE  Sound(Found(r, o, n, t)) /\ Found(r, o, n, t).todo = t
BY DonationsAssumption DEF Found, Sound, Idle, Works, DonorStatuses

LEMMA OwnersType == \A m \in Addresses : Owners(m) \subseteq Users \cup {None}
BY DEF Owners

LEMMA ReportsType ==
    /\ KofiRows \subseteq Reports /\ PatreonReports \subseteq Reports
    /\ TypeOK => \A r \in PatreonReports : PatreonTime(r) \in Reports
    /\ \A r \in Reports : r.event \in Events /\ AddressOf[r.event] \in Addresses
BY DonationsAssumption DEF KofiRows, PatreonReports, PatreonTime, Reports, TypeOK

LEMMA ReceiveGets ==
    ASSUME NEW p \in Workers, NEW r \in Reports, NEW n \in 0..MaxItems, Receive(p, r, n)
    PROVE  /\ \E o \in Owners(AddressOf[r.event]) : Gets(p, Found(r, o, n, {}))
           /\ At(p, "idle") /\ clean' = (clean /\ AllIdle) /\ cut' = cut
           /\ UNCHANGED <<accounts, status, row, claim, day>>
<1>1. PICK o \in Owners(AddressOf[r.event]) : Start(p, Found(r, o, n, {}))
  BY DEF Receive
<1>2. o \in Users \cup {None}
  BY <1>1, OwnersType, ReportsType
<1>3. Sound(Found(r, o, n, {}))
  BY <1>2, FoundSound
<1> QED BY <1>1, <1>3 DEF Receive, Start, Gets

LEMMA RequestReceives ==
    ASSUME TypeOK, NEW p \in Procs, HandleKofi(p) \/ HandlePatreon(p) \/ ImportDonations(p)
    PROVE  \E r \in Reports, n \in 0..MaxItems : Receive(p, r, n)
<1>1. CASE HandleKofi(p)
  BY <1>1, ReportsType, DonationsAssumption DEF HandleKofi, KofiReports
<1>2. CASE HandlePatreon(p)
  BY <1>2, ReportsType, DonationsAssumption DEF HandlePatreon
<1>3. CASE ImportDonations(p)
  <2>1. PICK r \in KofiRows \cup PatreonReports, n \in 1..(MaxItems - 1) : Receive(p, r, n)
    BY <1>3 DEF ImportDonations, ImportRows
  <2> QED BY <2>1, ReportsType, DonationsAssumption
<1> QED BY <1>1, <1>2, <1>3

LEMMA UpsertedType ==
    ASSUME TypeOK, NEW r \in Reports, NEW o \in Users \cup {None}
    PROVE  Upserted(r, o) \in EventRows
BY ReportsType DEF TypeOK, Upserted, Stored, EventRows, Reports

LEMMA LinkedType ==
    ASSUME TypeOK, NEW p \in Workers, req[p].user \in Users
    PROVE  Linked(p) \in [Events -> EventRows \cup {None}]
<1> SUFFICES ASSUME NEW e \in Events, e \in Unclaimed(req[p].from)
             PROVE  [row[e] EXCEPT !.user = req[p].user] \in EventRows
  BY DEF Linked, TypeOK
<1>1. row[e] \in EventRows
  BY DEF Unclaimed, Stored, TypeOK
<1> QED BY <1>1 DEF EventRows

LEMMA EntitledType == \A u \in Users : EntitledTo(u) \in DonorStatuses
BY DEF EntitledTo, DonorStatuses

LEMMA UpsertGets ==
    ASSUME TypeOK, RequestInv, NEW p \in Workers, UpsertDonationEvent(p)
    PROVE  LET x == req[p].item
               saved == Upserted(x, req[p].owner)
           IN /\ x \in Reports /\ saved \in EventRows
              /\ row' = [row EXCEPT ![x.event] = saved]
              /\ \E r \in Works : /\ Gets(p, r)
                                  /\ r.todo = req[p].todo \cup ({saved.user} \ {None})
                                  /\ r.pc \in {"idle", "recompute", "drop_claim", "lookup"}
<1> DEFINE x == req[p].item
           saved == Upserted(x, req[p].owner)
           t == req[p].todo \cup ({saved.user} \ {None})
<1>1. x \in Reports /\ req[p] \in Works
  BY DEF UpsertDonationEvent, At, RequestInv, Sound
<1>2. saved \in EventRows
  BY <1>1, UpsertedType DEF Works
<1>3. t \in SUBSET Users
  BY <1>1, <1>2 DEF Works, EventRows
<1>4. CASE req[p].left = 0
  <2>1. Proceed(p, t)
    BY <1>4 DEF UpsertDonationEvent
  <2> QED BY <1>1, <1>2, <1>3, <2>1, ProceedGets DEF UpsertDonationEvent
<1>5. CASE req[p].left # 0
  <2> DEFINE r == [Idle EXCEPT !.pc = "lookup", !.left = req[p].left, !.todo = t]
  <2>1. req' = [req EXCEPT ![p] = r]
    BY <1>5 DEF UpsertDonationEvent
  <2>2. req[p].left \in 0..MaxItems /\ req[p].left > 0
    BY <1>1, <1>5, DonationsAssumption DEF Works
  <2>3. r \in Works /\ r.pc = "lookup" /\ r.left > 0 /\ r.todo = t
    BY <1>3, <2>2, IdleSound DEF Sound, Idle, Works
  <2>4. Sound(r)
    BY <2>3 DEF Sound
  <2> QED BY <1>1, <1>2, <2>1, <2>3, <2>4 DEF UpsertDonationEvent, Gets
<1> QED BY <1>4, <1>5

LEMMA ImportNextGets ==
    ASSUME TypeOK, RequestInv, NEW p \in Workers, ImportNext(p)
    PROVE  \E x \in Reports, n \in 0..MaxItems :
             \E o \in Owners(AddressOf[x.event]) : Gets(p, Found(x, o, n, req[p].todo))
<1> PICK x \in KofiRows \cup PatreonReports :
      \E o \in Owners(AddressOf[x.event]) :
         req' = [req EXCEPT ![p] = Found(x, o, req[p].left - 1, req[p].todo)]
  BY DEF ImportNext, ImportRows
<1>1. PICK o \in Owners(AddressOf[x.event]) :
        req' = [req EXCEPT ![p] = Found(x, o, req[p].left - 1, req[p].todo)]
  OBVIOUS
<1>2. x \in Reports /\ o \in Users \cup {None}
  BY <1>1, ReportsType, OwnersType
<1>3. req[p].left - 1 \in 0..MaxItems /\ req[p].todo \in SUBSET Users
  BY DonationsAssumption DEF ImportNext, At, RequestInv, Sound, Works
<1>4. Sound(Found(x, o, req[p].left - 1, req[p].todo))
  BY <1>2, <1>3, FoundSound
<1> QED BY <1>1, <1>2, <1>3, <1>4 DEF Gets

LEMMA LinkGets ==
    ASSUME TypeOK, RequestInv, NEW p \in Workers, LinkDonationEventsByEmail(p)
    PROVE  /\ req[p].user \in Users /\ req[p].todo = {}
           /\ \E r \in Works : /\ Gets(p, r) /\ r.todo = {req[p].user}
                               /\ r.pc \in {"idle", "recompute", "drop_claim"}
<1>1. req[p].user \in Users /\ req[p].todo = {}
  BY DEF LinkDonationEventsByEmail, At, RequestInv, Sound
<1> QED BY <1>1, ProceedGets DEF LinkDonationEventsByEmail

LEMMA ReadStatusGets ==
    ASSUME TypeOK, RequestInv, NEW p \in Workers, ReadDonorStatus(p)
    PROVE  \E u \in req[p].todo, r \in Works :
             /\ Gets(p, r)
             /\ \/ /\ source[u] = "admin" /\ r.pc \in {"idle", "recompute", "drop_claim"}
                \/ /\ r.pc = "events" /\ r.todo = req[p].todo
                   /\ r.user = u /\ r.current = donor[u]
<1>1. PICK u \in req[p].todo :
        IF source[u] = "admin" THEN Proceed(p, req[p].todo \ {u})
        ELSE req' = [req EXCEPT ![p].pc = "events", ![p].user = u, ![p].current = donor[u]]
  BY DEF ReadDonorStatus
<1>2. req[p] \in Works /\ u \in Users
  BY <1>1 DEF RequestInv, Sound, Works
<1>3. CASE source[u] = "admin"
  BY <1>1, <1>2, <1>3, ProceedGets DEF Works
<1>4. CASE source[u] # "admin"
  <2> DEFINE r == [req[p] EXCEPT !.pc = "events", !.user = u, !.current = donor[u]]
  <2>1. req' = [req EXCEPT ![p] = r]
    BY <1>1, <1>4
  <2>2. /\ r \in Works /\ r.pc = "events" /\ r.todo = req[p].todo
        /\ r.user = u /\ r.current = donor[u]
    BY <1>2 DEF TypeOK, Works
  <2>3. Sound(r)
    BY <1>1, <2>2 DEF Sound
  <2> QED BY <2>1, <2>2, <2>3 DEF Gets
<1> QED BY <1>3, <1>4

LEMMA ReadEventsGets ==
    ASSUME TypeOK, RequestInv, NEW p \in Workers, ReadDonationEvents(p)
    PROVE  \E r \in Works :
             /\ Gets(p, r)
             /\ \/ /\ EntitledTo(req[p].user) = req[p].current
                   /\ r.todo = req[p].todo \ {req[p].user}
                   /\ r.pc \in {"idle", "recompute", "drop_claim"}
                \/ /\ r.pc = "write" /\ r.todo = req[p].todo /\ r.user = req[p].user
                   /\ r.computed = EntitledTo(req[p].user)
<1> DEFINE u == req[p].user
<1>1. req[p] \in Works /\ u \in req[p].todo /\ u \in Users
  BY DEF ReadDonationEvents, At, RequestInv, Sound, Works
<1>2. CASE EntitledTo(u) = req[p].current
  <2>1. Proceed(p, req[p].todo \ {u}) /\ req[p].todo \ {u} \in SUBSET Users
    BY <1>1, <1>2 DEF ReadDonationEvents, Works
  <2> QED BY <1>2, <2>1, ProceedGets
<1>3. CASE EntitledTo(u) # req[p].current
  <2> DEFINE r == [req[p] EXCEPT !.pc = "write", !.current = "none", !.computed = EntitledTo(u)]
  <2>1. req' = [req EXCEPT ![p] = r]
    BY <1>3 DEF ReadDonationEvents
  <2>2. EntitledTo(u) \in DonorStatuses
    BY <1>1, EntitledType
  <2>3. /\ r \in Works /\ r.pc = "write" /\ r.todo = req[p].todo
        /\ r.user = u /\ r.computed = EntitledTo(u)
    BY <1>1, <2>2 DEF Works, DonorStatuses
  <2>4. Sound(r)
    BY <1>1, <2>3 DEF Sound
  <2> QED BY <2>1, <2>3, <2>4 DEF Gets
<1> QED BY <1>2, <1>3

LEMMA WriteGets ==
    ASSUME TypeOK, RequestInv, NEW p \in Workers, WriteDonorStatus(p)
    PROVE  /\ req[p].user \in Users /\ req[p].computed \in DonorStatuses
           /\ \E r \in Works : /\ Gets(p, r) /\ r.todo = req[p].todo \ {req[p].user}
                               /\ r.pc \in {"idle", "recompute", "drop_claim"}
<1>1. req[p] \in Works /\ req[p].user \in req[p].todo
  BY DEF WriteDonorStatus, At, RequestInv, Sound
<1>2. Proceed(p, req[p].todo \ {req[p].user}) /\ req[p].todo \ {req[p].user} \in SUBSET Users
  BY <1>1 DEF WriteDonorStatus, Works
<1> QED BY <1>1, <1>2, ProceedGets DEF Works

LEMMA ClaimVerifyGets ==
    ASSUME TypeOK, RequestInv, NEW p \in Procs, NEW u \in Users, ClaimVerify(p, u)
    PROVE  \E r \in Works : Gets(p, r) /\ r.pc = "link" /\ r.todo = {}
<1> DEFINE r == [Idle EXCEPT !.pc = "link", !.user = u, !.from = claim[u], !.claim = TRUE]
<1>1. req' = [req EXCEPT ![p] = r]
  BY DEF ClaimVerify, Start
<1>2. claim[u] \in Addresses \cup {None}
  BY DEF TypeOK
<1>3. r \in Works /\ r.pc = "link" /\ r.todo = {} /\ r.user = u
  BY <1>2, IdleSound DEF Sound, Idle, Works
<1> QED BY <1>1, <1>3 DEF Gets, Sound

\* What a request about an account has read, and will write.
HasRead(r) ==
    /\ r.user \in Users /\ address[r.user] # None
    /\ r.current = donor[r.user]
    /\ r.verified => r.from = address[r.user] /\ (r.links \/ verified[r.user])

LEMMA ReadUserGets ==
    ASSUME TypeOK, NEW p \in Procs, NEW u \in Users, NEW m \in Addresses,
           NEW v \in BOOLEAN, NEW l \in BOOLEAN, ReadUser(p, u, m, v, l),
           v => m = address[u] /\ (l \/ verified[u])
    PROVE  /\ \E r \in Works : Gets(p, r) /\ r.pc = "update" /\ r.todo = {} /\ HasRead(r)
           /\ At(p, "idle") /\ clean' = (clean /\ AllIdle) /\ cut' = cut
           /\ UNCHANGED <<accounts, status, row, claim, day>>
<1> DEFINE r == [Idle EXCEPT !.pc = "update", !.user = u, !.from = m, !.verified = v,
                             !.links = l, !.current = donor[u]]
<1>1. req' = [req EXCEPT ![p] = r]
  BY DEF ReadUser, Start
<1>2. donor[u] \in DonorStatuses
  BY DEF TypeOK
<1>3. /\ r \in Works /\ r.pc = "update" /\ r.todo = {} /\ r.user = u /\ r.from = m
      /\ r.verified = v /\ r.links = l /\ r.current = donor[u]
  BY <1>2, IdleSound DEF Sound, Idle, Works
<1>4. Sound(r)
  BY <1>3 DEF Sound
<1>5. HasRead(r)
  BY <1>3 DEF HasRead, ReadUser, Registered
<1> QED BY <1>1, <1>3, <1>4, <1>5 DEF Gets, ReadUser, Start

\* The requests about accounts.
Asks(p) ==
    \/ \E u \in Users : ForgotPassword(p, u) \/ VerifyEmail(p, u)
    \/ \E x \in Uses : UpdateProfile(p, x[1], x[2])

LEMMA AsksGets ==
    ASSUME TypeOK, NEW p \in Procs, Asks(p)
    PROVE  /\ \E r \in Works : Gets(p, r) /\ r.pc = "update" /\ r.todo = {} /\ HasRead(r)
           /\ At(p, "idle") /\ clean' = (clean /\ AllIdle) /\ cut' = cut
           /\ UNCHANGED <<accounts, status, row, claim, day>>
<1>1. \A u \in Users : /\ verified[u] \in BOOLEAN
                       /\ Registered(u) => address[u] \in Addresses
  BY DEF TypeOK, Registered
<1>2. CASE \E u \in Users : ForgotPassword(p, u)
  <2>1. PICK u \in Users : ReadUser(p, u, address[u], verified[u], FALSE)
    BY <1>2 DEF ForgotPassword
  <2>2. address[u] \in Addresses
    BY <1>1, <2>1 DEF ReadUser
  <2> QED BY <1>1, <2>1, <2>2, ReadUserGets
<1>3. CASE \E u \in Users : VerifyEmail(p, u)
  <2>1. PICK u \in Users : ReadUser(p, u, address[u], TRUE, TRUE)
    BY <1>3 DEF VerifyEmail
  <2>2. address[u] \in Addresses
    BY <1>1, <2>1 DEF ReadUser
  <2> QED BY <2>1, <2>2, ReadUserGets
<1>4. CASE \E x \in Uses : UpdateProfile(p, x[1], x[2])
  <2>1. PICK x \in Uses : ReadUser(p, x[1], x[2], FALSE, FALSE)
    BY <1>4 DEF UpdateProfile
  <2>2. x[1] \in Users /\ x[2] \in Addresses
    BY DonationsAssumption
  <2> QED BY <2>1, <2>2, ReadUserGets
<1> QED BY <1>2, <1>3, <1>4 DEF Asks

LEMMA UpdateUserGets ==
    ASSUME TypeOK, RequestInv, NEW p \in Workers, UpdateUser(p)
    PROVE  LET u == req[p].user IN
           /\ u \in Users /\ req[p].from \in Addresses /\ req[p] \in Works /\ req[p].todo = {}
           /\ address' = [address EXCEPT ![u] = req[p].from]
           /\ verified' = [verified EXCEPT ![u] = req[p].verified]
           /\ donor' = [donor EXCEPT ![u] = req[p].current]
           /\ UNCHANGED <<source, adminSet, row, claim, day>>
           /\ \E r \in Works : /\ Gets(p, r) /\ r.todo = {} /\ r.pc \in {"idle", "link"}
                               /\ req[p].links => r.pc = "link" /\ r.from = req[p].from
<1> DEFINE u == req[p].user
           s == [Idle EXCEPT !.pc = "link", !.user = u, !.from = req[p].from]
           r == IF req[p].links THEN s ELSE Idle
<1>1. u \in Users /\ req[p].from \in Addresses /\ req[p] \in Works /\ req[p].todo = {}
  BY DEF UpdateUser, At, RequestInv, Sound
<1>2. req' = [req EXCEPT ![p] = r]
  BY DEF UpdateUser
<1>3. s \in Works /\ s.pc = "link" /\ s.todo = {} /\ s.user = u /\ s.from = req[p].from
  BY <1>1, IdleSound DEF Sound, Idle, Works
<1>4. Sound(s)
  BY <1>1, <1>3 DEF Sound
<1>5. Idle \in Works /\ Idle.todo = {} /\ Idle.pc = "idle"
  BY IdleSound DEF Sound, Idle
<1>6. Gets(p, r) /\ r \in Works /\ r.todo = {} /\ r.pc \in {"idle", "link"}
  BY <1>2, <1>3, <1>4, <1>5, IdleSound DEF Gets
<1>7. req[p].links => r.pc = "link" /\ r.from = req[p].from
  BY <1>3
<1> QED BY <1>1, <1>6, <1>7 DEF UpdateUser

LEMMA ExpireGets ==
    ASSUME TypeOK, ExpireStaleSubscriptions
    PROVE  \E r \in Works : Gets(Job, r) /\ r.pc = "recompute"
<1> DEFINE r == [Idle EXCEPT !.pc = "recompute", !.todo = StaleSubscriptionUserIDs]
<1>1. req' = [req EXCEPT ![Job] = r]
  BY DEF ExpireStaleSubscriptions, Start
<1>2. r \in Works /\ r.pc = "recompute"
  BY IdleSound DEF Sound, Idle, Works, StaleSubscriptionUserIDs
<1> QED BY <1>1, <1>2 DEF Gets, Sound

-----------------------------------------------------------------------------
(***************************************************************************)
(* Types, donor_source, and workers that are alone.                        *)
(***************************************************************************)

\* The steps that leave the workers alone.
Outside ==
    \/ \E x \in Uses : Register(x[1], x[2])
    \/ \E x \in Claims : ClaimStart(x[1], x[2])
    \/ \E x \in AdminSets : SetDonorStatus(x[1], x[2])
    \/ NextDay

LEMMA OutsideKeeps ==
    ASSUME Outside
    PROVE  /\ UNCHANGED <<req, row, history>>
           /\ day' = day \/ NextDay
           /\ UNCHANGED accounts \/ \E u \in Users, m \in Addresses : Register(u, m)
           /\ UNCHANGED status \/ \E u \in Users, s \in DonorStatuses : SetDonorStatus(u, s)
<1>1. CASE \E x \in Uses : Register(x[1], x[2])
  <2>1. PICK x \in Uses : Register(x[1], x[2])
    BY <1>1
  <2>2. x[1] \in Users /\ x[2] \in Addresses
    BY DonationsAssumption
  <2> QED BY <2>1, <2>2 DEF Register
<1>2. CASE \E x \in Claims : ClaimStart(x[1], x[2])
  BY <1>2 DEF ClaimStart
<1>3. CASE \E x \in AdminSets : SetDonorStatus(x[1], x[2])
  <2>1. PICK x \in AdminSets : SetDonorStatus(x[1], x[2])
    BY <1>3
  <2>2. x[1] \in Users /\ x[2] \in DonorStatuses
    BY DonationsAssumption
  <2> QED BY <2>1, <2>2 DEF SetDonorStatus
<1>4. CASE NextDay
  BY <1>4 DEF NextDay
<1> QED BY <1>1, <1>2, <1>3, <1>4 DEF Outside

\* The steps a worker begins with.
Begins(p) ==
    \/ p \in Procs /\ (HandleKofi(p) \/ HandlePatreon(p) \/ ImportDonations(p))
    \/ p \in Procs /\ Asks(p)
    \/ p \in Procs /\ \E u \in Users : ClaimVerify(p, u)
    \/ p = Job /\ ExpireStaleSubscriptions

LEMMA NextCases ==
    ASSUME Next
    PROVE  \/ Outside
           \/ \E p \in Workers : Begins(p) \/ Step(p) \/ Abort(p)
BY DEF Next, Outside, Begins, Asks, Request, Workers

LEMMA BeginsGets ==
    ASSUME TypeOK, RequestInv, NEW p \in Workers, Begins(p)
    PROVE  /\ \E r \in Works : /\ Gets(p, r) /\ r.pc \in {"upsert", "link", "recompute", "update"}
                               /\ r.pc = "update" => HasRead(r)
           /\ At(p, "idle") /\ clean' = (clean /\ AllIdle) /\ cut' = cut
           /\ UNCHANGED <<accounts, status, row, claim, day>>
<1>1. CASE p \in Procs /\ (HandleKofi(p) \/ HandlePatreon(p) \/ ImportDonations(p))
  <2>1. PICK x \in Reports, n \in 0..MaxItems : Receive(p, x, n)
    BY <1>1, RequestReceives
  <2>2. /\ \E o \in Owners(AddressOf[x.event]) : Gets(p, Found(x, o, n, {}))
        /\ At(p, "idle") /\ clean' = (clean /\ AllIdle) /\ cut' = cut
        /\ UNCHANGED <<accounts, status, row, claim, day>>
    BY <2>1, ReceiveGets
  <2>3. PICK o : Gets(p, Found(x, o, n, {}))
    BY <2>2
  <2>4. Found(x, o, n, {}) \in Works /\ Found(x, o, n, {}).pc = "upsert"
    BY <2>3 DEF Gets, Sound, Found, Idle
  <2> QED BY <2>2, <2>3, <2>4
<1>2. CASE p \in Procs /\ Asks(p)
  BY <1>2, AsksGets
<1>3. CASE p \in Procs /\ \E u \in Users : ClaimVerify(p, u)
  BY <1>3, ClaimVerifyGets DEF ClaimVerify, Start
<1>4. CASE p = Job /\ ExpireStaleSubscriptions
  BY <1>4, ExpireGets DEF ExpireStaleSubscriptions, Start
<1> QED BY <1>1, <1>2, <1>3, <1>4 DEF Begins

LEMMA StepGets ==
    ASSUME TypeOK, RequestInv, NEW p \in Workers, Step(p)
    PROVE  /\ \E r : Gets(p, r) /\ r.pc # "update"
           /\ Busy(p) /\ UNCHANGED <<day, history>>
           /\ UNCHANGED accounts \/ UpdateUser(p)
           /\ UNCHANGED status \/ UpdateUser(p) \/ WriteDonorStatus(p)
<1>1. /\ Busy(p) /\ UNCHANGED <<day, history>>
      /\ UNCHANGED accounts \/ UpdateUser(p)
      /\ UNCHANGED status \/ UpdateUser(p) \/ WriteDonorStatus(p)
  BY DEF Step, UpdateUserFails, UpdateUser, ImportNext, UpsertDonationEvent,
         LinkDonationEventsByEmail, DeleteDonorClaim,
         ReadDonorStatus, ReadDonationEvents, WriteDonorStatus, Busy, At
<1>2. Gets(p, Idle) => \E r : Gets(p, r) /\ r.pc # "update"
  BY DEF Idle
<1>3. \E r : Gets(p, r) /\ r.pc # "update"
  <2>1. CASE ImportNext(p)
    <3>1. \A x, o, n, t : Found(x, o, n, t).pc = "upsert"
      BY DEF Found, Idle
    <3> QED BY <2>1, <3>1, ImportNextGets
  <2>2. CASE UpsertDonationEvent(p)
    BY <2>2, UpsertGets
  <2>3. CASE LinkDonationEventsByEmail(p)
    BY <2>3, LinkGets
  <2>4. CASE DeleteDonorClaim(p) \/ UpdateUserFails(p)
    BY <1>2, <2>4, IdleSound DEF DeleteDonorClaim, UpdateUserFails, Gets
  <2>5. CASE ReadDonorStatus(p)
    BY <2>5, ReadStatusGets
  <2>6. CASE ReadDonationEvents(p)
    BY <2>6, ReadEventsGets
  <2>7. CASE WriteDonorStatus(p)
    BY <2>7, WriteGets
  <2>8. CASE UpdateUser(p)
    BY <2>8, UpdateUserGets
  <2> QED BY <2>1, <2>2, <2>3, <2>4, <2>5, <2>6, <2>7, <2>8 DEF Step
<1> QED BY <1>1, <1>3

LEMMA AbortGets ==
    ASSUME NEW p \in Workers, Abort(p)
    PROVE  /\ Gets(p, Idle) /\ ~clean' /\ cut' /\ Idle.pc = "idle"
           /\ UNCHANGED <<accounts, status, row, claim, day>>
BY IdleSound DEF Abort, Gets, Idle

LEMMA TypeNext ==
    ASSUME TypeOK, RequestInv, Next
    PROVE  TypeOK' /\ RequestInv'
<1>1. req' \in [Workers -> Works] /\ RequestInv'
  <2>1. CASE Outside
    <3>1. req' = req
      BY <2>1, OutsideKeeps
    <3> QED BY <3>1 DEF RequestInv, TypeOK, Works
  <2>2. CASE \E p \in Workers : Begins(p) \/ Step(p) \/ Abort(p)
    <3>1. PICK p \in Workers : \E r : Gets(p, r)
      BY <2>2, BeginsGets, StepGets, AbortGets
    <3> QED BY <3>1, GetsKeeps
  <2> QED BY <2>1, <2>2, NextCases
<1>2. address' \in [Users -> Addresses \cup {None}] /\ verified' \in [Users -> BOOLEAN]
  <2>1. CASE \E u \in Users, m \in Addresses : Register(u, m)
    BY <2>1 DEF Register, TypeOK
  <2>2. CASE \E p \in Workers : UpdateUser(p)
    <3> PICK p \in Workers : UpdateUser(p)
      BY <2>2
    <3>1. /\ address' = [address EXCEPT ![req[p].user] = req[p].from]
          /\ verified' = [verified EXCEPT ![req[p].user] = req[p].verified]
          /\ req[p].from \in Addresses /\ req[p].verified \in BOOLEAN
      BY UpdateUserGets DEF Works
    <3> QED BY <3>1 DEF TypeOK
  <2>3. CASE UNCHANGED accounts
    BY <2>3 DEF accounts, TypeOK
  <2> QED BY <2>1, <2>2, <2>3, OutsideKeeps, BeginsGets, StepGets, AbortGets, NextCases
<1>3. /\ donor' \in [Users -> DonorStatuses]
      /\ source' \in [Users -> {"none", "auto", "admin"}]
      /\ adminSet' \subseteq Users
  <2>1. CASE \E u \in Users, s \in DonorStatuses : SetDonorStatus(u, s)
    BY <2>1 DEF SetDonorStatus, TypeOK
  <2>2. CASE \E p \in Workers : UpdateUser(p)
    <3> PICK p \in Workers : UpdateUser(p)
      BY <2>2
    <3>1. /\ donor' = [donor EXCEPT ![req[p].user] = req[p].current]
          /\ UNCHANGED <<source, adminSet>> /\ req[p].current \in DonorStatuses
      BY UpdateUserGets DEF Works
    <3> QED BY <3>1 DEF TypeOK
  <2>3. CASE \E p \in Workers : WriteDonorStatus(p)
    <3> PICK p \in Workers : WriteDonorStatus(p)
      BY <2>3
    <3>1. /\ donor' = [donor EXCEPT ![req[p].user] = req[p].computed]
          /\ source' = [source EXCEPT ![req[p].user] = "auto"]
          /\ adminSet' = adminSet \ {req[p].user} /\ req[p].computed \in DonorStatuses
      BY WriteGets DEF WriteDonorStatus
    <3> QED BY <3>1 DEF TypeOK
  <2>4. CASE UNCHANGED status
    BY <2>4 DEF status, TypeOK
  <2> QED BY <2>1, <2>2, <2>3, <2>4, OutsideKeeps, BeginsGets, StepGets, AbortGets, NextCases
<1>4. /\ row' \in [Events -> EventRows \cup {None}]
      /\ claim' \in [Users -> Addresses \cup {None}]
  <2>1. CASE Outside
    <3>1. CASE \E x \in Claims : ClaimStart(x[1], x[2])
      <4>1. PICK x \in Claims : ClaimStart(x[1], x[2])
        BY <3>1
      <4>2. x[2] \in Addresses
        BY DonationsAssumption
      <4> QED BY <4>1, <4>2 DEF ClaimStart, TypeOK
    <3>2. CASE UNCHANGED <<row, claim>>
      BY <3>2 DEF TypeOK
    <3> QED BY <2>1, <3>1, <3>2 DEF Outside, Register, SetDonorStatus, NextDay
  <2>2. CASE \E p \in Workers : Begins(p) \/ Abort(p)
    BY <2>2, BeginsGets, AbortGets DEF TypeOK
  <2>3. ASSUME NEW p \in Workers, Step(p)
        PROVE  <1>4
    <3>1. CASE UpsertDonationEvent(p)
      <4>1. row' \in [Events -> EventRows \cup {None}]
        BY <3>1, UpsertGets DEF TypeOK
      <4> QED BY <3>1, <4>1 DEF UpsertDonationEvent, TypeOK
    <3>2. CASE LinkDonationEventsByEmail(p)
      BY <3>2, LinkGets, LinkedType DEF LinkDonationEventsByEmail, TypeOK
    <3>3. CASE DeleteDonorClaim(p)
      BY <3>3 DEF DeleteDonorClaim, TypeOK
    <3>4. CASE UNCHANGED <<row, claim>>
      BY <3>4 DEF TypeOK
    <3> QED BY <2>3, <3>1, <3>2, <3>3, <3>4
            DEF Step, UpdateUserFails, UpdateUser, ImportNext, ReadDonorStatus,
                ReadDonationEvents, WriteDonorStatus
  <2> QED BY <2>1, <2>2, <2>3, NextCases
<1>5. day' \in Days /\ clean' \in BOOLEAN /\ cut' \in BOOLEAN
  <2>1. CASE NextDay
    BY <2>1, DonationsAssumption DEF NextDay, history, TypeOK, Days
  <2>2. CASE day' = day /\ UNCHANGED history
    BY <2>2 DEF history, TypeOK
  <2>3. CASE \E p \in Workers : Begins(p) \/ Abort(p)
    BY <2>3, BeginsGets, AbortGets DEF TypeOK, Abort
  <2> QED BY <2>1, <2>2, <2>3, OutsideKeeps, StepGets, NextCases
<1> QED BY <1>1, <1>2, <1>3, <1>4, <1>5 DEF TypeOK, Works

LEMMA SourceNext ==
    ASSUME TypeOK, RequestInv, SourceInv, Next
    PROVE  SourceInv'
<1>1. \A p \in Workers : At(p, "update") => req[p].user \in Users
  BY DEF At, RequestInv, Sound
<1>2. CASE Outside
  <2>1. req' = req /\ (UNCHANGED status \/ \E u \in Users, s \in DonorStatuses : SetDonorStatus(u, s))
    BY <1>2, OutsideKeeps
  <2>2. CASE UNCHANGED status
    BY <2>1, <2>2 DEF SourceInv, status, At
  <2>3. CASE \E u \in Users, s \in DonorStatuses : SetDonorStatus(u, s)
    BY <2>1, <2>3 DEF SetDonorStatus, SourceInv, TypeOK, At
  <2> QED BY <2>1, <2>2, <2>3
<1>3. ASSUME NEW p \in Workers, Begins(p)
      PROVE  SourceInv'
  <2>1. PICK r \in Works : Gets(p, r) /\ (r.pc = "update" => HasRead(r))
    BY <1>3, BeginsGets
  <2>2. UNCHANGED status
    BY <1>3, BeginsGets
  <2>3. req'[p] = r /\ \A q \in Workers \ {p} : req'[q] = req[q]
    BY <2>1, GetsKeeps
  <2> QED BY <2>1, <2>2, <2>3 DEF SourceInv, HasRead, status, At
<1>4. ASSUME NEW p \in Workers, Step(p) \/ Abort(p)
      PROVE  SourceInv'
  <2>1. PICK r : Gets(p, r) /\ r.pc # "update"
    BY <1>4, StepGets, AbortGets
  <2>2. req'[p] = r /\ \A q \in Workers \ {p} : req'[q] = req[q]
    BY <2>1, GetsKeeps
  <2>3. CASE UNCHANGED status
    BY <2>1, <2>2, <2>3 DEF SourceInv, status, At
  <2>4. CASE WriteDonorStatus(p)
    <3>1. /\ req[p].user \in Users
          /\ donor' = [donor EXCEPT ![req[p].user] = req[p].computed]
          /\ source' = [source EXCEPT ![req[p].user] = "auto"]
          /\ adminSet' = adminSet \ {req[p].user}
      BY <2>4, WriteGets DEF WriteDonorStatus
    <3> QED BY <1>1, <2>1, <2>2, <3>1 DEF SourceInv, TypeOK, At
  <2>5. CASE UpdateUser(p)
    <3>1. /\ req[p].user \in Users /\ UNCHANGED <<source, adminSet>>
          /\ donor' = [donor EXCEPT ![req[p].user] = req[p].current] /\ At(p, "update")
      BY <2>5, UpdateUserGets DEF UpdateUser
    <3> QED BY <2>1, <2>2, <3>1 DEF SourceInv, TypeOK, At
  <2> QED BY <1>4, <2>3, <2>4, <2>5, StepGets, AbortGets
<1> QED BY <1>2, <1>3, <1>4, NextCases

LEMMA AloneNext ==
    ASSUME TypeOK, RequestInv, AloneInv, Next
    PROVE  AloneInv'
<1>1. CASE Outside
  BY <1>1, OutsideKeeps DEF history, AloneInv, Busy, At
<1>2. ASSUME NEW p \in Workers, Begins(p)
      PROVE  AloneInv'
  <2> SUFFICES ASSUME clean' PROVE AloneInv'
    BY DEF AloneInv
  <2>1. \A q \in Workers \ {p} : req'[q] = req[q] /\ At(q, "idle")
    BY <1>2, BeginsGets, GetsKeeps DEF AllIdle
  <2> QED BY <2>1 DEF AloneInv, Busy, At
<1>3. ASSUME NEW p \in Workers, Step(p)
      PROVE  AloneInv'
  <2>1. Busy(p) /\ clean' = clean /\ \A q \in Workers \ {p} : req'[q] = req[q]
    BY <1>3, StepGets, GetsKeeps DEF history
  <2> QED BY <2>1 DEF AloneInv, Busy, At
<1>4. CASE \E p \in Workers : Abort(p)
  BY <1>4, AbortGets DEF AloneInv
<1> QED BY <1>1, <1>2, <1>3, <1>4, NextCases

-----------------------------------------------------------------------------
(***************************************************************************)
(* Statuses.                                                               *)
(***************************************************************************)

\* What a step does to a user who is not on its list.
Keeps(u) ==
    \/ EntitledTo(u)' = EntitledTo(u) /\ (Lapsed(u) => Lapsed(u)')
    \/ EntitledTo(u) = "monthly_supporter" /\ Lapsed(u)'

\* The payments of u stay as they are.
LEMMA RowsKept ==
    ASSUME TypeOK, NEW u \in Users, day' = day,
           row' \in [Events -> EventRows \cup {None}],
           \A e \in Events :
              (row[e] # None /\ row[e].user = u) \/ (row'[e] # None /\ row'[e].user = u)
                 => row'[e] = row[e]
    PROVE  Keeps(u)
<1>1. \A k : OfUser(u, k)' = OfUser(u, k)
  BY DEF OfUser, Stored
<1>2. \A e \in OfUser(u, "subscription") : row'[e] = row[e]
  BY DEF OfUser, Stored
<1>3. ActiveSubscriptions(u)' = ActiveSubscriptions(u)
  BY <1>1, <1>2 DEF ActiveSubscriptions
<1>4. FreshSubscriptions(u)' = FreshSubscriptions(u)
  BY <1>2, <1>3 DEF FreshSubscriptions, ActiveSubscriptions
<1> QED BY <1>1, <1>3, <1>4 DEF Keeps, EntitledTo, Lapsed

LEMMA SameRowsKeep ==
    ASSUME TypeOK, NEW u \in Users, UNCHANGED <<row, day>>
    PROVE  Keeps(u)
BY RowsKept DEF TypeOK

\* A day later a subscription is as fresh as it was, or has lapsed.
LEMMA NextDayKeeps ==
    ASSUME TypeOK, NEW u \in Users, NextDay
    PROVE  Keeps(u)
<1>1. row' = row /\ day' = day + 1 /\ day \in Nat
  BY DonationsAssumption DEF NextDay, TypeOK, Days
<1>2. \A k : OfUser(u, k)' = OfUser(u, k)
  BY <1>1 DEF OfUser, Stored
<1>3. ActiveSubscriptions(u)' = ActiveSubscriptions(u)
  BY <1>1, <1>2 DEF ActiveSubscriptions
<1>4. FreshSubscriptions(u)' \subseteq FreshSubscriptions(u)
  <2> SUFFICES ASSUME NEW e \in ActiveSubscriptions(u), row[e].at # None, row[e].at + Grace >= day + 1
               PROVE  row[e].at + Grace >= day
    BY <1>1, <1>3 DEF FreshSubscriptions
  <2>1. row[e] \in EventRows
    BY DEF ActiveSubscriptions, OfUser, Stored, TypeOK
  <2>2. row[e].at \in Nat
    BY <2>1, DonationsAssumption DEF EventRows, Days
  <2> QED BY <1>1, <2>2, DonationsAssumption
<1>5. FreshSubscriptions(u) \subseteq ActiveSubscriptions(u)
  BY DEF FreshSubscriptions
<1>6. CASE FreshSubscriptions(u) # {} /\ FreshSubscriptions(u)' = {}
  BY <1>3, <1>5, <1>6 DEF Keeps, EntitledTo, Lapsed
<1>7. CASE FreshSubscriptions(u) = {} \/ FreshSubscriptions(u)' # {}
  BY <1>2, <1>3, <1>4, <1>7 DEF Keeps, EntitledTo, Lapsed
<1> QED BY <1>6, <1>7

\* The step of a worker that is alone: the others hold nothing.
LEMMA Alone ==
    ASSUME TypeOK, RequestInv, AloneInv, clean, NEW p \in Workers, Busy(p), NEW r, Gets(p, r)
    PROVE  /\ \A u \in Users : Awaited(u) => u \in req[p].todo
           /\ \A u \in Users : Awaited(u)' <=> u \in r.todo
           /\ \A q \in Workers \ {p} : req[q] = Idle /\ req'[q] = Idle
           /\ req'[p] = r
<1>1. \A q \in Workers \ {p} : req[q] = Idle
  BY DEF AloneInv, Busy, At, RequestInv, Sound
<1>2. req'[p] = r /\ \A q \in Workers \ {p} : req'[q] = Idle
  BY <1>1, GetsKeeps
<1>3. Idle.todo = {}
  BY DEF Idle
<1> QED BY <1>1, <1>2, <1>3 DEF Awaited

LEMMA SettledBegins ==
    ASSUME IInv, clean', NEW p \in Workers, Begins(p)
    PROVE  AllSettled'
<1>1. PICK r \in Works : /\ Gets(p, r) /\ r.pc \in {"upsert", "link", "recompute", "update"}
                         /\ r.pc = "update" => HasRead(r)
  BY BeginsGets DEF IInv
<1>2. /\ clean /\ \A q \in Workers : req[q] = Idle
      /\ UNCHANGED <<status, row, day>>
  BY BeginsGets DEF IInv, AllIdle, At, RequestInv, Sound
<1>3. req'[p] = r /\ \A q \in Workers \ {p} : req'[q] = Idle
  BY <1>1, <1>2, GetsKeeps DEF IInv
<1>4. Settled'
  <2> SUFFICES ASSUME NEW u \in Users, u \notin adminSet PROVE Due(u, donor[u])'
    BY <1>2 DEF Settled, status
  <2>1. Due(u, donor[u])
    BY <1>2 DEF IInv, SettledInv, AllSettled, Settled, Awaited, Idle
  <2>2. Keeps(u)
    BY <1>2, SameRowsKeep DEF IInv
  <2> QED BY <1>2, <2>1, <2>2 DEF Keeps, Due, status
<1>5. \A q \in Workers : ~At(q, "events")' /\ ~At(q, "write")'
  BY <1>1, <1>3 DEF At, Idle
<1>6. WritesBack'
  BY <1>1, <1>2, <1>3 DEF WritesBack, HasRead, status, At, Idle
<1> QED BY <1>4, <1>5, <1>6 DEF AllSettled, ReadsCurrent, WritesDue

\* A step after which the worker that took it neither reads nor writes next.
LEMMA SettledOnward ==
    ASSUME IInv, clean, NEW p \in Workers, Busy(p), NEW r, Gets(p, r),
           r.pc \notin {"events", "write", "update"}, Settled'
    PROVE  AllSettled'
<1>1. req'[p] = r /\ \A q \in Workers \ {p} : req'[q] = Idle
  BY Alone DEF IInv
<1>2. \A q \in Workers : ~At(q, "events")' /\ ~At(q, "write")' /\ ~At(q, "update")'
  BY <1>1 DEF At, Idle
<1> QED BY <1>2 DEF AllSettled, ReadsCurrent, WritesDue, WritesBack

\* The users whose payments a step changes are on its list afterwards.
LEMMA SettledRows ==
    ASSUME IInv, clean, NEW p \in Workers, Busy(p), NEW r, Gets(p, r),
           UNCHANGED <<donor, adminSet>>,
           req[p].todo \subseteq r.todo,
           \A u \in Users \ r.todo : Keeps(u)
    PROVE  Settled'
<1> SUFFICES ASSUME NEW u \in Users, u \notin adminSet, u \notin r.todo
             PROVE  Due(u, donor[u])'
  BY Alone DEF IInv, Settled
<1>1. Due(u, donor[u])
  BY Alone DEF IInv, SettledInv, AllSettled, Settled
<1> QED BY <1>1 DEF Keeps, Due

LEMMA SettledStep ==
    ASSUME IInv, clean, NEW p \in Workers, Step(p)
    PROVE  AllSettled'
<1>0. /\ TypeOK /\ RequestInv /\ SourceInv /\ AloneInv
      /\ Settled /\ ReadsCurrent /\ WritesDue /\ WritesBack
  BY DEF IInv, SettledInv, AllSettled
<1>1. Busy(p) /\ day' = day
  BY <1>0, StepGets
<1>2. CASE ImportNext(p)
  <2>1. PICK x \in Reports, n \in 0..MaxItems :
          \E o \in Owners(AddressOf[x.event]) : Gets(p, Found(x, o, n, req[p].todo))
    BY <1>0, <1>2, ImportNextGets
  <2>2. PICK o : Gets(p, Found(x, o, n, req[p].todo))
    BY <2>1
  <2>3. /\ Found(x, o, n, req[p].todo).todo = req[p].todo
        /\ Found(x, o, n, req[p].todo).pc = "upsert"
    BY DEF Found, Idle
  <2>4. UNCHANGED <<donor, adminSet, row>>
    BY <1>2 DEF ImportNext, status
  <2>5. Settled'
    BY <1>0, <1>1, <2>2, <2>3, <2>4, SameRowsKeep, SettledRows
  <2> QED BY <1>1, <2>2, <2>3, <2>5, SettledOnward
<1>3. CASE UpsertDonationEvent(p)
  <2> DEFINE x == req[p].item
             saved == Upserted(x, req[p].owner)
  <2>1. /\ x \in Reports /\ saved \in EventRows
        /\ row' = [row EXCEPT ![x.event] = saved]
    BY <1>0, <1>3, UpsertGets
  <2>2. PICK r \in Works : /\ Gets(p, r)
                           /\ r.todo = req[p].todo \cup ({saved.user} \ {None})
                           /\ r.pc \in {"idle", "recompute", "drop_claim", "lookup"}
    BY <1>0, <1>3, UpsertGets
  <2>3. UNCHANGED <<donor, adminSet>>
    BY <1>3 DEF UpsertDonationEvent, status
  <2>4. ASSUME NEW u \in Users \ r.todo
        PROVE  Keeps(u)
    <3>1. saved.user # u /\ x.event \in Events
      BY <2>1, <2>2, ReportsType, DonationsAssumption
    <3>2. ~(row[x.event] # None /\ row[x.event].user = u)
      BY <3>1, DonationsAssumption DEF Upserted, Stored
    <3>3. row' \in [Events -> EventRows \cup {None}]
      BY <1>0, <2>1 DEF TypeOK
    <3>4. \A e \in Events : IF e = x.event THEN row'[e] = saved ELSE row'[e] = row[e]
      BY <1>0, <2>1 DEF TypeOK
    <3>5. \A e \in Events :
             (row[e] # None /\ row[e].user = u) \/ (row'[e] # None /\ row'[e].user = u)
                => row'[e] = row[e]
      BY <3>1, <3>2, <3>4
    <3> QED BY <1>0, <1>1, <3>3, <3>5, RowsKept
  <2>5. Settled'
    BY <1>1, <2>2, <2>3, <2>4, SettledRows
  <2> QED BY <1>1, <2>2, <2>5, SettledOnward
<1>4. CASE LinkDonationEventsByEmail(p)
  <2>1. PICK r \in Works : /\ Gets(p, r) /\ r.todo = {req[p].user}
                           /\ r.pc \in {"idle", "recompute", "drop_claim"}
    BY <1>0, <1>4, LinkGets
  <2>2. UNCHANGED <<donor, adminSet>> /\ row' = Linked(p)
    BY <1>4 DEF LinkDonationEventsByEmail, status
  <2>3. req[p].todo = {} /\ req[p].user \in Users
    BY <1>0, <1>4, LinkGets
  <2>4. ASSUME NEW u \in Users \ r.todo
        PROVE  Keeps(u)
    <3>1. row' \in [Events -> EventRows \cup {None}]
      BY <1>0, <2>2, <2>3, LinkedType
    <3>2. \A e \in Unclaimed(req[p].from) :
             row[e] \in EventRows /\ row[e].user = None /\ row'[e].user = req[p].user
      <4> SUFFICES ASSUME NEW e \in Unclaimed(req[p].from)
                   PROVE  row[e] \in EventRows /\ row[e].user = None /\ row'[e].user = req[p].user
        OBVIOUS
      <4>1. e \in Events /\ row[e] \in EventRows /\ row[e].user = None
        BY <1>0 DEF Unclaimed, Stored, TypeOK
      <4>2. row'[e] = [row[e] EXCEPT !.user = req[p].user]
        BY <2>2, <4>1 DEF Linked
      <4> QED BY <4>1, <4>2 DEF EventRows
    <3>3. \A e \in Events \ Unclaimed(req[p].from) : row'[e] = row[e]
      BY <2>2 DEF Linked
    <3>4. u # req[p].user /\ u # None
      BY <2>1, DonationsAssumption
    <3> QED BY <1>0, <1>1, <3>1, <3>2, <3>3, <3>4, RowsKept
  <2>5. Settled'
    BY <1>1, <2>1, <2>2, <2>3, <2>4, SettledRows
  <2> QED BY <1>1, <2>1, <2>5, SettledOnward
<1>5. CASE DeleteDonorClaim(p) \/ UpdateUserFails(p)
  <2>1. Gets(p, Idle) /\ UNCHANGED <<donor, adminSet, row>>
    BY <1>5, IdleSound DEF DeleteDonorClaim, UpdateUserFails, Gets, status
  <2>2. req[p].todo = {} /\ Idle.todo = {} /\ Idle.pc = "idle"
    BY <1>0, <1>5 DEF DeleteDonorClaim, UpdateUserFails, At, RequestInv, Sound, Idle
  <2>3. Settled'
    BY <1>0, <1>1, <2>1, <2>2, SameRowsKeep, SettledRows
  <2> QED BY <1>1, <2>1, <2>2, <2>3, SettledOnward
<1>6. CASE ReadDonorStatus(p)
  <2>1. PICK u \in req[p].todo, r \in Works :
             /\ Gets(p, r)
             /\ \/ /\ source[u] = "admin" /\ r.pc \in {"idle", "recompute", "drop_claim"}
                \/ /\ r.pc = "events" /\ r.todo = req[p].todo
                   /\ r.user = u /\ r.current = donor[u]
    BY <1>0, <1>6, ReadStatusGets
  <2>2. u \in Users
    BY <1>0 DEF RequestInv, Sound, Works
  <2>3. /\ r.pc = "events" /\ r.todo = req[p].todo
        /\ r.user = u /\ r.current = donor[u]
    BY <1>0, <2>1, <2>2 DEF SourceInv
  <2>4. UNCHANGED <<donor, adminSet, row>>
    BY <1>6 DEF ReadDonorStatus, status
  <2>5. Settled'
    BY <1>0, <1>1, <2>1, <2>3, <2>4, SameRowsKeep, SettledRows
  <2>6. req'[p] = r /\ \A q \in Workers \ {p} : req'[q] = Idle
    BY <1>0, <1>1, <2>1, Alone
  <2>7. ReadsCurrent'
    BY <2>3, <2>4, <2>6 DEF ReadsCurrent, At, Idle
  <2>8. WritesDue'
    BY <2>3, <2>6 DEF WritesDue, At, Idle
  <2>9. WritesBack'
    BY <2>3, <2>6 DEF WritesBack, At, Idle
  <2> QED BY <2>5, <2>7, <2>8, <2>9 DEF AllSettled
<1>7. CASE ReadDonationEvents(p)
  <2>0. PICK u \in Users : u = req[p].user
    BY <1>0, <1>7 DEF ReadDonationEvents, At, RequestInv, Sound, Works
  <2>1. PICK r \in Works :
             /\ Gets(p, r)
             /\ \/ /\ EntitledTo(u) = req[p].current
                   /\ r.todo = req[p].todo \ {u}
                   /\ r.pc \in {"idle", "recompute", "drop_claim"}
                \/ /\ r.pc = "write" /\ r.todo = req[p].todo /\ r.user = u
                   /\ r.computed = EntitledTo(u)
    BY <1>0, <1>7, <2>0, ReadEventsGets
  <2>2. UNCHANGED <<donor, adminSet, row>> /\ At(p, "events")
    BY <1>7 DEF ReadDonationEvents, status
  <2>4. CASE r.pc # "write"
    <3>1. Settled'
      <4> SUFFICES ASSUME NEW v \in Users, v \notin adminSet, v \notin r.todo
                   PROVE  Due(v, donor[v])'
        BY <1>0, <1>1, <2>1, <2>2, Alone DEF Settled
      <4>1. v = u => Due(v, donor[v])
        BY <1>0, <2>0, <2>1, <2>2, <2>4 DEF ReadsCurrent, Due
      <4>2. v # u => Due(v, donor[v])
        BY <1>0, <1>1, <2>1, <2>4, Alone DEF Settled
      <4>3. Keeps(v)
        BY <1>0, <1>1, <2>2, SameRowsKeep
      <4> QED BY <2>2, <4>1, <4>2, <4>3 DEF Keeps, Due
    <3> QED BY <1>1, <2>1, <2>4, <3>1, SettledOnward
  <2>5. CASE r.pc = "write"
    <3>1. r.todo = req[p].todo /\ r.user = u /\ r.computed = EntitledTo(u)
      BY <2>1, <2>5
    <3>2. Settled'
      BY <1>0, <1>1, <2>1, <2>2, <3>1, SameRowsKeep, SettledRows
    <3>3. req'[p] = r /\ \A q \in Workers \ {p} : req'[q] = Idle
      BY <1>0, <1>1, <2>1, Alone
    <3>4. ReadsCurrent'
      BY <2>5, <3>3 DEF ReadsCurrent, At, Idle
    <3>5. Keeps(u)
      BY <1>0, <1>1, <2>2, SameRowsKeep
    <3>6. Due(u, r.computed)
      BY <3>1 DEF Due
    <3>7. \A q \in Workers : At(q, "write")' => q = p
      BY <3>3 DEF At, Idle
    <3>8. Due(req[p].user, req[p].computed)'
      BY <3>1, <3>3, <3>5, <3>6 DEF Keeps, Due
    <3>9. WritesDue'
      BY <3>7, <3>8 DEF WritesDue
    <3>10. WritesBack'
      BY <2>5, <3>3 DEF WritesBack, At, Idle
    <3> QED BY <3>2, <3>4, <3>9, <3>10 DEF AllSettled
  <2> QED BY <2>4, <2>5
<1>8. CASE WriteDonorStatus(p)
  <2> DEFINE u == req[p].user
  <2>1. PICK r \in Works : /\ Gets(p, r) /\ r.todo = req[p].todo \ {u}
                           /\ r.pc \in {"idle", "recompute", "drop_claim"}
    BY <1>0, <1>8, WriteGets
  <2>2. /\ u \in Users /\ At(p, "write") /\ row' = row
        /\ donor' = [donor EXCEPT ![u] = req[p].computed]
        /\ adminSet' = adminSet \ {u}
    BY <1>0, <1>8, WriteGets DEF WriteDonorStatus
  <2>3. Settled'
    <3> SUFFICES ASSUME NEW v \in Users, v \notin adminSet', v \notin r.todo
                 PROVE  Due(v, donor[v])'
      BY <1>0, <1>1, <2>1, Alone DEF Settled
    <3>1. Keeps(v)
      BY <1>0, <1>1, <2>2, SameRowsKeep
    <3>2. CASE v = u
      <4>1. Due(v, req[p].computed) /\ donor'[v] = req[p].computed
        BY <1>0, <2>2, <3>2 DEF WritesDue, TypeOK
      <4> QED BY <3>1, <4>1 DEF Keeps, Due
    <3>3. CASE v # u
      <4>1. Due(v, donor[v])
        BY <1>0, <1>1, <2>1, <2>2, <3>3, Alone DEF Settled
      <4>2. donor'[v] = donor[v]
        BY <1>0, <2>2, <3>3 DEF TypeOK
      <4> QED BY <3>1, <4>1, <4>2 DEF Keeps, Due
    <3> QED BY <3>2, <3>3
  <2> QED BY <1>1, <2>1, <2>3, SettledOnward
<1>9. CASE UpdateUser(p)
  <2> DEFINE u == req[p].user
  <2>1. PICK r \in Works : Gets(p, r) /\ r.todo = {} /\ r.pc \in {"idle", "link"}
    BY <1>0, <1>9, UpdateUserGets
  <2>2. /\ u \in Users /\ req[p].todo = {} /\ At(p, "update")
        /\ donor' = [donor EXCEPT ![u] = req[p].current] /\ UNCHANGED <<adminSet, row>>
    BY <1>0, <1>9, UpdateUserGets DEF UpdateUser
  <2>3. Settled'
    <3> SUFFICES ASSUME NEW v \in Users, v \notin adminSet PROVE Due(v, donor[v])'
      BY <2>2 DEF Settled
    <3>1. Due(v, donor[v]) /\ Keeps(v)
      BY <1>0, <1>1, <2>1, <2>2, Alone, SameRowsKeep DEF Settled
    <3>2. donor'[v] = donor[v]
      BY <1>0, <2>2 DEF WritesBack, TypeOK
    <3> QED BY <3>1, <3>2 DEF Keeps, Due
  <2> QED BY <1>1, <2>1, <2>3, SettledOnward
<1> QED BY <1>2, <1>3, <1>4, <1>5, <1>6, <1>7, <1>8, <1>9 DEF Step

LEMMA SettledNext ==
    ASSUME IInv, Next
    PROVE  SettledInv'
<1> SUFFICES ASSUME clean' PROVE AllSettled'
  BY DEF SettledInv
<1>1. CASE Outside
  <2>0. clean /\ req' = req /\ row' = row /\ TypeOK /\ RequestInv
    BY <1>1, OutsideKeeps DEF IInv, history
  <2>1. Settled /\ ReadsCurrent /\ WritesDue /\ WritesBack
    BY <2>0 DEF IInv, SettledInv, AllSettled
  <2>2. \A u \in Users : Keeps(u)
    BY <1>1, <2>0, OutsideKeeps, SameRowsKeep, NextDayKeeps
  <2>3. \A u \in Users : u \in adminSet => u \in adminSet'
    BY <1>1, OutsideKeeps DEF SetDonorStatus, status
  <2>4. \A u \in Users : donor'[u] = donor[u] \/ u \in adminSet'
    BY <1>1, <2>0, OutsideKeeps DEF SetDonorStatus, status, TypeOK
  <2>5. Settled'
    <3> SUFFICES ASSUME NEW u \in Users, u \notin adminSet', ~Awaited(u)'
                 PROVE  Due(u, donor[u])'
      BY DEF Settled
    <3>1. Due(u, donor[u])
      BY <2>0, <2>1, <2>3 DEF Settled, Awaited
    <3> QED BY <2>2, <2>4, <3>1 DEF Keeps, Due
  <2>6. \A p \in Workers :
           At(p, "events") \/ At(p, "write") \/ At(p, "update") => req[p].user \in Users
    BY <2>0 DEF At, RequestInv, Sound, Works
  <2>7. ReadsCurrent'
    BY <2>0, <2>1, <2>3, <2>4, <2>6 DEF ReadsCurrent, At
  <2>8. WritesDue'
    <3> SUFFICES ASSUME NEW p \in Workers, At(p, "write")
                 PROVE  Due(req[p].user, req[p].computed)'
      BY <2>0 DEF WritesDue, At
    <3>1. Due(req[p].user, req[p].computed) /\ Keeps(req[p].user)
      BY <2>1, <2>2, <2>6 DEF WritesDue
    <3> QED BY <2>0, <3>1 DEF Keeps, Due
  <2>9. WritesBack'
    BY <2>0, <2>1, <2>3, <2>4, <2>6 DEF WritesBack, At
  <2> QED BY <2>5, <2>7, <2>8, <2>9 DEF AllSettled
<1>2. CASE \E p \in Workers : Begins(p) \/ Step(p) \/ Abort(p)
  <2> PICK p \in Workers : Begins(p) \/ Step(p) \/ Abort(p)
    BY <1>2
  <2>1. CASE Begins(p)
    BY <2>1, SettledBegins
  <2>2. CASE Step(p)
    BY <2>2, SettledStep, StepGets DEF IInv, history
  <2>3. CASE Abort(p)
    BY <2>3, AbortGets
  <2> QED BY <2>1, <2>2, <2>3
<1> QED BY <1>1, <1>2, NextCases

-----------------------------------------------------------------------------
(***************************************************************************)
(* Verified addresses.                                                     *)
(***************************************************************************)

\* A worker that looks for the owner of a payment finds whoever has its address.
LEMMA FoundOwner ==
    ASSUME NEW x \in Reports, NEW o \in Owners(AddressOf[x.event]), NEW n, NEW t,
           NEW u \in Users
    PROVE  address[u] = AddressOf[Found(x, o, n, t).item.event] => Found(x, o, n, t).owner # None
BY DonationsAssumption DEF Owners, Found, Idle

LEMMA BeginsOwner ==
    ASSUME TypeOK, RequestInv, NEW p \in Workers, Begins(p), NEW u \in Users,
           req'[p].pc = "upsert", address[u] = AddressOf[req'[p].item.event]
    PROVE  req'[p].owner # None
<1>1. CASE p \in Procs /\ (HandleKofi(p) \/ HandlePatreon(p) \/ ImportDonations(p))
  <2>1. PICK x \in Reports, n \in 0..MaxItems : Receive(p, x, n)
    BY <1>1, RequestReceives
  <2>2. PICK o \in Owners(AddressOf[x.event]) : Gets(p, Found(x, o, n, {}))
    BY <2>1, ReceiveGets
  <2>3. req'[p] = Found(x, o, n, {})
    BY <2>2, GetsKeeps
  <2> QED BY <2>3, FoundOwner
<1>2. CASE p \in Procs /\ Asks(p)
  BY <1>2, AsksGets, GetsKeeps
<1>3. CASE p \in Procs /\ \E v \in Users : ClaimVerify(p, v)
  BY <1>3, ClaimVerifyGets, GetsKeeps
<1>4. CASE p = Job /\ ExpireStaleSubscriptions
  BY <1>4, ExpireGets, GetsKeeps
<1> QED BY <1>1, <1>2, <1>3, <1>4 DEF Begins

LEMMA VerifiedBegins ==
    ASSUME IInv, clean', NEW p \in Workers, Begins(p)
    PROVE  AllVerified'
<1>1. PICK r \in Works : Gets(p, r) /\ (r.pc = "update" => HasRead(r))
  BY BeginsGets DEF IInv
<1>2. /\ clean /\ \A q \in Workers : At(q, "idle")
      /\ UNCHANGED <<row, address, verified>>
  BY BeginsGets DEF IInv, AllIdle, accounts
<1>3. req'[p] = r /\ \A q \in Workers \ {p} : ~At(q, "upsert")' /\ ~At(q, "update")'
  BY <1>1, <1>2, GetsKeeps DEF IInv, At
<1>4. OwnersFound'
  BY <1>2, <1>3, BeginsOwner DEF OwnersFound, At, IInv
<1>5. AllTheirs'
  <2> SUFFICES ASSUME NEW u \in Users, verified[u]
               PROVE  Unclaimed(address[u])' = {}
    BY <1>2 DEF AllTheirs, Theirs
  <2>1. Unclaimed(address[u]) = {}
    BY <1>2 DEF IInv, VerifiedInv, AllVerified, AllTheirs, Theirs, Linking, At
  <2> QED BY <1>2, <2>1 DEF Unclaimed, Stored
<1>6. ProvesAddress'
  BY <1>1, <1>2, <1>3 DEF ProvesAddress, HasRead, At
<1> QED BY <1>4, <1>5, <1>6 DEF AllVerified

\* Only the worker that links an address may still owe its owner donations.
LEMMA NotLinking ==
    ASSUME IInv, clean, NEW p \in Workers, Busy(p), ~At(p, "link"), NEW u \in Users, verified[u]
    PROVE  Unclaimed(address[u]) = {}
BY DEF IInv, VerifiedInv, AllVerified, AllTheirs, Theirs, Linking, AloneInv, Busy, At

LEMMA VerifiedOnward ==
    ASSUME IInv, clean, NEW p \in Workers, Busy(p), NEW r, Gets(p, r), r.pc # "update",
           UNCHANGED accounts,
           \A u \in Users :
              r.pc = "upsert" /\ address[u] = AddressOf[r.item.event] => r.owner # None,
           \A u \in Users : verified[u] => Unclaimed(address[u])' = {}
    PROVE  AllVerified'
<1>1. req'[p] = r /\ \A q \in Workers \ {p} : req'[q] = Idle
  BY Alone DEF IInv
<1>2. \A q \in Workers \ {p} : ~At(q, "upsert")' /\ ~At(q, "update")'
  BY <1>1 DEF At, Idle
<1>3. OwnersFound'
  BY <1>1, <1>2 DEF OwnersFound, At, accounts
<1>4. AllTheirs'
  BY DEF AllTheirs, Theirs, accounts
<1>5. ProvesAddress'
  BY <1>1, <1>2 DEF ProvesAddress, At
<1> QED BY <1>3, <1>4, <1>5 DEF AllVerified

LEMMA VerifiedStep ==
    ASSUME IInv, clean, NEW p \in Workers, Step(p)
    PROVE  AllVerified'
<1>0. /\ TypeOK /\ RequestInv /\ SourceInv /\ AloneInv
      /\ AllTheirs /\ OwnersFound /\ ProvesAddress
  BY DEF IInv, VerifiedInv, AllVerified
<1>1. Busy(p) /\ (UNCHANGED accounts \/ UpdateUser(p))
  BY <1>0, StepGets
<1>10. CASE UpdateUser(p)
  <2> DEFINE u == req[p].user
  <2>1. PICK r \in Works : /\ Gets(p, r) /\ r.pc \in {"idle", "link"}
                           /\ req[p].links => r.pc = "link" /\ r.from = req[p].from
    BY <1>0, <1>10, UpdateUserGets
  <2>2. /\ u \in Users /\ At(p, "update") /\ row' = row
        /\ address' = [address EXCEPT ![u] = req[p].from]
        /\ verified' = [verified EXCEPT ![u] = req[p].verified]
    BY <1>0, <1>10, UpdateUserGets DEF UpdateUser
  <2>3. req'[p] = r /\ \A q \in Workers \ {p} : req'[q] = Idle
    BY <1>0, <1>1, <2>1, Alone
  <2>4. \A q \in Workers : ~At(q, "upsert")' /\ ~At(q, "update")'
    BY <2>1, <2>3 DEF At, Idle
  <2>5. OwnersFound' /\ ProvesAddress'
    BY <2>4 DEF OwnersFound, ProvesAddress
  <2>6. ASSUME NEW v \in Users, verified'[v]
        PROVE  Theirs(v)'
    <3>1. CASE verified[v]
      <4>1. address'[v] = address[v]
        BY <1>0, <2>2, <2>6 DEF ProvesAddress, TypeOK
      <4>2. Unclaimed(address[v]) = {}
        BY <1>1, <2>2, <3>1, NotLinking DEF At
      <4> QED BY <2>2, <4>1, <4>2 DEF Theirs, Unclaimed, Stored
    <3>2. CASE ~verified[v]
      <4>1. v = u /\ req[p].verified
        BY <1>0, <2>2, <2>6, <3>2 DEF TypeOK
      <4>2. req[p].links /\ address'[v] = req[p].from
        BY <1>0, <2>2, <3>2, <4>1 DEF ProvesAddress, TypeOK
      <4> QED BY <2>1, <2>3, <4>2 DEF Theirs, Linking, At
    <3> QED BY <3>1, <3>2
  <2> QED BY <2>5, <2>6 DEF AllVerified, AllTheirs
<1>2. CASE UpsertDonationEvent(p)
  <2> DEFINE x == req[p].item
             saved == Upserted(x, req[p].owner)
  <2>1. /\ x \in Reports /\ saved \in EventRows
        /\ row' = [row EXCEPT ![x.event] = saved]
    BY <1>0, <1>2, UpsertGets
  <2>2. PICK r \in Works : Gets(p, r) /\ r.pc \in {"idle", "recompute", "drop_claim", "lookup"}
    BY <1>0, <1>2, UpsertGets
  <2>3. At(p, "upsert")
    BY <1>2 DEF UpsertDonationEvent
  <2>4. ASSUME NEW u \in Users, verified[u]
        PROVE  Unclaimed(address[u])' = {}
    <3>1. Unclaimed(address[u]) = {} /\ address' = address
      BY <1>1, <1>2, <2>3, <2>4, NotLinking DEF UpsertDonationEvent, At, accounts
    <3>2. \A e \in Events : IF e = x.event THEN row'[e] = saved ELSE row'[e] = row[e]
      BY <1>0, <2>1 DEF TypeOK
    <3>3. AddressOf[x.event] = address[u] => req[p].owner # None
      BY <1>0, <2>3, <2>4 DEF OwnersFound
    <3>4. AddressOf[x.event] = address[u] => saved.user # None
      BY <3>3 DEF Upserted
    <3> QED BY <3>1, <3>2, <3>4 DEF Unclaimed, Stored
  <2>5. UNCHANGED accounts
    BY <1>2 DEF UpsertDonationEvent
  <2> QED BY <1>1, <2>2, <2>4, <2>5, VerifiedOnward
<1>3. CASE LinkDonationEventsByEmail(p)
  <2>1. PICK r \in Works : Gets(p, r) /\ r.pc \in {"idle", "recompute", "drop_claim"}
    BY <1>0, <1>3, LinkGets
  <2>2. req[p].user \in Users /\ row' = Linked(p) /\ At(p, "link")
    BY <1>0, <1>3, LinkGets DEF LinkDonationEventsByEmail
  <2>3. \A e \in Events :
           IF e \in Unclaimed(req[p].from) THEN row'[e].user # None ELSE row'[e] = row[e]
    <3> SUFFICES ASSUME NEW e \in Events, e \in Unclaimed(req[p].from)
                 PROVE  row'[e].user # None
      BY <2>2 DEF Linked
    <3>1. row[e] \in EventRows /\ row'[e] = [row[e] EXCEPT !.user = req[p].user]
      BY <1>0, <2>2 DEF Linked, Unclaimed, Stored, TypeOK
    <3>2. row'[e].user = req[p].user
      BY <3>1 DEF EventRows
    <3> QED BY <2>2, <3>2, DonationsAssumption
  <2>4. ASSUME NEW u \in Users, verified[u]
        PROVE  Unclaimed(address[u])' = {}
    <3>1. address' = address
      BY <1>3 DEF LinkDonationEventsByEmail, accounts
    <3>2. address[u] = req[p].from \/ Unclaimed(address[u]) = {}
      BY <1>0, <1>1, <2>2, <2>4 DEF AllTheirs, Theirs, Linking, AloneInv, Busy, At
    <3> QED BY <2>3, <3>1, <3>2 DEF Unclaimed, Stored
  <2>5. UNCHANGED accounts
    BY <1>3 DEF LinkDonationEventsByEmail
  <2> QED BY <1>1, <2>1, <2>4, <2>5, VerifiedOnward
<1>4. ASSUME row' = row, UNCHANGED accounts, ~At(p, "link"), NEW r, Gets(p, r), r.pc # "update",
             \A u \in Users :
                r.pc = "upsert" /\ address[u] = AddressOf[r.item.event] => r.owner # None
      PROVE  AllVerified'
  <2>1. \A u \in Users : verified[u] => Unclaimed(address[u])' = {}
    BY <1>1, <1>4, NotLinking DEF Unclaimed, Stored, accounts
  <2> QED BY <1>1, <1>4, <2>1, VerifiedOnward
<1>5. CASE ImportNext(p)
  <2>1. PICK x \in Reports, n \in 0..MaxItems :
          \E o \in Owners(AddressOf[x.event]) : Gets(p, Found(x, o, n, req[p].todo))
    BY <1>0, <1>5, ImportNextGets
  <2>2. PICK o \in Owners(AddressOf[x.event]) : Gets(p, Found(x, o, n, req[p].todo))
    BY <2>1
  <2>3. row' = row /\ ~At(p, "link") /\ UNCHANGED accounts
    BY <1>5 DEF ImportNext, At
  <2>4. Found(x, o, n, req[p].todo).pc = "upsert"
    BY DEF Found, Idle
  <2> QED BY <1>4, <2>2, <2>3, <2>4, FoundOwner
<1>6. CASE DeleteDonorClaim(p) \/ UpdateUserFails(p)
  <2>1. /\ Gets(p, Idle) /\ row' = row /\ ~At(p, "link") /\ Idle.pc = "idle"
        /\ UNCHANGED accounts
    BY <1>6, IdleSound DEF DeleteDonorClaim, UpdateUserFails, Gets, At, Idle
  <2> QED BY <1>4, <2>1
<1>7. CASE ReadDonorStatus(p)
  <2>1. PICK r \in Works : Gets(p, r) /\ r.pc \notin {"upsert", "update"}
    BY <1>0, <1>7, ReadStatusGets
  <2>2. row' = row /\ ~At(p, "link") /\ UNCHANGED accounts
    BY <1>7 DEF ReadDonorStatus, At
  <2> QED BY <1>4, <2>1, <2>2
<1>8. CASE ReadDonationEvents(p)
  <2>1. PICK r \in Works : Gets(p, r) /\ r.pc \notin {"upsert", "update"}
    BY <1>0, <1>8, ReadEventsGets
  <2>2. row' = row /\ ~At(p, "link") /\ UNCHANGED accounts
    BY <1>8 DEF ReadDonationEvents, At
  <2> QED BY <1>4, <2>1, <2>2
<1>9. CASE WriteDonorStatus(p)
  <2>1. PICK r \in Works : Gets(p, r) /\ r.pc \notin {"upsert", "update"}
    BY <1>0, <1>9, WriteGets
  <2>2. row' = row /\ ~At(p, "link") /\ UNCHANGED accounts
    BY <1>9 DEF WriteDonorStatus, At
  <2> QED BY <1>4, <2>1, <2>2
<1> QED BY <1>2, <1>3, <1>5, <1>6, <1>7, <1>8, <1>9, <1>10 DEF Step

LEMMA VerifiedNext ==
    ASSUME IInv, Next
    PROVE  VerifiedInv'
<1>0. /\ TypeOK /\ RequestInv /\ \A u \in Users : verified[u] => address[u] # None
      /\ \A p \in Workers : At(p, "update") => address[req[p].user] # None
      /\ clean => AllTheirs /\ OwnersFound /\ ProvesAddress
      /\ \A p \in Workers : At(p, "update") => req[p].user \in Users
  BY DEF IInv, VerifiedInv, AllVerified, RequestInv, Sound, At
<1>1. CASE Outside
  <2>1. UNCHANGED <<row, req, clean>>
    BY <1>1, OutsideKeeps DEF history
  <2>2. \A u \in Users : /\ verified'[u] = verified[u]
                         /\ address[u] # None => address'[u] = address[u]
    <3>1. CASE \E u \in Users, m \in Addresses : Register(u, m)
      BY <1>0, <3>1 DEF Register, Registered, TypeOK
    <3>2. CASE UNCHANGED accounts
      BY <3>2 DEF accounts
    <3> QED BY <1>1, <3>1, <3>2, OutsideKeeps
  <2>3. AllTheirs => AllTheirs'
    BY <1>0, <2>1, <2>2 DEF AllTheirs, Theirs, Linking, At, Unclaimed, Stored
  <2>4. OwnersFound => OwnersFound'
    BY <1>0, <2>1, <2>2 DEF OwnersFound, At
  <2>5. ProvesAddress => ProvesAddress'
    BY <1>0, <2>1, <2>2 DEF ProvesAddress, At
  <2>6. \A p \in Workers : At(p, "update")' => address'[req'[p].user] # None
    BY <1>0, <2>1, <2>2 DEF At
  <2> QED BY <1>0, <2>1, <2>2, <2>3, <2>4, <2>5, <2>6 DEF VerifiedInv, AllVerified
<1>2. ASSUME NEW p \in Workers, Begins(p)
      PROVE  VerifiedInv'
  <2>1. PICK r \in Works : Gets(p, r) /\ (r.pc = "update" => HasRead(r))
    BY <1>0, <1>2, BeginsGets
  <2>2. UNCHANGED <<address, verified>>
    BY <1>0, <1>2, BeginsGets DEF accounts
  <2>3. req'[p] = r /\ \A q \in Workers \ {p} : req'[q] = req[q]
    BY <1>0, <2>1, GetsKeeps
  <2>4. \A q \in Workers : At(q, "update")' => address'[req'[q].user] # None
    BY <1>0, <2>1, <2>2, <2>3 DEF HasRead, At
  <2> QED BY <1>0, <1>2, <2>2, <2>4, VerifiedBegins DEF VerifiedInv
<1>3. ASSUME NEW p \in Workers, Step(p) \/ Abort(p)
      PROVE  VerifiedInv'
  <2>1. PICK r : Gets(p, r) /\ r.pc # "update"
    BY <1>0, <1>3, StepGets, AbortGets
  <2>2. req'[p] = r /\ \A q \in Workers \ {p} : req'[q] = req[q]
    BY <1>0, <2>1, GetsKeeps
  <2>3. \A u \in Users : /\ address[u] # None => address'[u] # None
                         /\ verified'[u] => address'[u] # None
    <3>1. CASE UNCHANGED accounts
      BY <1>0, <3>1 DEF accounts
    <3>2. CASE UpdateUser(p)
      <4>1. /\ req[p].user \in Users /\ req[p].from \in Addresses
            /\ address' = [address EXCEPT ![req[p].user] = req[p].from]
            /\ verified' = [verified EXCEPT ![req[p].user] = req[p].verified]
        BY <1>0, <3>2, UpdateUserGets
      <4> QED BY <1>0, <4>1, DonationsAssumption DEF TypeOK
    <3> QED BY <1>0, <1>3, <3>1, <3>2, StepGets, AbortGets
  <2>4. \A q \in Workers : At(q, "update")' => address'[req'[q].user] # None
    BY <1>0, <2>1, <2>2, <2>3 DEF At
  <2>5. clean' => AllVerified'
    <3>1. CASE Step(p)
      BY <1>0, <3>1, StepGets, VerifiedStep DEF history
    <3>2. CASE Abort(p)
      BY <3>2, AbortGets
    <3> QED BY <1>3, <3>1, <3>2
  <2> QED BY <2>3, <2>4, <2>5 DEF VerifiedInv
<1> QED BY <1>1, <1>2, <1>3, NextCases

-----------------------------------------------------------------------------
(***************************************************************************)
(* The theorems.                                                           *)
(***************************************************************************)

LEMMA InitInv == Init => IInv
<1> SUFFICES ASSUME Init PROVE IInv
  OBVIOUS
<1>1. \A p \in Workers : req[p] = Idle
  BY DEF Init
<1>2. TypeOK
  <2>1. req \in [Workers -> Works]
    BY IdleSound DEF Init, Sound
  <2>2. day \in Days /\ DonorStatuses = {"none", "supporter", "monthly_supporter"}
    BY DonationsAssumption DEF Init, Days, DonorStatuses
  <2>3. /\ address \in [Users -> Addresses \cup {None}] /\ claim \in [Users -> Addresses \cup {None}]
        /\ verified \in [Users -> BOOLEAN] /\ donor \in [Users -> DonorStatuses]
        /\ source \in [Users -> {"none", "auto", "admin"}]
        /\ row \in [Events -> EventRows \cup {None}]
    BY <2>2 DEF Init
  <2> QED BY <2>1, <2>2, <2>3 DEF Init, TypeOK, Works
<1>3. RequestInv /\ AloneInv /\ ReadsCurrent /\ WritesDue /\ WritesBack
  BY <1>1, IdleSound
     DEF RequestInv, AloneInv, ReadsCurrent, WritesDue, WritesBack, Busy, At, Idle
<1>4. SourceInv
  BY <1>1 DEF Init, SourceInv, At, Idle
<1>5. Settled
  BY DEF Init, Settled, Due, EntitledTo, FreshSubscriptions, ActiveSubscriptions, OfUser, Stored
<1>6. VerifiedInv
  BY <1>1 DEF Init, VerifiedInv, AllVerified, AllTheirs, OwnersFound, ProvesAddress, At, Idle
<1> QED BY <1>2, <1>3, <1>4, <1>5, <1>6 DEF IInv, SettledInv, AllSettled

LEMMA NextInv == IInv /\ [Next]_vars => IInv'
<1> SUFFICES ASSUME IInv, [Next]_vars PROVE IInv'
  OBVIOUS
<1>1. CASE Next
  BY <1>1, TypeNext, SourceNext, AloneNext, SettledNext, VerifiedNext DEF IInv
<1>2. CASE UNCHANGED vars
  <2>1. TypeOK' /\ RequestInv' /\ SourceInv' /\ AloneInv'
    BY <1>2 DEF vars, IInv, TypeOK, RequestInv, SourceInv, AloneInv, Busy, At
  <2>2. \A u \in Users : /\ EntitledTo(u)' = EntitledTo(u)
                         /\ Lapsed(u)' = Lapsed(u) /\ Theirs(u)' = Theirs(u)
    BY <1>2 DEF vars, EntitledTo, Lapsed, Theirs, Linking, FreshSubscriptions,
                ActiveSubscriptions, OfUser, Unclaimed, Stored, At
  <2>3. \A p \in Workers : At(p, "write") => req[p].user \in Users
    BY DEF IInv, RequestInv, Sound, Works, At
  <2>4. SettledInv'
    BY <1>2, <2>2, <2>3
       DEF vars, IInv, SettledInv, AllSettled, Settled, ReadsCurrent, WritesDue, WritesBack,
           Awaited, Due, At
  <2>5. VerifiedInv'
    BY <1>2, <2>2
       DEF vars, IInv, VerifiedInv, AllVerified, AllTheirs, OwnersFound, ProvesAddress, At
  <2> QED BY <2>1, <2>4, <2>5 DEF IInv
<1> QED BY <1>1, <1>2

THEOREM InvariantHolds == Spec => []IInv
BY InitInv, NextInv, PTL DEF Spec

\* Accounts, payments, claims and what workers carry have their types in every
\* reachable state, whatever platforms report and whoever fails where.
THEOREM TypeCorrect == Spec => []TypeOK
<1>1. IInv => TypeOK
  BY DEF IInv
<1> QED BY <1>1, InvariantHolds, PTL

\* For any number of users, payments and days: while workers, requests about
\* accounts included, do not overlap and none is cut short, a user at rest has the status the payments entitle
\* to, or is one ExpireStaleSubscriptions finds (donation_service.go).
THEOREM OutdatedListed == Spec => []OutdatedIsListed
<1>1. IInv => OutdatedIsListed
  <2> SUFFICES ASSUME IInv, clean, AllIdle, NEW u \in Users, u \notin adminSet,
                      donor[u] # EntitledTo(u)
               PROVE  u \in StaleSubscriptionUserIDs
    BY DEF OutdatedIsListed
  <2>1. ~Awaited(u)
    BY DEF IInv, RequestInv, Sound, AllIdle, At, Awaited, Idle
  <2>2. donor[u] = "monthly_supporter" /\ Lapsed(u)
    BY <2>1 DEF IInv, SettledInv, AllSettled, Settled, Due
  <2>3. source[u] = "auto"
    BY <2>2 DEF IInv, SourceInv
  <2> QED BY <2>2, <2>3 DEF StaleSubscriptionUserIDs, Lapsed
<1> QED BY <1>1, InvariantHolds, PTL

\* For any number of users, addresses and payments: while workers do not overlap
\* and none is cut short, whoever has proved an address has all the donations
\* made with it (VerifyEmail, UpsertDonationEvent, LinkDonationEventsByEmail).
THEOREM VerifiedGet == Spec => []VerifiedGetTheirs
<1>1. IInv => VerifiedGetTheirs
  BY DEF VerifiedGetTheirs, IInv, VerifiedInv, AllVerified, AllTheirs, Theirs, Linking, AllIdle, At
<1> QED BY <1>1, InvariantHolds, PTL
=============================================================================
