------------------------------ MODULE Limiters ------------------------------
(***************************************************************************)
(* The map of token buckets behind both rate limiters: the scraping API's  *)
(* (ScrapeService.limiterFor, then Allow on what it returns) and the       *)
(* per-address one (IPLimiter.allow, the same two steps under one lock     *)
(* and with one limit for everybody, so its behaviours are among these).   *)
(*                                                                         *)
(* A map that grew large is swept of entries that nobody asked for in a    *)
(* while, and an entry whose limit changed is replaced.  The properties    *)
(* say that sweeping cannot be told from buckets that are kept for ever.   *)
(*                                                                         *)
(* A tick is the time in which a bucket regains Rate tokens.  A request    *)
(* does not stay for a tick between the lookup and the Allow of the one    *)
(* expression that makes both.  If its bucket is replaced in between it    *)
(* takes its token from the old one, which belongs to nobody any more.     *)
(***************************************************************************)
EXTENDS Integers, FiniteSets

CONSTANTS
    Keys,       \* "pre:<app>", "app:<app>", "user:<id>", or client addresses
    Limits,     \* requests per minute a bucket may be built for
    Rate,       \* limit -> tokens given back per tick
    Burst,      \* limit -> tokens of a full bucket
    None,       \* no limit, no key
    Procs,      \* requests running at the same time
    SweepAt,    \* number of entries from which on the map is swept
    IdleLimit,  \* ticks an entry survives without being asked for
    MaxClock    \* bound: ticks

\* A bucket fills up within a minute; an idle entry stays for 10 or 15.
ASSUME LimitersAssumption ==
    /\ Rate \in [Limits -> Nat \ {0}]
    /\ Burst \in [Limits -> Nat \ {0}]
    /\ None \notin Limits \cup Keys
    /\ SweepAt \in Nat
    /\ IdleLimit \in Nat
    /\ MaxClock \in Nat
    /\ \A l \in Limits : Rate[l] * IdleLimit >= Burst[l]

VARIABLES
    clock,
    present,  \* the keys of the map
    limit,    \* the rpm of a key's entry; of one that is gone: history
    tokens,   \* what is left in the entry's bucket
    last,     \* when the entry was last asked for
    asked,    \* running request -> the key whose bucket it holds, or None
    orphans,  \* the running requests whose bucket has been replaced
    since,    \* history: when the key's limit was set
    granted   \* history: requests let through since

vars == <<clock, present, limit, tokens, last, asked, orphans, since, granted>>

\* Every variable has its type.
TypeOK ==
    /\ clock \in Nat
    /\ present \in SUBSET Keys
    /\ limit \in [Keys -> Limits \cup {None}]
    /\ tokens \in [Keys -> Nat]
    /\ last \in [Keys -> Nat]
    /\ asked \in [Procs -> Keys \cup {None}]
    /\ orphans \in SUBSET Procs
    /\ since \in [Keys -> Nat]
    /\ granted \in [Keys -> Nat]
    /\ \A k \in present : limit[k] \in Limits

Init ==
    /\ clock = 0
    /\ present = {}
    /\ limit = [k \in Keys |-> None]
    /\ tokens = [k \in Keys |-> 0]
    /\ last = [k \in Keys |-> 0]
    /\ asked = [p \in Procs |-> None]
    /\ orphans = {}
    /\ since = [k \in Keys |-> 0]
    /\ granted = [k \in Keys |-> 0]

Holders(k) == {p \in Procs : asked[p] = k}

\* The comparison the wrong way round.
StaleReversed(k) == clock - last[k] < IdleLimit

\* e.last.Before(cutoff)
Stale(k) == clock - last[k] > IdleLimit

\* The sweep at the head of limiterFor and allow.
Swept ==
    IF Cardinality(present) >= SweepAt
    THEN {k \in present : ~Stale(k)}
    ELSE present

\* Asked for, but as old as it was.
ReuseUntouched(p, k, l) ==
    /\ asked[p] = None
    /\ k \in Swept
    /\ limit[k] = l
    /\ present' = Swept
    /\ asked' = [asked EXCEPT ![p] = k]
    /\ UNCHANGED <<clock, limit, tokens, last, orphans, since, granted>>

\* The entry is there and has the right limit.
Reuse(p, k, l) ==
    /\ asked[p] = None
    /\ k \in Swept
    /\ limit[k] = l
    /\ present' = Swept
    /\ last' = [last EXCEPT ![k] = clock]
    /\ asked' = [asked EXCEPT ![p] = k]
    /\ UNCHANGED <<clock, limit, tokens, orphans, since, granted>>

\* No entry, or one for another limit: a new, full bucket.
Build(p, k, l) ==
    /\ asked[p] = None
    /\ k \in Swept => limit[k] # l
    /\ present' = Swept \cup {k}
    /\ limit' = [limit EXCEPT ![k] = l]
    /\ tokens' = [tokens EXCEPT ![k] = Burst[l]]
    /\ last' = [last EXCEPT ![k] = clock]
    /\ asked' = [asked EXCEPT ![p] = k]
    /\ orphans' = orphans \cup Holders(k)
    /\ IF limit[k] = l
         THEN UNCHANGED <<since, granted>>
         ELSE /\ since' = [since EXCEPT ![k] = clock]
              /\ granted' = [granted EXCEPT ![k] = 0]
    /\ UNCHANGED clock

\* A bucket that gives what it does not have.
AllowEmpty(p) ==
    /\ asked[p] # None
    /\ p \notin orphans
    /\ tokens' = [tokens EXCEPT ![asked[p]] = @ - 1]
    /\ granted' = [granted EXCEPT ![asked[p]] = @ + 1]
    /\ asked' = [asked EXCEPT ![p] = None]
    /\ UNCHANGED <<clock, present, limit, last, orphans, since>>

Allow(p) ==
    /\ asked[p] # None
    /\ p \notin orphans
    /\ tokens[asked[p]] > 0
    /\ tokens' = [tokens EXCEPT ![asked[p]] = @ - 1]
    /\ granted' = [granted EXCEPT ![asked[p]] = @ + 1]
    /\ asked' = [asked EXCEPT ![p] = None]
    /\ UNCHANGED <<clock, present, limit, last, orphans, since>>

Refuse(p) ==
    /\ asked[p] # None
    /\ p \notin orphans
    /\ tokens[asked[p]] = 0
    /\ asked' = [asked EXCEPT ![p] = None]
    /\ UNCHANGED <<clock, present, limit, tokens, last, orphans, since, granted>>

\* Either answer of a bucket that is not in the map any more.
AnswerOrphan(p) ==
    /\ p \in orphans
    /\ asked' = [asked EXCEPT ![p] = None]
    /\ orphans' = orphans \ {p}
    /\ UNCHANGED <<clock, present, limit, tokens, last, since, granted>>

\* What a bucket with t tokens for limit l holds a tick later.
Refilled(t, l) == IF t + Rate[l] > Burst[l] THEN Burst[l] ELSE t + Rate[l]

Tick ==
    /\ clock < MaxClock
    /\ \A p \in Procs : asked[p] = None
    /\ clock' = clock + 1
    /\ tokens' = [k \in Keys |->
                    IF k \in present THEN Refilled(tokens[k], limit[k])
                                     ELSE tokens[k]]
    /\ UNCHANGED <<present, limit, last, asked, orphans, since, granted>>

Next ==
    \/ \E p \in Procs :
         \/ \E k \in Keys, l \in Limits : Reuse(p, k, l) \/ Build(p, k, l)
         \/ Allow(p) \/ Refuse(p) \/ AnswerOrphan(p)
    \/ Tick

Spec == Init /\ [][Next]_vars

(***************************************************************************)
(* Properties.                                                             *)
(***************************************************************************)

\* Since its limit was set, a subject was let through a burst and what time
\* gave back, and not once more, whatever was swept and rebuilt meanwhile.
GrantsBounded ==
    \A k \in Keys : limit[k] # None =>
        granted[k] <= Burst[limit[k]] + Rate[limit[k]] * (clock - since[k])

\* An entry that is gone was full.
Owed(k) == IF k \in present THEN Burst[limit[k]] - tokens[k] ELSE 0

TB == INSTANCE TokenBuckets WITH owed <- [k \in Keys |-> Owed(k)]

\* Nobody can tell the swept map from buckets that are kept for ever: an
\* idle subject is not forgotten before it is back at a full burst, and a
\* busy one keeps what it used up.
ImplementsTokenBuckets == TB!BucketSpec
=============================================================================
