------------------------- MODULE ScrapeQuota_proofs -------------------------
(***************************************************************************)
(* Proofs about ScrapeQuota, for any number of users, apps and concurrent  *)
(* calls and any limits.  The counters are incremented and read back in    *)
(* one statement, so each is at least what was granted under it            *)
(* (QuotaInv, DebugInv).  Until a stale row is written back, the version   *)
(* of a user only grows, so a token that was stale on arrival stays stale  *)
(* (FreshInv).                                                             *)
(***************************************************************************)
EXTENDS ScrapeQuota, TLAPS

QuotaInv ==
    \A r \in Days \X Accounts : served[r] <= usage[r] /\ served[r] <= best[r]

DebugInv ==
    \A r \in Days \X Apps : debugged[r] <= debugUsage[r] /\ debugged[r] <= MaxDebug

FreshInv ==
    \A p \in Procs :
        /\ call[p].pc = "resolve" => call[p].user \in Users
        /\ ~call[p].fresh /\ call[p].user \in Users
             => call[p].version < version[call[p].user] \/ call[p].user \in reverted
        /\ call[p].pc \in {"debug", "allow", "consume"}
             => call[p].fresh \/ call[p].user \in reverted

IInv == TypeOK /\ QuotaInv /\ DebugInv /\ FreshInv

LEMMA Constants ==
    /\ MaxThreads \in Nat /\ GuestThreads \in Nat /\ ForcedThreads \in Nat
    /\ DailyPerThread \in Nat /\ MaxDebug \in Nat /\ MaxChanges \in Nat
    /\ LastDay \in Nat
    /\ \A a \in Apps : OwnerOf[a] \in Users
    /\ None \notin Users
BY ScrapeAssumption

LEMMA InitInv == Init => IInv
<1> SUFFICES ASSUME Init PROVE IInv
  OBVIOUS
<1> USE Constants
<1>1. TypeOK
  <2>1. Idle \in Call
    BY DEF Idle, Call, Overrides
  <2> QED BY <2>1 DEF Init, TypeOK, Days, Idle
<1>2. QuotaInv
  BY DEF Init, QuotaInv
<1>3. DebugInv
  BY DEF Init, DebugInv
<1>4. FreshInv
  BY DEF Init, FreshInv, Idle
<1> QED BY <1>1, <1>2, <1>3, <1>4 DEF IInv

\* The row a call counts in is the row of the account it is granted to.
LEMMA RowIsUsageKey ==
    ASSUME TypeOK, NEW p \in Procs, call[p].pc # "idle"
    PROVE  /\ Row(p) = <<day, usageKey(p)>>
           /\ Row(p) \in Days \X Accounts
<1>1. call[p].app \in Apps /\ OwnerOf[call[p].app] \in Users
  BY Constants DEF TypeOK
<1>2. call[p].user = None \/ call[p].user \in Users
  BY DEF TypeOK, Call
<1>3. usageKey(p) \in Accounts
  BY <1>1, <1>2 DEF usageKey, IsGuest, Accounts
<1>4. Row(p) = <<day, usageKey(p)>>
  BY DEF Row, usageKey
<1> QED BY <1>3, <1>4 DEF TypeOK

\* A token is taken from a bucket that exists.
LEMMA TakeTypes ==
    ASSUME TypeOK, NEW k \in Keys, NEW l \in Nat, Take(k, l)
    PROVE  limit' \in [Keys -> Nat] /\ owed' \in [Keys -> Nat]
<1>1. OwedFor(k, l) \in Nat
  BY DEF TypeOK, OwedFor
<1> QED BY <1>1 DEF Take, TypeOK

\* A call that ends leaves everything well-formed.
LEMMA EndCall ==
    ASSUME IInv, NEW p \in Procs, End(p), UNCHANGED <<version, reverted>>
    PROVE  /\ call' \in [Procs -> Call]
           /\ \A q \in Procs : call'[q].pc # "idle" => call'[q].app \in Apps
           /\ FreshInv'
<1>1. Idle \in Call
  BY Constants DEF Idle, Call, Overrides
<1>2. call' \in [Procs -> Call]
  BY <1>1 DEF End, IInv, TypeOK
<1>3. call'[p] = Idle /\ \A q \in Procs \ {p} : call'[q] = call[q]
  BY DEF End, IInv, TypeOK
<1>4. \A q \in Procs : call'[q].pc # "idle" => call'[q].app \in Apps
  BY <1>3 DEF Idle, IInv, TypeOK
<1>5. FreshInv'
  BY <1>3, Constants DEF FreshInv, IInv, Idle
<1> QED BY <1>2, <1>4, <1>5

LEMMA AuthenticateInv ==
    ASSUME IInv, NEW p \in Procs, NEW a \in Apps, NEW u \in Users \cup {None},
           NEW v \in 0..MaxChanges, NEW o \in Overrides,
           AuthenticateScrape(p, a, u, v, o)
    PROVE  IInv'
<1> USE DEF IInv
<1> DEFINE c == [pc |-> IF u = None THEN Known(o) ELSE "resolve",
                 app |-> a, user |-> u, version |-> v, override |-> o,
                 threads |-> GuestThreads, debug |-> FALSE,
                 fresh |-> u # None => v = version[u]]
<1>1. c \in Call
  BY Constants DEF Call, Known
<1>2. call'[p] = c /\ (\A q \in Procs \ {p} : call'[q] = call[q])
      /\ call' \in [Procs -> Call]
  BY <1>1 DEF AuthenticateScrape, TypeOK
<1>3. UNCHANGED <<day, users, tables, history>> /\ calls' \in Nat
  BY DEF AuthenticateScrape, TypeOK
<1>4. limit' \in [Keys -> Nat] /\ owed' \in [Keys -> Nat]
  BY TakeTypes, Constants DEF AuthenticateScrape, Keys
<1>5. TypeOK'
  BY <1>2, <1>3, <1>4 DEF TypeOK, users, tables, history
<1>6. QuotaInv' /\ DebugInv'
  BY <1>3 DEF QuotaInv, DebugInv, tables, history
<1>7. FreshInv'
  <2>1. ASSUME NEW q \in Procs \ {p}
        PROVE  /\ call'[q].pc = "resolve" => call'[q].user \in Users
               /\ ~call'[q].fresh /\ call'[q].user \in Users
                    => call'[q].version < version'[call'[q].user] \/ call'[q].user \in reverted'
               /\ call'[q].pc \in {"debug", "allow", "consume"}
                    => call'[q].fresh \/ call'[q].user \in reverted'
    BY <1>2, <1>3 DEF FreshInv, users
  <2>2. CASE u = None
    <3>1. call'[p].fresh = (u # None => v = version[u])
      BY <1>2
    <3>2. call'[p].fresh
      BY <2>2, <3>1, Zenon
    <3>3. call'[p].user = None /\ call'[p].pc # "resolve"
      BY <1>2, <2>2 DEF Known
    <3> QED BY <2>1, <3>2, <3>3, Constants DEF FreshInv
  <2>3. CASE u \in Users
    <3>1. (v <= version[u] \/ u \in reverted) /\ v \in Nat /\ version[u] \in Nat /\ u # None
      BY <2>3, Constants DEF AuthenticateScrape, Issued, TypeOK
    <3>2. /\ call'[p].pc = "resolve" /\ call'[p].user = u
          /\ call'[p].version = v /\ call'[p].fresh = (v = version[u])
      BY <1>2, <2>3, <3>1
    <3>3. ~call'[p].fresh => v # version[u]
      BY <3>2, Zenon
    <3>4. ~call'[p].fresh => v < version[u] \/ u \in reverted
      BY <3>1, <3>3
    <3> QED BY <1>3, <2>1, <2>3, <3>2, <3>4 DEF FreshInv, users
  <2> QED BY <2>2, <2>3
<1> QED BY <1>5, <1>6, <1>7

LEMMA ResolveInv ==
    ASSUME IInv, NEW p \in Procs, ResolveUser(p)
    PROVE  IInv'
<1> USE DEF IInv
<1>1. UNCHANGED <<day, users, tables, buckets, calls, history>>
  BY DEF ResolveUser
<1>2. QuotaInv' /\ DebugInv'
  BY <1>1 DEF QuotaInv, DebugInv, tables, history
<1>3. CASE userTokenCurrent(p)
  <2> DEFINE c == [call[p] EXCEPT !.pc = Known(call[p].override),
                                  !.threads = threads[call[p].user]]
  <2>1. /\ call[p].pc = "resolve" /\ call[p].user \in Users /\ call[p] \in Call
        /\ call[p].app \in Apps
    BY DEF ResolveUser, At, FreshInv, TypeOK
  <2>2. threads[call[p].user] \in Nat
    BY <2>1, Constants DEF TypeOK, Threads
  <2>3. c \in Call /\ c.app = call[p].app /\ c.user = call[p].user
        /\ c.version = call[p].version /\ c.fresh = call[p].fresh
        /\ c.pc \in {"allow", "debug"}
    BY <2>1, <2>2 DEF Call, Known
  <2>4. call' = [call EXCEPT ![p] = c]
    BY <1>3 DEF ResolveUser, TypeOK
  <2>5. call'[p] = c /\ (\A q \in Procs \ {p} : call'[q] = call[q])
        /\ call' \in [Procs -> Call]
    BY <2>3, <2>4 DEF TypeOK
  <2> HIDE DEF c
  <2>6. TypeOK'
    BY <1>1, <2>1, <2>3, <2>5 DEF TypeOK, users, tables, buckets, history
  <2>7. call[p].fresh \/ call[p].user \in reverted
    <3>1. version[call[p].user] = call[p].version /\ call[p].version \in Nat
      BY <1>3, <2>1 DEF userTokenCurrent, Call
    <3> QED BY <2>1, <3>1 DEF FreshInv
  <2>8. FreshInv'
    BY <1>1, <2>3, <2>5, <2>7 DEF FreshInv, users
  <2> QED BY <1>2, <2>6, <2>8
<1>4. CASE ~userTokenCurrent(p)
  <2>1. End(p) /\ UNCHANGED <<version, reverted>>
    BY <1>1, <1>4 DEF ResolveUser, users
  <2>2. TypeOK'
    BY <1>1, <2>1, EndCall DEF TypeOK, users, tables, buckets, history
  <2> QED BY <1>2, <2>1, <2>2, EndCall
<1> QED BY <1>3, <1>4

LEMMA DebugStepInv ==
    ASSUME IInv, NEW p \in Procs, Debug(p)
    PROVE  IInv'
<1> USE DEF IInv
<1> DEFINE r == <<day, call[p].app>>
<1>1. /\ call[p].pc = "debug" /\ call[p].app \in Apps /\ r \in Days \X Apps
      /\ call[p] \in Call /\ (call[p].fresh \/ call[p].user \in reverted)
  BY DEF Debug, At, TypeOK, FreshInv
<1>2. UNCHANGED <<day, users, usage, buckets, calls, served, best>>
  BY DEF Debug
<1>3. /\ debugUsage' = [debugUsage EXCEPT ![r] = debugUsage[r] + 1]
      /\ debugUsage[r] \in Nat /\ debugged[r] \in Nat
  BY <1>1 DEF Debug, TypeOK
<1>4. debugUsage' \in [Days \X Apps -> Nat]
  BY <1>1, <1>3 DEF TypeOK
<1>5. QuotaInv'
  BY <1>2 DEF QuotaInv
<1>6. /\ debugged' \in [Days \X Apps -> Nat]
      /\ DebugInv'
  <2>1. CASE debugged' = debugged
    BY <1>3, <2>1 DEF TypeOK, DebugInv
  <2>2. CASE /\ debugged' = [debugged EXCEPT ![r] = @ + 1]
             /\ ~overDebugLimit(debugUsage[r] + 1)
    <3>1. debugUsage[r] + 1 <= MaxDebug
      BY <1>3, <2>2, Constants DEF overDebugLimit
    <3>2. debugged'[r] = debugged[r] + 1 /\ debugged[r] <= debugUsage[r] /\ debugUsage'[r] = debugUsage[r] + 1
      BY <1>1, <1>3, <2>2 DEF TypeOK, DebugInv
    <3>3. \A s \in (Days \X Apps) \ {r} : debugged'[s] = debugged[s] /\ debugUsage'[s] = debugUsage[s]
      BY <1>1, <1>3, <2>2 DEF TypeOK
    <3>4. debugged' \in [Days \X Apps -> Nat]
      BY <1>1, <1>3, <2>2 DEF TypeOK
    <3>5. debugged'[r] <= debugUsage'[r] /\ debugged'[r] <= MaxDebug
      BY <1>3, <3>1, <3>2, Constants
    <3> QED BY <3>3, <3>4, <3>5 DEF DebugInv
  <2> QED BY <2>1, <2>2 DEF Debug
<1>7. /\ call' \in [Procs -> Call]
      /\ \A q \in Procs : call'[q].pc # "idle" => call'[q].app \in Apps
      /\ FreshInv'
  <2>1. CASE End(p)
    BY <1>2, <2>1, EndCall DEF users
  <2>2. CASE ~End(p)
    <3> DEFINE t == IF call[p].override = "threads" THEN ForcedThreads
                                                    ELSE call[p].threads
               c == [call[p] EXCEPT !.pc = "allow", !.debug = TRUE, !.threads = t]
    <3>1. t \in Nat
      BY <1>1, Constants DEF Call
    <3>2. c \in Call /\ c.app = call[p].app /\ c.user = call[p].user
          /\ c.version = call[p].version /\ c.fresh = call[p].fresh
          /\ c.pc = "allow"
      BY <1>1, <3>1 DEF Call
    <3>3. call' = [call EXCEPT ![p] = c]
      BY <2>2 DEF Debug, TypeOK
    <3>4. call'[p] = c /\ (\A q \in Procs \ {p} : call'[q] = call[q])
          /\ call' \in [Procs -> Call]
      BY <3>2, <3>3 DEF TypeOK
    <3> HIDE DEF c
    <3>5. \A q \in Procs : call'[q].pc # "idle" => call'[q].app \in Apps
      BY <1>1, <3>2, <3>4 DEF TypeOK
    <3>6. FreshInv'
      BY <1>1, <1>2, <3>2, <3>4 DEF FreshInv, users
    <3> QED BY <3>4, <3>5, <3>6
  <2> QED BY <2>1, <2>2
<1>8. TypeOK'
  BY <1>2, <1>4, <1>6, <1>7 DEF TypeOK, users, buckets
<1> QED BY <1>5, <1>6, <1>7, <1>8

LEMMA AllowInv ==
    ASSUME IInv, NEW p \in Procs, allowSubject(p)
    PROVE  IInv'
<1> USE DEF IInv
<1>1. /\ call[p].pc = "allow" /\ call[p].app \in Apps /\ call[p] \in Call
      /\ (call[p].fresh \/ call[p].user \in reverted) /\ call[p].threads \in Nat
  BY DEF allowSubject, At, TypeOK, FreshInv, Call
<1>2. SubjectKey(p) \in Keys
  BY <1>1 DEF SubjectKey, IsGuest, Keys, Call
<1>3. limit' \in [Keys -> Nat] /\ owed' \in [Keys -> Nat]
  BY <1>1, <1>2, TakeTypes DEF allowSubject
<1>4. UNCHANGED <<day, users, tables, calls, history>>
  BY DEF allowSubject
<1> DEFINE c == [call[p] EXCEPT !.pc = "consume"]
<1>5. c \in Call /\ c.app = call[p].app /\ c.user = call[p].user
      /\ c.version = call[p].version /\ c.fresh = call[p].fresh
      /\ c.pc = "consume"
  BY <1>1 DEF Call
<1>6. call'[p] = c /\ (\A q \in Procs \ {p} : call'[q] = call[q])
      /\ call' \in [Procs -> Call]
  BY <1>5 DEF allowSubject, Goto, TypeOK
<1> HIDE DEF c
<1>7. TypeOK'
  BY <1>1, <1>3, <1>4, <1>5, <1>6 DEF TypeOK, users, tables, history
<1>8. FreshInv'
  BY <1>1, <1>4, <1>5, <1>6 DEF FreshInv, users
<1>9. QuotaInv' /\ DebugInv'
  BY <1>4 DEF QuotaInv, DebugInv, tables, history
<1> QED BY <1>7, <1>8, <1>9

\* Refusals, free endpoints and forced counters only end the call.
LEMMA EndingInv ==
    ASSUME IInv, NEW p \in Procs,
           allowSubjectRefuse(p) \/ FreeEndpoint(p) \/ ConsumeForced(p)
    PROVE  IInv'
<1>1. End(p) /\ UNCHANGED <<day, users, tables, buckets, calls, history>>
  BY DEF allowSubjectRefuse, FreeEndpoint, ConsumeForced
<1>2. TypeOK'
  BY <1>1, EndCall DEF IInv, TypeOK, users, tables, buckets, history
<1>3. QuotaInv' /\ DebugInv'
  BY <1>1 DEF IInv, QuotaInv, DebugInv, tables, history
<1>4. FreshInv'
  BY <1>1, EndCall DEF users
<1> QED BY <1>2, <1>3, <1>4 DEF IInv

\* A lookup is granted only if the counter that was just raised for it is
\* within the limit.
LEMMA ConsumeInv ==
    ASSUME IInv, NEW p \in Procs, ConsumeQuota(p)
    PROVE  IInv'
<1> USE DEF IInv
<1> DEFINE r == Row(p)
           d == DailyLimit(p)
<1>1. /\ call[p].pc # "idle" /\ call[p] \in Call /\ r \in Days \X Accounts
      /\ <<day, usageKey(p)>> = r
  BY RowIsUsageKey DEF ConsumeQuota, At, TypeOK
<1>2. d \in Nat
  BY <1>1, Constants DEF DailyLimit, Call
<1>3. /\ usage' = [usage EXCEPT ![r] = @ + 1]
      /\ usage[r] \in Nat /\ served[r] \in Nat /\ best[r] \in Nat
      /\ usage'[r] = usage[r] + 1
  BY <1>1 DEF ConsumeQuota, TypeOK
<1>4. UNCHANGED <<day, users, debugUsage, buckets, calls, debugged>> /\ End(p)
  BY DEF ConsumeQuota
<1>5. CASE served' = served /\ best' = best
  <2>1. QuotaInv'
    BY <1>3, <1>5 DEF QuotaInv, TypeOK
  <2>2. TypeOK'
    BY <1>3, <1>4, <1>5, EndCall DEF TypeOK, users, buckets
  <2> QED BY <1>4, <2>1, <2>2, EndCall DEF DebugInv, users
<1>6. CASE /\ usage'[r] <= d
           /\ served' = [served EXCEPT ![r] = @ + 1]
           /\ best' = [best EXCEPT ![r] = Higher(@, d)]
  <2>1. /\ served'[r] = served[r] + 1 /\ best'[r] = Higher(best[r], d)
        /\ best'[r] \in Nat /\ best'[r] >= d
        /\ served' \in [Days \X Accounts -> Nat] /\ best' \in [Days \X Accounts -> Nat]
    BY <1>1, <1>2, <1>3, <1>6 DEF Higher, TypeOK
  <2>2. served'[r] <= usage'[r] /\ served'[r] <= best'[r]
    BY <1>1, <1>2, <1>3, <1>6, <2>1 DEF QuotaInv
  <2>3. \A s \in (Days \X Accounts) \ {r} :
          usage'[s] = usage[s] /\ served'[s] = served[s] /\ best'[s] = best[s]
    BY <1>3, <1>6 DEF TypeOK
  <2>4. QuotaInv'
    BY <2>2, <2>3 DEF QuotaInv
  <2>5. TypeOK'
    BY <1>3, <1>4, <2>1, EndCall DEF TypeOK, users, buckets
  <2> QED BY <1>4, <2>4, <2>5, EndCall DEF DebugInv, users
<1>7. usage'[r] \in Nat
  BY <1>3
<1> QED BY <1>1, <1>2, <1>5, <1>6, <1>7 DEF ConsumeQuota

\* Threads, credentials, minutes and midnights.
LEMMA EnvironmentInv ==
    ASSUME IInv,
           \/ \E u \in Users : \/ ChangeCredentials(u) \/ UpdateUser(u)
                             \/ \E t \in Threads : ChangeThreads(u, t)
           \/ Minute \/ Midnight
    PROVE  IInv'
<1> USE DEF IInv
<1>1. UNCHANGED <<tables, call, calls, history>>
  BY DEF ChangeCredentials, UpdateUser, ChangeThreads, Minute, Midnight
<1>2. QuotaInv' /\ DebugInv'
  BY <1>1 DEF QuotaInv, DebugInv, tables, history
<1>3. /\ version' \in [Users -> 0..MaxChanges]
      /\ reverted \subseteq reverted' /\ reverted' \subseteq Users
      /\ \A u \in Users : version[u] <= version'[u] \/ u \in reverted'
  <2>1. CASE \E u \in Users : ChangeCredentials(u)
    BY <2>1, Constants DEF ChangeCredentials, TypeOK
  <2>2. CASE \E u \in Users : UpdateUser(u)
    BY <2>2 DEF UpdateUser, TypeOK
  <2>3. CASE UNCHANGED <<version, reverted>>
    BY <2>3 DEF TypeOK
  <2> QED BY <2>1, <2>2, <2>3 DEF ChangeThreads, Minute, Midnight, users
<1>4. threads' \in [Users -> Threads] /\ day' \in Days
      /\ limit' \in [Keys -> Nat] /\ owed' \in [Keys -> Nat]
  BY Constants DEF ChangeCredentials, UpdateUser, ChangeThreads, Minute, Midnight, users, buckets,
                   TypeOK, Days
<1>5. TypeOK'
  BY <1>1, <1>3, <1>4 DEF TypeOK, tables, history
<1>6. FreshInv'
  <2>1. \A p \in Procs : call[p].version \in Nat
    BY DEF TypeOK, Call
  <2>2. \A u \in Users : version[u] \in Nat /\ version'[u] \in Nat
    BY <1>3 DEF TypeOK
  <2> QED BY <1>1, <1>3, <2>1, <2>2 DEF FreshInv
<1> QED BY <1>2, <1>5, <1>6

LEMMA StepInv == IInv /\ [Next]_vars => IInv'
<1> SUFFICES ASSUME IInv, [Next]_vars PROVE IInv'
  OBVIOUS
<1>1. CASE UNCHANGED vars
  BY <1>1 DEF vars, users, tables, buckets, history, IInv, TypeOK, QuotaInv, DebugInv, FreshInv
<1>2. ASSUME NEW a \in Apps, NEW u \in Users \cup {None}, NEW v \in 0..MaxChanges,
             \/ \E p \in Procs, o \in Overrides : AuthenticateScrape(p, a, u, v, o)
             \/ PreCheckRefuse(a, u, v)
      PROVE  IInv'
  BY <1>1, <1>2, AuthenticateInv DEF PreCheckRefuse
<1>3. ASSUME NEW p \in Procs,
             \/ ResolveUser(p) \/ Debug(p)
             \/ allowSubject(p) \/ allowSubjectRefuse(p)
             \/ FreeEndpoint(p) \/ ConsumeForced(p) \/ ConsumeQuota(p)
      PROVE  IInv'
  BY <1>3, ResolveInv, DebugStepInv, AllowInv, EndingInv, ConsumeInv
<1> QED BY <1>1, <1>2, <1>3, EnvironmentInv DEF Next

\* Every variable of the scraping API has its type, and a running call has
\* an app, for any number of users, apps and calls.
THEOREM ScrapeTyped == Spec => []TypeOK
<1>1. IInv => TypeOK
  BY DEF IInv
<1> QED BY <1>1, InitInv, StepInv, PTL DEF Spec

\* No account is granted more lookups on a day than the highest limit it was
\* granted one under (ConsumeQuota, usageKey, IncrementScrapeUsage).
THEOREM QuotaIsHonoured == Spec => []QuotaHonoured
<1>1. IInv => QuotaHonoured
  BY DEF IInv, QuotaInv, QuotaHonoured
<1> QED BY <1>1, InitInv, StepInv, PTL DEF Spec

\* No app gets more debug calls on a day than its allowance, however many
\* are in flight (AuthenticateScrape, IncrementDebugUsage).
THEOREM DebugIsCapped == Spec => []DebugCapped
<1>1. IInv => DebugCapped
  BY DEF IInv, DebugInv, DebugCapped
<1> QED BY <1>1, InitInv, StepInv, PTL DEF Spec

\* A token that was stale when the call arrived never gets it past resolveUser,
\* however often the password changes and however calls overlap, unless the row
\* of another request, read before a change, was written after it and brought
\* the earlier version back.
THEOREM StaleIsRefused == Spec => []StaleRefused
<1>1. IInv => StaleRefused
  BY DEF IInv, FreshInv, StaleRefused
<1> QED BY <1>1, InitInv, StepInv, PTL DEF Spec
=============================================================================
