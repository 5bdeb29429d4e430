---------------------------- MODULE ScrapeQuota ----------------------------
(***************************************************************************)
(* The scraping API: who is calling, how often in a minute, how many       *)
(* lookups in a day.  A call carries the credentials of a developer app,   *)
(* maybe those of a user (a guest otherwise), maybe the app's debug        *)
(* password.  Each statement or limiter a call passes is a step, and calls *)
(* overlap with each other, with midnight, and with changes of a user's    *)
(* threads and credentials.                                                *)
(*                                                                         *)
(* Abstractions.  A credential is a token: the token_version its user had  *)
(* at the login.  Requests about accounts write back the whole row they    *)
(* have read (Accounts): such a write may bring an earlier version back,   *)
(* here at any time.  An API key is a row of its own, there or revoked for *)
(* good: a call with one is a call with a current token.  Buckets are      *)
(* those of TokenBuckets, which the limiter map implements (Limiters): a   *)
(* new thread count makes a new one.  Lookups of games, statistics and the *)
(* free endpoints' answers are left out.  A call of an unknown or revoked  *)
(* app, or with a wrong secret or debug password, is refused before it     *)
(* changes anything: it is not among the calls.                            *)
(***************************************************************************)
EXTENDS Naturals, FiniteSets

CONSTANTS
    Users, Apps, Procs,
    OwnerOf,         \* app -> the user who registered it
    MaxThreads,      \* threads of the top rank
    GuestThreads,    \* threads of a call without user credentials
    ForcedThreads,   \* what a debug call may force its threads to
    RPMPerThread,    \* rpmPerThread
    DailyPerThread,  \* repository.DailyGamesPerThread
    MaxDebug,        \* maxDebugCallsPerDay
    MaxChanges,      \* bound: token_version
    MaxCalls,        \* bound: calls; once they know their users, only midnight comes
    LastDay,         \* bound: days
    None             \* no user, no limit

ASSUME ScrapeAssumption ==
    /\ OwnerOf \in [Apps -> Users]
    /\ {MaxThreads, GuestThreads, ForcedThreads, RPMPerThread, DailyPerThread}
         \subseteq Nat \ {0}
    /\ {MaxDebug, MaxChanges, MaxCalls, LastDay} \subseteq Nat
    /\ None \notin Users \cup Nat

Days == 0..LastDay
Threads == 1..MaxThreads

\* Limiter keys and rows of scrape_usage are named by what they count for.
PreKey(a) == <<"pre", a>>
AppKey(a) == <<"app", a>>
UserKey(u) == <<"user", u>>
Keys == {PreKey(a) : a \in Apps} \cup {AppKey(a) : a \in Apps}
          \cup {UserKey(u) : u \in Users}
Accounts == {"user", "guest"} \X (Users \cup Apps)  \* subject_id is a text

\* What a call asks for with the debug password: no debug password, nothing
\* more, a forced counter, forced threads, a forced 429.
Overrides == {"none", "plain", "used", "threads", "ratelimit"}

Call == [pc : {"idle", "resolve", "debug", "allow", "consume"},
         app : Apps \cup {None}, user : Users \cup {None},
         version : 0..MaxChanges, override : Overrides,
         threads : Nat, debug : BOOLEAN,
         fresh : BOOLEAN]  \* history: the credential was current on arrival

Idle == [pc |-> "idle", app |-> None, user |-> None, version |-> 0,
         override |-> "none", threads |-> 0, debug |-> FALSE, fresh |-> FALSE]

VARIABLES
    day,         \* today, in UTC
    threads,     \* what a user's role, XP and donations are worth
    version,     \* token_version of a user
    usage,       \* scrape_usage
    debugUsage,  \* debug_usage
    limit, owed, \* token buckets: thread count they are for, tokens taken
    call,        \* the running calls
    calls,       \* calls so far
    reverted,    \* history: users an earlier version was written back for
    served,      \* history: lookups granted to an account on a day
    best,        \* history: the highest daily limit it was granted one under
    debugged     \* history: debug calls of an app on a day

users == <<threads, version, reverted>>
buckets == <<limit, owed>>
tables == <<usage, debugUsage>>
history == <<served, best, debugged>>
vars == <<day, users, tables, buckets, call, calls, history>>

\* Every variable has its type.
TypeOK ==
    /\ day \in Days
    /\ threads \in [Users -> Threads]
    /\ version \in [Users -> 0..MaxChanges]
    /\ reverted \subseteq Users
    /\ usage \in [Days \X Accounts -> Nat]
    /\ debugUsage \in [Days \X Apps -> Nat]
    /\ limit \in [Keys -> Nat]
    /\ owed \in [Keys -> Nat]
    /\ call \in [Procs -> Call]
    /\ calls \in Nat
    /\ served \in [Days \X Accounts -> Nat]
    /\ best \in [Days \X Accounts -> Nat]
    /\ debugged \in [Days \X Apps -> Nat]
    /\ \A p \in Procs : call[p].pc # "idle" => call[p].app \in Apps

Init ==
    /\ day = 0
    /\ threads \in [Users -> Threads]
    /\ version = [u \in Users |-> 0]
    /\ reverted = {}
    /\ usage = [r \in Days \X Accounts |-> 0]
    /\ debugUsage = [r \in Days \X Apps |-> 0]
    /\ limit = [k \in Keys |-> 0]
    /\ owed = [k \in Keys |-> 0]
    /\ call = [p \in Procs |-> Idle]
    /\ calls = 0
    /\ served = [r \in Days \X Accounts |-> 0]
    /\ best = [r \in Days \X Accounts |-> 0]
    /\ debugged = [r \in Days \X Apps |-> 0]

At(p, pc) == call[p].pc = pc
Goto(p, pc) == call' = [call EXCEPT ![p].pc = pc]

\* An error written to the client without the return that belongs to it.
EndWithoutReturn(p) == call' = [call EXCEPT ![p] = [Idle EXCEPT !.pc = "allow"]]

End(p) == call' = [call EXCEPT ![p] = Idle]

IsGuest(p) == call[p].user = None

\* Guests count for the app: ten apps are ten quotas.
usageKeyPerApp(p) == IF IsGuest(p) THEN <<"guest", call[p].app>>
                                   ELSE <<"user", call[p].user>>

\* Guests count for the owner of the app.
usageKey(p) == IF IsGuest(p) THEN <<"guest", OwnerOf[call[p].app]>>
                             ELSE <<"user", call[p].user>>

DailyLimit(p) == call[p].threads * DailyPerThread

(***************************************************************************)
(* Limiters: what TokenBuckets does in SetLimit and Grant, at once.        *)
(***************************************************************************)
Burst(l) == l * RPMPerThread
OwedFor(k, l) == IF limit[k] = l THEN owed[k] ELSE 0
HasToken(k, l) == OwedFor(k, l) < Burst(l)
Take(k, l) == /\ owed' = [owed EXCEPT ![k] = OwedFor(k, l) + 1]
              /\ limit' = [limit EXCEPT ![k] = l]

(***************************************************************************)
(* A call.                                                                 *)
(***************************************************************************)

\* Where a call goes once it is known who calls.
Known(o) == IF o = "none" THEN "allow" ELSE "debug"

\* The versions a user has tokens of: none above the present one, unless a
\* write has brought an earlier one back.
Issued(u) == {v \in 0..MaxChanges : v <= version[u] \/ u \in reverted}

\* The app is known; its bucket is asked before the user is looked up.
AuthenticateScrape(p, a, u, v, o) ==
    /\ At(p, "idle")
    /\ calls < MaxCalls
    /\ u # None => v \in Issued(u)
    /\ HasToken(PreKey(a), MaxThreads)
    /\ Take(PreKey(a), MaxThreads)
    /\ calls' = calls + 1
    /\ call' = [call EXCEPT ![p] =
                  [pc |-> IF u = None THEN Known(o) ELSE "resolve",
                   app |-> a, user |-> u, version |-> v, override |-> o,
                   threads |-> GuestThreads, debug |-> FALSE,
                   fresh |-> u # None => v = version[u]]]
    /\ UNCHANGED <<day, users, tables, history>>

\* The bucket of the app is empty, whoever calls.
PreCheckRefuse(a, u, v) ==
    /\ u # None => v \in Issued(u)
    /\ ~HasToken(PreKey(a), MaxThreads)
    /\ UNCHANGED vars

\* The check that came with token versions, left out.
userTokenAny(p) == version[call[p].user] >= call[p].version

userTokenCurrent(p) == version[call[p].user] = call[p].version

ResolveUser(p) ==
    /\ At(p, "resolve")
    /\ IF userTokenCurrent(p)
         THEN call' = [call EXCEPT ![p].pc = Known(call[p].override),
                                   ![p].threads = threads[call[p].user]]
         ELSE End(p)
    /\ UNCHANGED <<day, users, tables, buckets, calls, history>>

\* The day's first debug call is not counted.
overDebugLimitLate(used) == used > MaxDebug + 1

overDebugLimit(used) == used > MaxDebug

\* IncrementDebugUsage counts the call, then the overrides apply.
Debug(p) ==
    /\ At(p, "debug")
    /\ LET r == <<day, call[p].app>>
           used == debugUsage[r] + 1
           forced == call[p].override = "threads"
       IN /\ debugUsage' = [debugUsage EXCEPT ![r] = used]
          /\ IF overDebugLimit(used) THEN End(p) /\ UNCHANGED debugged
             ELSE /\ debugged' = [debugged EXCEPT ![r] = @ + 1]
                  /\ IF call[p].override = "ratelimit" THEN End(p)
                     ELSE call' = [call EXCEPT
                            ![p].pc = "allow", ![p].debug = TRUE,
                            ![p].threads = IF forced THEN ForcedThreads ELSE @]
    /\ UNCHANGED <<day, users, usage, buckets, calls, served, best>>

SubjectKey(p) == IF IsGuest(p) THEN AppKey(call[p].app) ELSE UserKey(call[p].user)

allowSubject(p) ==
    /\ At(p, "allow")
    /\ HasToken(SubjectKey(p), call[p].threads)
    /\ Take(SubjectKey(p), call[p].threads)
    /\ Goto(p, "consume")
    /\ UNCHANGED <<day, users, tables, calls, history>>

allowSubjectRefuse(p) ==
    /\ At(p, "allow")
    /\ ~HasToken(SubjectKey(p), call[p].threads)
    /\ End(p)
    /\ UNCHANGED <<day, users, tables, buckets, calls, history>>

\* A handler that asks for nothing that counts.
FreeEndpoint(p) ==
    /\ At(p, "consume")
    /\ End(p)
    /\ UNCHANGED <<day, users, tables, buckets, calls, history>>

\* A debug call that forces the counter is answered without counting.
ConsumeForced(p) ==
    /\ At(p, "consume")
    /\ call[p].override = "used"
    /\ End(p)
    /\ UNCHANGED <<day, users, tables, buckets, calls, history>>

\* The account a lookup is granted to, and its day.
Row(p) == <<day, IF IsGuest(p) THEN <<"guest", OwnerOf[call[p].app]>>
                               ELSE <<"user", call[p].user>> >>

Higher(x, y) == IF x > y THEN x ELSE y

\* IncrementScrapeUsage, one statement, and the comparison with its result.
ConsumeQuota(p) ==
    /\ At(p, "consume")
    /\ call[p].override # "used"
    /\ usage' = [usage EXCEPT ![<<day, usageKey(p)>>] = @ + 1]
    /\ IF usage'[<<day, usageKey(p)>>] > DailyLimit(p) \/ call[p].debug
         THEN UNCHANGED <<served, best>>
         ELSE /\ served' = [served EXCEPT ![Row(p)] = @ + 1]
              /\ best' = [best EXCEPT ![Row(p)] = Higher(@, DailyLimit(p))]
    /\ End(p)
    /\ UNCHANGED <<day, users, debugUsage, buckets, calls, debugged>>

(***************************************************************************)
(* What goes on meanwhile.                                                 *)
(***************************************************************************)

\* A call may still look at its user.
Open == calls < MaxCalls \/ \E p \in Procs : At(p, "resolve")

\* XP, donations, a role: the thread count of a user changes.
ChangeThreads(u, t) ==
    /\ Open
    /\ threads' = [threads EXCEPT ![u] = t]
    /\ UNCHANGED <<day, version, reverted, tables, buckets, call, calls, history>>

\* ResetPassword, ChangePassword.
ChangeCredentials(u) ==
    /\ Open /\ version[u] < MaxChanges
    /\ version' = [version EXCEPT ![u] = @ + 1]
    /\ UNCHANGED <<day, threads, reverted, tables, buckets, call, calls, history>>

\* The row of another request, read before such a change and written after.
UpdateUser(u) ==
    /\ Open
    /\ \E v \in 0..MaxChanges : v < version[u] /\ version' = [version EXCEPT ![u] = v]
    /\ reverted' = reverted \cup {u}
    /\ UNCHANGED <<day, threads, tables, buckets, call, calls, history>>

\* A minute gives every bucket its tokens back.
Minute ==
    /\ Open
    /\ owed' = [k \in Keys |-> 0]
    /\ UNCHANGED <<day, users, tables, limit, call, calls, history>>

Midnight ==
    /\ day < LastDay
    /\ day' = day + 1
    /\ UNCHANGED <<users, tables, buckets, call, calls, history>>

Next ==
    \/ \E a \in Apps, u \in Users \cup {None}, v \in 0..MaxChanges :
         \/ \E p \in Procs, o \in Overrides : AuthenticateScrape(p, a, u, v, o)
         \/ PreCheckRefuse(a, u, v)
    \/ \E p \in Procs :
         \/ ResolveUser(p) \/ Debug(p)
         \/ allowSubject(p) \/ allowSubjectRefuse(p)
         \/ FreeEndpoint(p) \/ ConsumeForced(p) \/ ConsumeQuota(p)
    \/ \E u \in Users :
         \/ ChangeCredentials(u) \/ UpdateUser(u)
         \/ \E t \in Threads : ChangeThreads(u, t)
    \/ Minute \/ Midnight

Spec == Init /\ [][Next]_vars

(***************************************************************************)
(* Properties.                                                             *)
(***************************************************************************)

\* However calls overlap and threads change in the course of a day, an
\* account is granted no more lookups than the highest limit it was granted
\* one under.  All apps of one owner share one guest account, and a user's
\* calls through different apps share one (usageKey, ConsumeQuota).
QuotaHonoured == \A r \in Days \X Accounts : served[r] <= best[r]

\* Calls in flight at the same time do not get an app more debug calls than
\* its daily allowance (AuthenticateScrape, IncrementDebugUsage).
DebugCapped == \A r \in Days \X Apps : debugged[r] <= MaxDebug

\* A call that arrives with a token of an earlier password is not let in,
\* though calls overlap and the password may change again between its arrival
\* and the check (resolveUser), unless a row read before a change of password
\* was written after it and so took the change back (UpdateUser; that this
\* happens is what the run against PasswordChangeRevokes of Accounts shows).
StaleRefused ==
    \A p \in Procs :
       call[p].pc \in {"debug", "allow", "consume"} =>
          call[p].fresh \/ call[p].user \in reverted
=============================================================================
