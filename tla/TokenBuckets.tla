---------------------------- MODULE TokenBuckets ----------------------------
(***************************************************************************)
(* What a rate limiter promises: every subject has a token bucket that is  *)
(* never lost.  owed[k] is what subject k has used up and time has not     *)
(* given back; a request passes as long as the burst is not used up.       *)
(*                                                                         *)
(* This is golang.org/x/time/rate with one bucket per key for ever, which  *)
(* the program cannot afford: see Limiters.                                *)
(***************************************************************************)
EXTENDS Naturals

CONSTANTS
    Keys,    \* rate-limited subjects: users, guests' apps, client addresses
    Limits,  \* rates a bucket may be built for (requests per minute)
    Rate,    \* limit -> tokens given back per tick
    Burst,   \* limit -> tokens of a full bucket
    None     \* no limit yet

VARIABLES
    limit,   \* the limit a subject's bucket is built for
    owed,    \* tokens taken from it and not given back yet
    granted  \* requests let through since the limit was set

bucketVars == <<limit, owed, granted>>

BucketInit ==
    /\ limit = [k \in Keys |-> None]
    /\ owed = [k \in Keys |-> 0]
    /\ granted = [k \in Keys |-> 0]

\* A subject's allowance changes: a full bucket of the new size.
SetLimit(k, l) ==
    /\ limit[k] # l
    /\ limit' = [limit EXCEPT ![k] = l]
    /\ owed' = [owed EXCEPT ![k] = 0]
    /\ granted' = [granted EXCEPT ![k] = 0]

HasToken(k) == limit[k] # None /\ owed[k] < Burst[limit[k]]

\* rate.Limiter.Allow answers TRUE.
Grant(k) ==
    /\ HasToken(k)
    /\ owed' = [owed EXCEPT ![k] = @ + 1]
    /\ granted' = [granted EXCEPT ![k] = @ + 1]
    /\ UNCHANGED limit

\* Time gives tokens back, up to a full bucket.
Refill ==
    /\ owed' = [k \in Keys |->
                  IF limit[k] # None /\ owed[k] > Rate[limit[k]]
                  THEN owed[k] - Rate[limit[k]] ELSE 0]
    /\ UNCHANGED <<limit, granted>>

BucketNext ==
    \/ \E k \in Keys : Grant(k) \/ (\E l \in Limits : SetLimit(k, l))
    \/ Refill

BucketSpec == BucketInit /\ [][BucketNext]_bucketVars
=============================================================================
