--------------------------- MODULE Limiters_proofs ---------------------------
(***************************************************************************)
(* Proofs about Limiters, for any number of subjects and requests, any     *)
(* limits, and any threshold and idle time of the sweep, as long as a      *)
(* bucket fills up before its entry may go (LimitersAssumption).           *)
(*                                                                         *)
(* The argument: an entry holds at least what came back since it was last  *)
(* asked for (TokensInv), so a stale one is full and its sweep gives       *)
(* nothing away; what was granted is what the bucket lacks plus what time  *)
(* gave back (GrantsInv).                                                  *)
(***************************************************************************)
EXTENDS Limiters, TLAPS

\* A request holds a bucket of the map, looked up in this tick.
HoldersInv ==
    \A p \in Procs : asked[p] # None =>
        asked[p] \in present /\ last[asked[p]] = clock

TokensInv ==
    \A k \in present :
        /\ last[k] <= clock
        /\ tokens[k] <= Burst[limit[k]]
        /\ \/ tokens[k] = Burst[limit[k]]
           \/ tokens[k] >= Rate[limit[k]] * (clock - last[k])

GrantsInv ==
    \A k \in Keys : limit[k] # None =>
        /\ since[k] <= clock
        /\ granted[k] <= Owed(k) + Rate[limit[k]] * (clock - since[k])

IInv == TypeOK /\ HoldersInv /\ TokensInv /\ GrantsInv

\* Products of naturals, for the provers.
LEMMA NatProducts ==
    /\ \A r, a, b \in Nat : a <= b => r * a <= r * b
    /\ \A r, a \in Nat : r * (a + 1) = r * a + r
    /\ \A r, a \in Nat : r * a \in Nat /\ r * 0 = 0
<1>1. ASSUME NEW r \in Nat, NEW a \in Nat, NEW b \in Nat, a <= b
      PROVE  r * a <= r * b
  <2>1. PICK d \in Nat : b = a + d
    BY <1>1
  <2>2. r * b = r * a + r * d /\ r * d >= 0
    BY <2>1
  <2> QED BY <2>2
<1> QED BY <1>1

\* The constants a limit stands for.
LEMMA LimitNumbers ==
    ASSUME NEW l \in Limits
    PROVE  Rate[l] \in Nat /\ Rate[l] > 0 /\ Burst[l] \in Nat /\ Burst[l] > 0
BY LimitersAssumption

\* A stale entry is full: this is why sweeping is harmless.
LEMMA StaleIsFull ==
    ASSUME IInv, NEW k \in present, Stale(k)
    PROVE  tokens[k] = Burst[limit[k]]
<1> DEFINE l == limit[k]
           idle == clock - last[k]
<1>1. /\ k \in Keys /\ l \in Limits /\ tokens[k] \in Nat /\ clock \in Nat
      /\ last[k] \in Nat /\ last[k] <= clock
      /\ idle \in Nat /\ idle > IdleLimit
  BY LimitersAssumption DEF IInv, TypeOK, TokensInv, Stale
<1>2. Rate[l] * IdleLimit <= Rate[l] * idle
  BY <1>1, NatProducts, LimitNumbers, LimitersAssumption
<1>3. Burst[l] <= Rate[l] * IdleLimit
  BY <1>1, LimitersAssumption
<1>4. tokens[k] <= Burst[l] /\ (tokens[k] = Burst[l] \/ tokens[k] >= Rate[l] * idle)
  BY DEF IInv, TokensInv
<1>5. Rate[l] * idle \in Nat /\ Rate[l] * IdleLimit \in Nat /\ Burst[l] \in Nat
  BY <1>1, NatProducts, LimitNumbers, LimitersAssumption
<1> QED BY <1>1, <1>2, <1>3, <1>4, <1>5

\* The sweep only removes stale entries, and none that a request holds.
LEMMA SweptKeeps ==
    ASSUME IInv
    PROVE  /\ Swept \subseteq present
           /\ \A k \in present \ Swept : Owed(k) = 0
           /\ \A p \in Procs : asked[p] # None => asked[p] \in Swept
<1>1. /\ Swept \subseteq present
      /\ \A k \in present \ Swept : Stale(k)
  BY DEF Swept
<1>2. \A k \in present \ Swept : Owed(k) = 0
  BY <1>1, StaleIsFull, LimitNumbers DEF Owed, IInv, TypeOK
<1>3. ASSUME NEW p \in Procs, asked[p] # None
      PROVE  asked[p] \in Swept
  <2>1. asked[p] \in present /\ last[asked[p]] = clock /\ clock \in Nat
    BY <1>3 DEF IInv, HoldersInv, TypeOK
  <2>2. ~Stale(asked[p])
    BY <2>1, LimitersAssumption DEF Stale
  <2> QED BY <1>1, <2>1, <2>2
<1> QED BY <1>1, <1>2, <1>3

LEMMA InitInv == Init => IInv
<1> SUFFICES ASSUME Init PROVE IInv
  OBVIOUS
<1>1. TypeOK
  BY DEF Init, TypeOK
<1>2. HoldersInv
  BY DEF Init, HoldersInv
<1>3. TokensInv
  BY DEF Init, TokensInv
<1>4. GrantsInv
  BY DEF Init, GrantsInv
<1> QED BY <1>1, <1>2, <1>3, <1>4 DEF IInv

\* A lookup keeps the invariant.
LEMMA ReuseInv ==
    ASSUME IInv, NEW p \in Procs, NEW k \in Keys, NEW l \in Limits, Reuse(p, k, l)
    PROVE  IInv'
<1> USE DEF IInv
<1>1. TypeOK'
  BY SweptKeeps DEF Reuse, TypeOK
<1>2. HoldersInv'
  BY SweptKeeps DEF Reuse, TypeOK, HoldersInv
<1>3. TokensInv'
  <2> SUFFICES ASSUME NEW j \in present'
               PROVE  /\ last'[j] <= clock
                      /\ tokens[j] <= Burst[limit[j]]
                      /\ \/ tokens[j] = Burst[limit[j]]
                         \/ tokens[j] >= Rate[limit[j]] * (clock - last'[j])
    BY DEF Reuse, TokensInv
  <2>1. j \in present /\ j \in Keys
    BY SweptKeeps DEF Reuse, TypeOK
  <2>2. CASE j # k
    BY <2>1, <2>2 DEF Reuse, TypeOK, TokensInv
  <2>3. CASE j = k
    <3>1. last'[j] = clock /\ clock - last'[j] = 0 /\ clock \in Nat
      BY <2>1, <2>3 DEF Reuse, TypeOK
    <3>2. Rate[limit[j]] * 0 = 0 /\ tokens[j] >= 0
      BY <2>1, NatProducts, LimitNumbers DEF TypeOK
    <3> QED BY <2>1, <3>1, <3>2 DEF TokensInv
  <2> QED BY <2>2, <2>3
<1>4. GrantsInv'
  <2>1. \A j \in Keys : Owed(j)' = Owed(j)
    BY SweptKeeps DEF Reuse, Owed
  <2> QED BY <2>1 DEF Reuse, GrantsInv
<1> QED BY <1>1, <1>2, <1>3, <1>4

\* What a lookup that builds a bucket does to each key.
LEMMA BuildOwed ==
    ASSUME IInv, NEW p \in Procs, NEW k \in Keys, NEW l \in Limits, Build(p, k, l)
    PROVE  /\ \A j \in Keys \ {k} : Owed(j)' = Owed(j)
           /\ Owed(k)' = 0
           /\ limit[k] = l => Owed(k) = 0
<1>1. \A j \in Keys \ {k} : Owed(j)' = Owed(j)
  BY SweptKeeps DEF Build, Owed, IInv, TypeOK
<1>2. Owed(k)' = 0
  BY LimitNumbers DEF Build, Owed, IInv, TypeOK
<1>3. limit[k] = l => Owed(k) = 0
  <2> SUFFICES ASSUME limit[k] = l PROVE Owed(k) = 0
    OBVIOUS
  <2>1. k \notin Swept
    BY DEF Build
  <2> QED BY <2>1, SweptKeeps DEF Owed
<1> QED BY <1>1, <1>2, <1>3

LEMMA BuildInv ==
    ASSUME IInv, NEW p \in Procs, NEW k \in Keys, NEW l \in Limits, Build(p, k, l)
    PROVE  IInv'
<1> USE DEF IInv
<1>1. TypeOK'
  <2>1. Burst[l] \in Nat
    BY LimitNumbers
  <2>2. /\ present' \in SUBSET Keys /\ \A j \in present' : limit'[j] \in Limits
        /\ tokens' \in [Keys -> Nat] /\ limit' \in [Keys -> Limits \cup {None}]
        /\ last' \in [Keys -> Nat] /\ orphans' \in SUBSET Procs
        /\ asked' \in [Procs -> Keys \cup {None}]
    BY <2>1, SweptKeeps DEF Build, TypeOK, Holders
  <2>3. since' \in [Keys -> Nat] /\ granted' \in [Keys -> Nat] /\ clock' \in Nat
    BY DEF Build, TypeOK
  <2> QED BY <2>2, <2>3 DEF TypeOK
<1>2. HoldersInv'
  BY SweptKeeps DEF Build, TypeOK, HoldersInv
<1>3. TokensInv'
  <2> SUFFICES ASSUME NEW j \in present'
               PROVE  /\ last'[j] <= clock
                      /\ tokens'[j] <= Burst[limit'[j]]
                      /\ \/ tokens'[j] = Burst[limit'[j]]
                         \/ tokens'[j] >= Rate[limit'[j]] * (clock - last'[j])
    BY DEF Build, TokensInv
  <2>1. CASE j # k
    <3>1. j \in present /\ j \in Keys
      BY <2>1, SweptKeeps DEF Build, TypeOK
    <3>2. last'[j] = last[j] /\ tokens'[j] = tokens[j] /\ limit'[j] = limit[j]
      BY <2>1, <3>1 DEF Build, TypeOK
    <3> QED BY <3>1, <3>2 DEF TokensInv
  <2>2. CASE j = k
    BY <2>2, LimitNumbers DEF Build, TypeOK
  <2> QED BY <2>1, <2>2
<1>4. GrantsInv'
  <2> SUFFICES ASSUME NEW j \in Keys, limit'[j] # None
               PROVE  /\ since'[j] <= clock
                      /\ granted'[j] <= Owed(j)' + Rate[limit'[j]] * (clock - since'[j])
    BY DEF Build, GrantsInv
  <2>1. CASE j # k
    <3>1. since'[j] = since[j] /\ granted'[j] = granted[j] /\ limit'[j] = limit[j]
      BY <2>1 DEF Build, TypeOK
    <3> QED BY <2>1, <3>1, BuildOwed DEF GrantsInv
  <2>2. CASE j = k /\ limit[k] = l
    <3>1. since'[j] = since[j] /\ granted'[j] = granted[j] /\ limit'[j] = limit[j]
      BY <2>2 DEF Build, TypeOK
    <3>2. Owed(j)' = Owed(j)
      BY <2>2, BuildOwed
    <3> QED BY <2>2, <3>1, <3>2 DEF GrantsInv
  <2>3. CASE j = k /\ limit[k] # l
    <3>1. since'[j] = clock /\ granted'[j] = 0 /\ limit'[j] = l /\ clock \in Nat
      BY <2>3 DEF Build, TypeOK
    <3>2. Rate[l] * 0 = 0 /\ Owed(j)' = 0
      BY <2>3, BuildOwed, NatProducts, LimitNumbers
    <3> QED BY <3>1, <3>2
  <2> QED BY <2>1, <2>2, <2>3
<1> QED BY <1>1, <1>2, <1>3, <1>4

\* The bucket of a request is the one in the map, last asked for just now.
LEMMA AllowInv ==
    ASSUME IInv, NEW p \in Procs, NEW k \in Keys, asked[p] = k, Allow(p)
    PROVE  IInv'
<1> USE DEF IInv
<1>0. /\ k \in present /\ limit[k] \in Limits
      /\ last[k] = clock /\ clock \in Nat /\ tokens[k] \in Nat /\ tokens[k] > 0
      /\ clock - last[k] = 0
  BY DEF Allow, TypeOK, HoldersInv
<1>1. TypeOK'
  BY <1>0 DEF Allow, TypeOK
<1>2. HoldersInv'
  BY DEF Allow, TypeOK, HoldersInv
<1>3. TokensInv'
  <2> SUFFICES ASSUME NEW j \in present
               PROVE  /\ last[j] <= clock
                      /\ tokens'[j] <= Burst[limit[j]]
                      /\ \/ tokens'[j] = Burst[limit[j]]
                         \/ tokens'[j] >= Rate[limit[j]] * (clock - last[j])
    BY DEF Allow, TokensInv
  <2>1. CASE j # k
    BY <2>1 DEF Allow, TypeOK, TokensInv
  <2>2. CASE j = k
    <3>1. Rate[limit[k]] * 0 = 0 /\ Burst[limit[k]] \in Nat
      BY <1>0, NatProducts, LimitNumbers
    <3>2. tokens'[k] = tokens[k] - 1
      BY <1>0 DEF Allow, TypeOK
    <3> QED BY <1>0, <2>2, <3>1, <3>2 DEF TokensInv
  <2> QED BY <2>1, <2>2
<1>4. GrantsInv'
  <2> SUFFICES ASSUME NEW j \in Keys, limit[j] # None
               PROVE  /\ since[j] <= clock
                      /\ granted'[j] <= Owed(j)' + Rate[limit[j]] * (clock - since[j])
    BY DEF Allow, GrantsInv
  <2>1. CASE j # k
    BY <2>1 DEF Allow, TypeOK, GrantsInv, Owed
  <2>2. CASE j = k
    <3>1. granted'[k] = granted[k] + 1 /\ Owed(k)' = Owed(k) + 1
      BY <1>0, LimitNumbers DEF Allow, TypeOK, Owed
    <3>2. /\ granted[k] \in Nat /\ Owed(k) \in Int /\ since[k] \in Nat
          /\ granted[k] <= Owed(k) + Rate[limit[k]] * (clock - since[k])
          /\ since[k] <= clock
      BY <1>0, <2>2, LimitNumbers DEF TypeOK, GrantsInv, Owed
    <3>3. Rate[limit[k]] * (clock - since[k]) \in Nat
      BY <1>0, <3>2, NatProducts, LimitNumbers
    <3> QED BY <2>2, <3>1, <3>2, <3>3
  <2> QED BY <2>1, <2>2
<1> QED BY <1>1, <1>2, <1>3, <1>4

LEMMA AnswerInv ==
    ASSUME IInv, NEW p \in Procs, Refuse(p) \/ AnswerOrphan(p)
    PROVE  IInv'
<1> USE DEF IInv
<1>1. UNCHANGED <<clock, present, limit, tokens, last, since, granted>>
  BY DEF Refuse, AnswerOrphan
<1>2. TypeOK'
  BY DEF Refuse, AnswerOrphan, TypeOK
<1>3. HoldersInv'
  BY DEF Refuse, AnswerOrphan, TypeOK, HoldersInv
<1>4. TokensInv'
  BY <1>1 DEF TokensInv
<1>5. GrantsInv'
  BY <1>1 DEF GrantsInv, Owed
<1> QED BY <1>2, <1>3, <1>4, <1>5

\* A tick lowers what a key owes by its rate, down to nothing.
LEMMA TickOwed ==
    ASSUME IInv, Tick, NEW k \in Keys
    PROVE  Owed(k)' = IF limit[k] # None /\ Owed(k) > Rate[limit[k]]
                      THEN Owed(k) - Rate[limit[k]] ELSE 0
<1>1. CASE k \notin present
  <2>1. Owed(k) = 0 /\ Owed(k)' = 0
    BY <1>1 DEF Tick, Owed
  <2>2. limit[k] = None \/ (Rate[limit[k]] > 0 /\ Rate[limit[k]] \in Nat)
    BY LimitNumbers DEF IInv, TypeOK
  <2> QED BY <2>1, <2>2
<1>2. CASE k \in present
  <2>1. /\ limit[k] \in Limits /\ limit[k] # None /\ tokens[k] \in Nat
        /\ tokens[k] <= Burst[limit[k]]
    BY <1>2, LimitersAssumption DEF IInv, TypeOK, TokensInv
  <2>2. Owed(k) = Burst[limit[k]] - tokens[k]
    BY <1>2 DEF Owed
  <2>3. Owed(k)' = Burst[limit[k]] - Refilled(tokens[k], limit[k])
    BY <1>2 DEF Owed, Tick, IInv, TypeOK
  <2> QED BY <2>1, <2>2, <2>3, LimitNumbers DEF Refilled
<1> QED BY <1>1, <1>2

LEMMA TickInv == ASSUME IInv, Tick PROVE IInv'
<1> USE DEF IInv
<1>1. TypeOK'
  BY LimitNumbers DEF Tick, TypeOK, Refilled
<1>2. HoldersInv'
  BY DEF Tick, HoldersInv
<1>3. TokensInv'
  <2> SUFFICES ASSUME NEW k \in present
               PROVE  /\ last[k] <= clock'
                      /\ tokens'[k] <= Burst[limit[k]]
                      /\ \/ tokens'[k] = Burst[limit[k]]
                         \/ tokens'[k] >= Rate[limit[k]] * (clock' - last[k])
    BY DEF Tick, TokensInv
  <2> DEFINE l == limit[k]
             idle == clock - last[k]
  <2>1. /\ k \in Keys /\ l \in Limits /\ tokens[k] \in Nat /\ clock \in Nat
        /\ last[k] \in Nat /\ last[k] <= clock /\ idle \in Nat
        /\ tokens[k] <= Burst[l]
        /\ tokens[k] = Burst[l] \/ tokens[k] >= Rate[l] * idle
    BY DEF TypeOK, TokensInv
  <2>2. clock' - last[k] = idle + 1 /\ tokens'[k] = Refilled(tokens[k], l)
    BY <2>1 DEF Tick
  <2>3. Rate[l] * (idle + 1) = Rate[l] * idle + Rate[l] /\ Rate[l] * idle \in Nat
    BY <2>1, NatProducts, LimitNumbers
  <2>4. last[k] <= clock'
    BY <2>1 DEF Tick
  <2> HIDE DEF idle
  <2> QED BY <2>1, <2>2, <2>3, <2>4, LimitNumbers DEF Refilled
<1>4. GrantsInv'
  <2> SUFFICES ASSUME NEW k \in Keys, limit[k] # None
               PROVE  /\ since[k] <= clock'
                      /\ granted[k] <= Owed(k)' + Rate[limit[k]] * (clock' - since[k])
    BY DEF Tick, GrantsInv
  <2> DEFINE l == limit[k]
             age == clock - since[k]
  <2>1. /\ l \in Limits /\ clock \in Nat /\ since[k] \in Nat /\ since[k] <= clock
        /\ age \in Nat /\ granted[k] \in Nat /\ Owed(k) \in Int
        /\ granted[k] <= Owed(k) + Rate[l] * age
    BY LimitNumbers DEF TypeOK, GrantsInv, Owed
  <2>2. clock' - since[k] = age + 1 /\ since[k] <= clock'
    BY <2>1 DEF Tick
  <2>3. Rate[l] * (age + 1) = Rate[l] * age + Rate[l] /\ Rate[l] * age \in Nat
    BY <2>1, NatProducts, LimitNumbers
  <2>4. Owed(k)' >= Owed(k) - Rate[l] /\ Owed(k)' \in Int
    BY <2>1, TickOwed, LimitNumbers
  <2> HIDE DEF age
  <2> QED BY <2>1, <2>2, <2>3, <2>4, LimitNumbers
<1> QED BY <1>1, <1>2, <1>3, <1>4

LEMMA StepInv == IInv /\ [Next]_vars => IInv'
<1> SUFFICES ASSUME IInv, [Next]_vars PROVE IInv'
  OBVIOUS
<1>1. CASE \E p \in Procs, k \in Keys, l \in Limits : Reuse(p, k, l) \/ Build(p, k, l)
  BY <1>1, ReuseInv, BuildInv
<1>2. ASSUME NEW p \in Procs, Allow(p)
      PROVE  IInv'
  <2>1. asked[p] \in Keys
    BY <1>2 DEF Allow, IInv, TypeOK
  <2> QED BY <1>2, <2>1, AllowInv
<1>3. CASE \E p \in Procs : Refuse(p) \/ AnswerOrphan(p)
  BY <1>3, AnswerInv
<1>4. CASE Tick
  BY <1>4, TickInv
<1>5. CASE UNCHANGED vars
  BY <1>5 DEF vars, IInv, TypeOK, HoldersInv, TokensInv, GrantsInv, Owed
<1> QED BY <1>1, <1>2, <1>3, <1>4, <1>5 DEF Next

\* Every variable of the limiters has its type at all times, for any number
\* of subjects and requests (limiterFor, IPLimiter.allow).
THEOREM LimitersTyped == Spec => []TypeOK
<1>1. IInv => TypeOK
  BY DEF IInv
<1> QED BY <1>1, InitInv, StepInv, PTL DEF Spec

\* No subject is let through more often than its burst and the time since
\* its limit was set allow, however the map is swept (limiterFor, allow).
THEOREM LimitersBoundGrants == Spec => []GrantsBounded
<1>1. IInv => GrantsBounded
  <2> SUFFICES ASSUME IInv, NEW k \in Keys, limit[k] # None
               PROVE  granted[k] <= Burst[limit[k]] + Rate[limit[k]] * (clock - since[k])
    BY DEF GrantsBounded
  <2>1. /\ limit[k] \in Limits /\ clock - since[k] \in Nat
        /\ granted[k] \in Nat
        /\ granted[k] <= Owed(k) + Rate[limit[k]] * (clock - since[k])
    BY DEF IInv, TypeOK, GrantsInv
  <2>2. Owed(k) \in Int /\ Owed(k) <= Burst[limit[k]]
    BY <2>1, LimitNumbers DEF Owed, IInv, TypeOK
  <2>3. Rate[limit[k]] * (clock - since[k]) \in Nat
    BY <2>1, NatProducts, LimitNumbers
  <2> QED BY <2>1, <2>2, <2>3, LimitNumbers
<1> QED BY <1>1, InitInv, StepInv, PTL DEF Spec

LEMMA RefinesInit == Init => TB!BucketInit
BY DEF Init, TB!BucketInit, Owed

\* Looking up, refusing and answering late change nothing a subject sees,
\* unless its limit changed.
LEMMA LookupRefines ==
    ASSUME IInv, NEW p \in Procs, NEW k \in Keys, NEW l \in Limits,
           Reuse(p, k, l) \/ Build(p, k, l)
    PROVE  [TB!BucketNext]_(TB!bucketVars)
<1>1. CASE Reuse(p, k, l)
  <2>1. \A j \in Keys : Owed(j)' = Owed(j)
    BY <1>1, SweptKeeps DEF Reuse, Owed
  <2> QED BY <1>1, <2>1 DEF Reuse, TB!bucketVars
<1>2. CASE Build(p, k, l) /\ limit[k] = l
  <2>1. \A j \in Keys : Owed(j)' = Owed(j)
    BY <1>2, BuildOwed
  <2>2. limit' = limit /\ granted' = granted
    BY <1>2 DEF Build, IInv, TypeOK
  <2> QED BY <2>1, <2>2 DEF TB!bucketVars
<1>3. CASE Build(p, k, l) /\ limit[k] # l
  <2>1. [j \in Keys |-> Owed(j)]' = [[j \in Keys |-> Owed(j)] EXCEPT ![k] = 0]
    BY <1>3, BuildOwed
  <2>2. TB!SetLimit(k, l)
    BY <1>3, <2>1 DEF Build, TB!SetLimit
  <2> QED BY <2>2 DEF TB!BucketNext
<1> QED BY <1>1, <1>2, <1>3

LEMMA AllowRefines ==
    ASSUME IInv, NEW p \in Procs, NEW k \in Keys, asked[p] = k, Allow(p)
    PROVE  TB!Grant(k)
<1>1. /\ k \in present /\ limit[k] \in Limits /\ limit[k] # None
      /\ tokens[k] \in Nat /\ tokens[k] > 0 /\ Burst[limit[k]] \in Nat
  BY LimitNumbers, LimitersAssumption DEF Allow, IInv, TypeOK, HoldersInv
<1>2. Owed(k) < Burst[limit[k]]
  BY <1>1 DEF Owed
<1>3. Owed(k)' = Owed(k) + 1
  BY <1>1 DEF Allow, IInv, TypeOK, Owed
<1>4. \A j \in Keys \ {k} : Owed(j)' = Owed(j)
  BY DEF Allow, IInv, TypeOK, Owed
<1>5. [j \in Keys |-> Owed(j)]' = [[j \in Keys |-> Owed(j)] EXCEPT ![k] = @ + 1]
  BY <1>3, <1>4
<1> QED BY <1>1, <1>2, <1>5 DEF Allow, TB!Grant, TB!HasToken

LEMMA StepRefines ==
    IInv /\ [Next]_vars => [TB!BucketNext]_(TB!bucketVars)
<1> SUFFICES ASSUME IInv, [Next]_vars PROVE [TB!BucketNext]_(TB!bucketVars)
  OBVIOUS
<1>1. CASE \E p \in Procs, k \in Keys, l \in Limits : Reuse(p, k, l) \/ Build(p, k, l)
  BY <1>1, LookupRefines
<1>2. ASSUME NEW p \in Procs, Allow(p)
      PROVE  TB!BucketNext
  <2>1. asked[p] \in Keys
    BY <1>2 DEF Allow, IInv, TypeOK
  <2> QED BY <1>2, <2>1, AllowRefines DEF TB!BucketNext
<1>3. CASE \E p \in Procs : Refuse(p) \/ AnswerOrphan(p)
  BY <1>3 DEF Refuse, AnswerOrphan, TB!bucketVars, Owed
<1>4. CASE Tick
  <2>1. [k \in Keys |-> Owed(k)]' =
          [k \in Keys |-> IF limit[k] # None /\ Owed(k) > Rate[limit[k]]
                          THEN Owed(k) - Rate[limit[k]] ELSE 0]
    BY <1>4, TickOwed
  <2> QED BY <1>4, <2>1 DEF Tick, TB!BucketNext, TB!Refill
<1>5. CASE UNCHANGED vars
  BY <1>5 DEF vars, TB!bucketVars, Owed
<1> QED BY <1>1, <1>2, <1>3, <1>4, <1>5 DEF Next

\* A map that is swept is as good as buckets that are kept for ever
\* (limiterFor, IPLimiter.allow, sweepLocked).
THEOREM LimitersImplementTokenBuckets == Spec => ImplementsTokenBuckets
<1> QED BY InitInv, StepInv, RefinesInit, StepRefines, PTL
        DEF Spec, ImplementsTokenBuckets, TB!BucketSpec
=============================================================================
