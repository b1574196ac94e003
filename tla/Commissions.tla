----------------------------- MODULE Commissions -----------------------------
(***************************************************************************)
(* The scheduled bonuses of apps/commissions.  Celery Beat starts a binary  *)
(* bonus cycle every few minutes and a matching bonus cycle every few days: *)
(* it sends a message, and the cycle begins, with its run_at, once a worker *)
(* takes it.  A cycle holds a Redis lock of its job while it goes through   *)
(* its distributors, one database transaction each.                         *)
(*                                                                          *)
(* The binary bonus pays a rate on the PV both legs have, within a weekly   *)
(* cap, and spends that PV; the matching bonus pays a rate on the binary    *)
(* bonuses of the sponsor-chain downline and spends nothing.                *)
(*                                                                          *)
(* Amounts are in pesewas.  Time has the grain of a day; a payment of the   *)
(* day of a matching cycle counts as made after it.                         *)
(***************************************************************************)
EXTENDS PvLedger

CONSTANTS
  Jobs,       \* "binary", "matching"
  Workers,    \* Celery worker processes
  None,       \* a model value: no sponsor, no job
  Rate,       \* BINARY_BONUS_RATE in tenths of a percent: 1 PV is GHS 1
  Cap,        \* WEEKLY_BINARY_BONUS_CAP
  Week,       \* the seven days of the cap
  MatchRate,  \* MATCHING_BONUS_RATE in tenths of a percent
  Sponsor,    \* Distributor.sponsor
  Depth,      \* _matching_bonus_depth_for_rank: levels, 0 for no such rank
  Intervals,  \* values an admin gives to MATCHING_BONUS_INTERVAL_DAYS
  FirstInterval, \* the one it has at first
  MayLapse,   \* jobs whose lock may expire under a live holder
  MaxFaults   \* bound on exceptions and crashes

ASSUME JobAssumption ==
  /\ Jobs \subseteq {"binary", "matching"}
  /\ MayLapse \subseteq Jobs
  /\ None \notin Jobs \cup Distributors \cup Workers
ASSUME RateAssumption ==
  /\ Rate \in Nat
  /\ MatchRate \in Nat
  /\ Cap \in Nat
  /\ Week \in Nat
ASSUME SponsorAssumption ==
  /\ Sponsor \in [Distributors -> Distributors \cup {None}]
  /\ Depth \in [Distributors -> Nat]
ASSUME IntervalAssumption ==
  /\ Intervals \subseteq Nat \ {0}
  /\ FirstInterval \in Intervals
ASSUME FaultAssumption == MaxFaults \in Nat

VARIABLES
  payments, \* WalletTransaction rows of the two bonus types
  lock,     \* Redis holds the lock of a job
  cycle,    \* what a worker is doing
  audit,    \* CommissionCycleRun rows of cycles that paid
  interval, \* MATCHING_BONUS_INTERVAL_DAYS
  every,    \* the interval of the matching bonus's PeriodicTask
  fired,    \* the day Beat last sent a matching cycle's message
  waiting,  \* such messages no worker has taken yet
  faults    \* exceptions and crashes so far

scheduleVars == <<interval, every, fired, waiting>>
vars == <<today, pvVars, payments, lock, cycle, audit, scheduleVars, faults>>

Idle == [job |-> None, at |-> 0, run |-> None, queue |-> {}, total |-> 0]

Busy(w) == cycle[w].job # None

\* run_at as a name: a worker's cycles differ once one has paid.  It is what
\* makes the reference of a payment.
PaidBy(w, j) == {x \in payments : x.run[1] = j /\ x.run[2] = w}
RunName(w, j) == <<j, w, Cardinality(PaidBy(w, j))>>

RunNames == Jobs \X Workers \X Nat

Cycles == [job : Jobs \cup {None}, at : Days, run : RunNames \cup {None},
           queue : SUBSET Distributors, total : Nat]

\* A WalletTransaction of type BINARY_BONUS or MATCHING_BONUS.  "of" lists the
\* binary bonuses a matching bonus was computed from and "pv" the PV a binary bonus
\* spent from each leg: for the properties.
Payments ==
  [to : Distributors, job : Jobs, run : RunNames, amount : Nat \ {0}, day : Days,
   pv : Nat, of : SUBSET (Distributors \X RunNames)]

TypeOK ==
  /\ PvTypeOK
  /\ payments \subseteq Payments
  /\ \A x \in payments : x.job = x.run[1]
  /\ lock \in [Jobs -> BOOLEAN]
  /\ cycle \in [Workers -> Cycles]
  /\ \A w \in Workers : ~Busy(w) => cycle[w] = Idle
  /\ audit \subseteq [run : RunNames, total : Nat \ {0}]
  /\ interval \in Intervals
  /\ every \in Intervals
  /\ fired \in Days
  /\ waiting \in Nat
  /\ faults \in 0..MaxFaults

Init ==
  /\ PvInit
  /\ payments = {}
  /\ lock = [j \in Jobs |-> FALSE]
  /\ cycle = [w \in Workers |-> Idle]
  /\ audit = {}
  /\ interval = FirstInterval
  /\ every = FirstInterval
  /\ fired = 0
  /\ waiting = 0
  /\ faults = 0

Fault ==
  /\ faults < MaxFaults
  /\ faults' = faults + 1

\* A rate in tenths of a percent, quantised to a pesewa with ROUND_HALF_UP.
PerMille(amount, rate) == (amount * rate + 500) \div 1000

Total(rows) == SumFunctionOnSet([x \in rows |-> x.amount], rows)

-----------------------------------------------------------------------------
(* The binary bonus of a distributor, as of a day.                          *)

WeakLegPv(d, at) == Smaller(SumLegPv(d, "left", at), SumLegPv(d, "right", at))

\* calculate_binary_bonus: 1 PV is 100 pesewas.
RawBonus(pv) == PerMille(100 * pv, Rate)

BinaryBonuses(d) == {x \in payments : x.job = "binary" /\ x.to = d}

\* Mutant of PaidThisWeek: the window is closed a day early.
PaidSinceCutoff(d, at) == Total({x \in BinaryBonuses(d) : x.day > at - Week})

PaidThisWeek(d, at) == Total({x \in BinaryBonuses(d) : x.day >= at - Week})

\* apply_weekly_binary_bonus_cap.
CappedBonus(d, at) ==
  Smaller(RawBonus(WeakLegPv(d, at)), Larger(Cap - PaidThisWeek(d, at), 0))

\* Mutant of PvToConsume: rounded up.
PvRoundedUp(d, at) ==
  LET raw == RawBonus(WeakLegPv(d, at)) IN
  IF CappedBonus(d, at) >= raw THEN WeakLegPv(d, at)
  ELSE (WeakLegPv(d, at) * CappedBonus(d, at) + raw - 1) \div raw

\* All of the weak leg, or the share of it that the capped bonus pays for.
PvToConsume(d, at) ==
  LET weak   == WeakLegPv(d, at)
      raw    == RawBonus(weak)
      capped == CappedBonus(d, at)
  IN  IF capped >= raw THEN weak ELSE (weak * capped) \div raw

\* A bonus too small to spend any PV is deferred.
OwesBinary(d, at) ==
  /\ IsEligible(d, at)
  /\ CappedBonus(d, at) > 0
  /\ PvToConsume(d, at) > 0

-----------------------------------------------------------------------------
(* The matching bonus of a distributor.                                     *)

\* walk_sponsor_chain_downline_ids: level by level down to the depth of the
\* rank, never back to the distributor, who may be in a corrupted cycle.
Downline(d) ==
  LET Level[n \in 0..Depth[d]] ==
        IF n = 0 THEN {}
        ELSE Level[n - 1] \cup
             {b \in Distributors \ {d} : Sponsor[b] \in Level[n - 1] \cup {d}}
  IN Level[Depth[d]]

\* The binary bonuses of the interval before the cycle, with the interval as
\* it is set now.
DownlineBonuses(d, at) ==
  {x \in payments : /\ x.job = "binary"
                    /\ x.to \in Downline(d)
                    /\ x.day >= at - interval
                    /\ x.day < at}

MatchingBonus(d, at) == PerMille(Total(DownlineBonuses(d, at)), MatchRate)

OwesMatching(d, at) == IsEligible(d, at) /\ MatchingBonus(d, at) > 0

-----------------------------------------------------------------------------
(* _run_commission_cycle.                                                   *)

\* distributor_ids_with_pending_pv, distributor_ids_eligible_for_matching_bonus.
IdsQuery(j) ==
  IF j = "binary" THEN {d \in Distributors : HasPendingPv(d)}
  ELSE {d \in Distributors : Depth[d] > 0 /\ \E b \in Distributors : Sponsor[b] = d}

\* Beat sends the message of a matching cycle once the interval is over, and notes
\* the day, not whether a cycle comes of it.  Binary cycles come at any time.
Fire ==
  /\ today >= fired + every
  /\ fired' = today
  /\ waiting' = waiting + 1
  /\ UNCHANGED <<today, pvVars, payments, lock, cycle, audit, interval, every, faults>>

\* A worker takes a message, any time after it was sent.
TakeTrigger(j) ==
  \/ j = "binary" /\ UNCHANGED waiting
  \/ j = "matching" /\ waiting > 0 /\ waiting' = waiting - 1

\* sync_interval: the PeriodicTask follows the setting, unless that fails.
SyncInterval(j) ==
  \/ every' = (IF j = "matching" THEN interval ELSE every) /\ UNCHANGED faults
  \/ j = "matching" /\ Fault /\ UNCHANGED every

\* cache.add took the lock.
StartCycle(w, j) ==
  /\ ~Busy(w)
  /\ ~lock[j]
  /\ TakeTrigger(j)
  /\ lock' = [lock EXCEPT ![j] = TRUE]
  /\ cycle' = [cycle EXCEPT ![w] =
       [job |-> j, at |-> today, run |-> RunName(w, j), queue |-> IdsQuery(j), total |-> 0]]
  /\ SyncInterval(j)
  /\ UNCHANGED <<today, pvVars, payments, audit, interval, fired>>

\* cache.add found the lock taken: this trigger is skipped.
SkipTrigger(w, j) ==
  /\ ~Busy(w)
  /\ lock[j]
  /\ TakeTrigger(j)
  /\ UNCHANGED <<today, pvVars, payments, lock, cycle, audit, interval, every, fired, faults>>

\* The next iteration: cache.set renews the lock, whoever holds it, and the
\* distributor's bonus is added to the total.
Visit(w, d, amount) ==
  /\ d \in cycle[w].queue
  /\ lock' = [lock EXCEPT ![cycle[w].job] = TRUE]
  /\ cycle' = [cycle EXCEPT ![w] =
       [cycle[w] EXCEPT !.queue = cycle[w].queue \ {d}, !.total = cycle[w].total + amount]]
  /\ UNCHANGED <<today, purchase, pvLedger, personal, audit, scheduleVars>>

Pay(w, d, amount, pv, of) ==
  payments' = payments \cup
    {[to |-> d, job |-> cycle[w].job, run |-> cycle[w].run, amount |-> amount,
      day |-> today, pv |-> pv, of |-> {<<x.to, x.run>> : x \in of}]}

\* Mutant of SpendPv: the strong leg is left alone.
SpendWeakLeg(d, at, pv) ==
  bucket' = [bucket EXCEPT ![d] = [leg \in Legs |->
    IF SumLegPv(d, leg, at) = WeakLegPv(d, at)
    THEN Consumed(Expired(bucket[d][leg], at), pv)
    ELSE Expired(bucket[d][leg], at)]]

SpendPv(d, at, pv) ==
  bucket' = [bucket EXCEPT ![d] = [leg \in Legs |->
    Consumed(Expired(bucket[d][leg], at), pv)]]

\* process_binary_bonus_for_distributor: expiry comes first and whatever the
\* outcome.  A payment of the same run cannot exist: a cycle visits a
\* distributor once.
PayBinary(w, d) ==
  LET at == cycle[w].at IN
  /\ cycle[w].job = "binary"
  /\ Visit(w, d, CappedBonus(d, at))
  /\ OwesBinary(d, at)
  /\ Pay(w, d, CappedBonus(d, at), PvToConsume(d, at), {})
  /\ SpendPv(d, at, PvToConsume(d, at))
  /\ UNCHANGED faults

SkipBinary(w, d) ==
  LET at == cycle[w].at IN
  /\ cycle[w].job = "binary"
  /\ Visit(w, d, 0)
  /\ ~OwesBinary(d, at)
  /\ bucket' = [bucket EXCEPT ![d] = [leg \in Legs |-> Expired(bucket[d][leg], at)]]
  /\ UNCHANGED <<payments, faults>>

\* process_matching_bonus_for_distributor.
PayMatching(w, d) ==
  LET at == cycle[w].at IN
  /\ cycle[w].job = "matching"
  /\ Visit(w, d, MatchingBonus(d, at))
  /\ OwesMatching(d, at)
  /\ Pay(w, d, MatchingBonus(d, at), 0, DownlineBonuses(d, at))
  /\ UNCHANGED <<bucket, faults>>

SkipMatching(w, d) ==
  /\ cycle[w].job = "matching"
  /\ Visit(w, d, 0)
  /\ ~OwesMatching(d, cycle[w].at)
  /\ UNCHANGED <<payments, bucket, faults>>

\* An exception rolls the distributor's transaction back; the cycle goes on.
FailDistributor(w, d) ==
  /\ Busy(w)
  /\ Visit(w, d, 0)
  /\ Fault
  /\ UNCHANGED <<payments, bucket>>

\* _persist_cycle_audit_record.  A cycle that paid nothing is left out.
AuditRows(w) ==
  IF cycle[w].total = 0 THEN {} ELSE {[run |-> cycle[w].run, total |-> cycle[w].total]}

\* cache.delete in the finally clause: whoever's lock it is by now.
Release(w) ==
  /\ lock' = [lock EXCEPT ![cycle[w].job] = FALSE]
  /\ cycle' = [cycle EXCEPT ![w] = Idle]
  /\ UNCHANGED <<today, pvVars, payments, scheduleVars>>

FinishCycle(w) ==
  /\ Busy(w)
  /\ cycle[w].queue = {}
  /\ audit' = audit \cup AuditRows(w)
  /\ Release(w)
  /\ UNCHANGED faults

\* The ids query fails, or the audit record cannot be written.
AbortCycle(w) ==
  /\ Busy(w)
  /\ Fault
  /\ Release(w)
  /\ UNCHANGED audit

\* The worker process dies and is started again: nobody releases the lock.
Crash(w) ==
  /\ Busy(w)
  /\ Fault
  /\ cycle' = [cycle EXCEPT ![w] = Idle]
  /\ UNCHANGED <<today, pvVars, payments, lock, audit, scheduleVars>>

-----------------------------------------------------------------------------
(* The environment.                                                         *)

Abandoned(j) == \A w \in Workers : cycle[w].job # j

\* Mutant of MayExpire: a lock without a timeout.
NeverExpires(j) == j \in MayLapse /\ ~Abandoned(j)

\* The TTL runs out: of a lock nobody renews any more, or, when one
\* distributor takes too long, of one in use.
MayExpire(j) == Abandoned(j) \/ j \in MayLapse

LockLapses(j) ==
  /\ lock[j]
  /\ MayExpire(j)
  /\ lock' = [lock EXCEPT ![j] = FALSE]
  /\ UNCHANGED <<today, pvVars, payments, cycle, audit, scheduleVars, faults>>

NextDay ==
  /\ today < LastDay
  /\ today' = today + 1
  /\ UNCHANGED <<pvVars, payments, lock, cycle, audit, scheduleVars, faults>>

\* An admin saves the platform settings; Beat does not hear of it.
SetInterval(n) ==
  /\ n # interval
  /\ interval' = n
  /\ UNCHANGED <<today, pvVars, payments, lock, cycle, audit, every, fired, waiting, faults>>

otherVars == <<payments, lock, cycle, audit, scheduleVars, faults>>

ProcessNext(w) ==
  \/ \E d \in Distributors : \/ PayBinary(w, d) \/ SkipBinary(w, d)
                             \/ PayMatching(w, d) \/ SkipMatching(w, d)
  \/ FinishCycle(w)

Next ==
  \/ \E p \in Purchases : Purchase(p) /\ UNCHANGED otherVars
  \/ \E p \in Purchases : CancelPurchase(p) /\ UNCHANGED otherVars
  \/ "matching" \in Jobs /\ Fire
  \/ \E w \in Workers : \E j \in Jobs : StartCycle(w, j) \/ SkipTrigger(w, j)
  \/ \E w \in Workers : ProcessNext(w)
  \/ \E w \in Workers : \E d \in Distributors : FailDistributor(w, d)
  \/ \E w \in Workers : AbortCycle(w)
  \/ \E w \in Workers : Crash(w)
  \/ \E j \in Jobs : LockLapses(j)
  \/ NextDay
  \/ \E n \in Intervals : SetInterval(n)

\* Workers are alive or restarted, Beat keeps starting binary cycles, and the
\* lock of a dead worker expires.
Fairness ==
  /\ \A w \in Workers : WF_vars(ProcessNext(w))
  /\ SF_vars(\E w \in Workers : StartCycle(w, "binary"))
  /\ \A j \in Jobs : WF_vars(Abandoned(j) /\ LockLapses(j))

Spec == Init /\ [][Next]_vars /\ Fairness
=============================================================================
