---------------------------- MODULE Access_proofs ----------------------------
(***************************************************************************)
(* Proofs about access: no limit of sign-in is passed, a phone counts as    *)
(* verified only by a code that was texted to it, IR IDs, results and       *)
(* announcements are sound, and the settings stand.  They hold for every    *)
(* number of accounts, browsers, workers and settings pages, and every      *)
(* limit.                                                                   *)
(***************************************************************************)
EXTENDS AccessInvariant, Induction_proofs, FiniteSetTheorems, SequenceTheorems

-----------------------------------------------------------------------------
(* Counting workers.                                                        *)

LEMMA WorkersCount ==
  ASSUME NEW S, S \subseteq Workers
  PROVE  IsFiniteSet(S) /\ Cardinality(S) \in Nat
BY SignInAssumption, FS_Subset, FS_CardinalityType

\* A set of workers that one worker may have entered or left.
LEMMA OneCounts ==
  ASSUME NEW S, NEW T, NEW w \in Workers, S \subseteq Workers, T \subseteq Workers,
         \A v \in Workers \ {w} : v \in S <=> v \in T
  PROVE  /\ (w \in S <=> w \in T) => Cardinality(T) = Cardinality(S)
         /\ w \notin S /\ w \in T => Cardinality(T) = Cardinality(S) + 1
         /\ w \in S /\ w \notin T => Cardinality(T) = Cardinality(S) - 1
<1>1. IsFiniteSet(S) /\ IsFiniteSet(T) /\ Cardinality(S) \in Nat /\ Cardinality(T) \in Nat
  BY WorkersCount
<1>2. CASE w \in S <=> w \in T
  <2>1. S = T
    BY <1>2
  <2> QED
    BY <1>2, <2>1
<1>3. CASE w \notin S /\ w \in T
  <2>1. T = S \cup {w}
    BY <1>3
  <2> QED
    BY <1>1, <1>3, <2>1, FS_AddElement
<1>4. CASE w \in S /\ w \notin T
  <2>1. S = T \cup {w}
    BY <1>4
  <2>2. Cardinality(S) = Cardinality(T) + 1
    BY <1>1, <1>4, <2>1, FS_AddElement
  <2> QED
    BY <1>1, <1>4, <2>2
<1> QED
  BY <1>2, <1>3, <1>4

-----------------------------------------------------------------------------
(* What a request works on.                                                 *)

\* An idle worker's record, and an empty session.
LEMMA EmptyValues ==
  /\ NoCode \in {NoCode} \cup [acct : Distributors, purpose : Purposes]
  /\ NoSession \in Sessions
  /\ NoSession.user = NoOne /\ NoSession.reset = NoOne /\ NoSession.otp = NoCode
  /\ NoJob \in Jobs
BY DEF NoCode, NoSession, Sessions, NoJob, Jobs

LEMMA JobValues ==
  \A j \in Jobs :
    /\ j.acct \in Accounts \cup {NoOne} /\ j.browser \in Browsers \cup {NoOne}
    /\ j.sess \in Sessions /\ j.via \in {"none", "proven", "login"}
    /\ j.purpose \in Purposes \cup {"none"} /\ j.code \in Nat /\ j.guess \in Nat
BY DEF Jobs

LEMMA SessionValues ==
  \A s \in Sessions :
    /\ s.otp \in {NoCode} \cup [acct : Distributors, purpose : Purposes]
    /\ s.otp # NoCode => s.otp.acct \in Distributors /\ s.otp.purpose \in Purposes
    /\ s.reset \in Distributors \cup {NoOne} /\ s.user \in Accounts \cup {NoOne}
BY DEF Sessions

\* Only worker w has moved.
OnlyMoves(w) ==
  /\ pc' \in [Workers -> Steps] /\ job' \in [Workers -> Jobs]
  /\ \A v \in Workers \ {w} : pc'[v] = pc[v] /\ job'[v] = job[v]

LEMMA BeginMoves ==
  ASSUME SignInInv, NEW w \in Workers, NEW at \in Steps, NEW what \in Jobs, Begin(w, at, what)
  PROVE  /\ OnlyMoves(w) /\ pc[w] = "idle" /\ pc'[w] = at /\ job'[w] = what
         /\ served' = served + 1 /\ served' \in 0 .. MaxRequests
BY SignInAssumption DEF SignInInv, WorkTypeOK, SignInTypeOK, Begin, OnlyMoves

LEMMA ContinueMoves ==
  ASSUME SignInInv, NEW w \in Workers, NEW at \in Steps, Continue(w, at)
  PROVE  /\ OnlyMoves(w) /\ pc'[w] = at /\ job'[w] = job[w]
         /\ served' = served /\ served' \in 0 .. MaxRequests
BY DEF SignInInv, WorkTypeOK, SignInTypeOK, Continue, OnlyMoves

LEMMA DoneMoves ==
  ASSUME SignInInv, NEW w \in Workers, Done(w)
  PROVE  /\ OnlyMoves(w) /\ pc'[w] = "idle" /\ job'[w] = NoJob
         /\ served' = served /\ served' \in 0 .. MaxRequests
BY EmptyValues DEF SignInInv, WorkTypeOK, SignInTypeOK, Done, OnlyMoves, Steps

LEMMA ServeMoves ==
  ASSUME SignInInv, NEW w \in Workers, Serve(w)
  PROVE  /\ OnlyMoves(w) /\ pc[w] = "idle" /\ pc'[w] = "idle" /\ job'[w] = job[w]
         /\ served' = served + 1 /\ served' \in 0 .. MaxRequests
BY SignInAssumption DEF SignInInv, WorkTypeOK, SignInTypeOK, Serve, OnlyMoves

\* A worker that is idle has nothing in hand, and one that begins has what it takes
\* from the browser or the queue.
LEMMA IdleIsFine ==
  ASSUME NEW w \in Workers, pc'[w] = "idle" PROVE HasItsJob(w)'
BY DEF HasItsJob, AboutDistributor, AboutAdmin, UsesCode, Sending

\* No failure too many.
LEMMA FaultStays ==
  ASSUME SignInInv, Fault \/ UNCHANGED faults PROVE faults' \in 0 .. MaxFaults /\ faults <= faults'
BY SignInAssumption DEF SignInInv, SignInTypeOK, Fault

-----------------------------------------------------------------------------
(* SignInInv in three parts, which the steps disturb one at a time.         *)

Alerting(a) == {w \in Workers : pc[w] = "alert" /\ job[w].acct = a}

PasswordsAreCounted ==
  /\ lock \in [Accounts -> {"none", "held", "passed"}]
  /\ attempts \in [Accounts -> 0 .. MaxRequests]
  /\ wrong \in [Accounts -> 0 .. MaxRequests]
  /\ \A a \in Accounts :
       /\ wrong[a] = attempts[a]
       /\ attempts[a] + Cardinality(Refused) <= served
       /\ lock[a] = "none" => attempts[a] < MaxFailed
       /\ wrong[a] >= MaxFailed => lock[a] # "none"

LocksAreCounted ==
  /\ lockings \in [Admins -> 0 .. MaxRequests]
  /\ alerts \in [Admins -> 0 .. MaxRequests]
  /\ unsent \in [Admins -> 0 .. MaxRequests]
  /\ \A a \in Admins :
       /\ lockings[a] + Cardinality(Refused) <= served
       /\ lockings[a] = alerts[a] + unsent[a] + Cardinality(Alerting(a))

AccountsAreSound == PasswordsAreCounted /\ LocksAreCounted

CodesAreSound ==
  /\ codes \in Seq(CodeRows)
  /\ \A w \in Workers : HasItsJob(w)
  /\ CodesAreSent
  /\ \A c \in DOMAIN codes : codes[c].compared <= MaxGuesses
  /\ proven \in [Distributors -> BOOLEAN]
  /\ PhoneProvenByText

RequestsAreSound ==
  /\ WorkTypeOK
  /\ session \in [Browsers -> Sessions]
  /\ queued \in [Distributors -> 0 .. MaxRequests]
  /\ \A d \in Distributors : queued[d] <= served
  /\ served \in 0 .. MaxRequests /\ faults \in 0 .. MaxFaults

LEMMA ThreeParts ==
  SignInInv <=> AccountsAreSound /\ CodesAreSound /\ RequestsAreSound
BY DEF SignInInv, SignInTypeOK, CountsAreServed, LimitsHold, AccountsAreSound,
       PasswordsAreCounted, LocksAreCounted,
       CodesAreSound, RequestsAreSound, Alerting

LEMMA ThreePartsNext ==
  SignInInv' <=> AccountsAreSound' /\ CodesAreSound' /\ RequestsAreSound'
BY ThreeParts, PTL

-----------------------------------------------------------------------------
(* The counters.                                                            *)

\* How one worker's move changes the two sets that are counted.
LEMMA WorkersMove ==
  ASSUME SignInInv, NEW w \in Workers, OnlyMoves(w)
  PROVE  /\ (w \in Refused <=> pc[w] \in {"fail", "turned_away"})
         /\ (w \in Refused' <=> pc'[w] \in {"fail", "turned_away"})
         /\ (w \in Refused <=> w \in Refused') => Cardinality(Refused') = Cardinality(Refused)
         /\ w \notin Refused /\ w \in Refused' => Cardinality(Refused') = Cardinality(Refused) + 1
         /\ w \in Refused /\ w \notin Refused' => Cardinality(Refused') = Cardinality(Refused) - 1
         /\ Cardinality(Refused) \in Nat /\ Cardinality(Refused') \in Nat
         /\ \A a \in Admins :
              /\ Cardinality(Alerting(a)) \in Nat
              /\ (w \in Alerting(a) <=> w \in Alerting(a)')
                   => Cardinality(Alerting(a)') = Cardinality(Alerting(a))
              /\ w \notin Alerting(a) /\ w \in Alerting(a)'
                   => Cardinality(Alerting(a)') = Cardinality(Alerting(a)) + 1
              /\ w \in Alerting(a) /\ w \notin Alerting(a)'
                   => Cardinality(Alerting(a)') = Cardinality(Alerting(a)) - 1
<1>1. /\ Refused \subseteq Workers /\ Refused' \subseteq Workers
      /\ \A v \in Workers \ {w} : v \in Refused <=> v \in Refused'
      /\ (w \in Refused <=> pc[w] \in {"fail", "turned_away"})
      /\ (w \in Refused' <=> pc'[w] \in {"fail", "turned_away"})
  BY DEF Refused, OnlyMoves
<1>2. ASSUME NEW a \in Admins
      PROVE  /\ Alerting(a) \subseteq Workers /\ Alerting(a)' \subseteq Workers
             /\ \A v \in Workers \ {w} : v \in Alerting(a) <=> v \in Alerting(a)'
  BY DEF Alerting, OnlyMoves
<1>3. /\ (w \in Refused <=> w \in Refused') => Cardinality(Refused') = Cardinality(Refused)
      /\ w \notin Refused /\ w \in Refused' => Cardinality(Refused') = Cardinality(Refused) + 1
      /\ w \in Refused /\ w \notin Refused' => Cardinality(Refused') = Cardinality(Refused) - 1
      /\ Cardinality(Refused) \in Nat /\ Cardinality(Refused') \in Nat
  BY <1>1, OneCounts, WorkersCount
<1>4. ASSUME NEW a \in Admins
      PROVE  /\ Cardinality(Alerting(a)) \in Nat
             /\ (w \in Alerting(a) <=> w \in Alerting(a)')
                   => Cardinality(Alerting(a)') = Cardinality(Alerting(a))
             /\ w \notin Alerting(a) /\ w \in Alerting(a)'
                   => Cardinality(Alerting(a)') = Cardinality(Alerting(a)) + 1
             /\ w \in Alerting(a) /\ w \notin Alerting(a)'
                   => Cardinality(Alerting(a)') = Cardinality(Alerting(a)) - 1
  BY <1>2, OneCounts, WorkersCount
<1> QED
  BY <1>1, <1>3, <1>4

\* A step that leaves the accounts alone, and counts no more than it was served.
LEMMA AccountsRest ==
  ASSUME SignInInv, NEW w \in Workers, OnlyMoves(w),
         UNCHANGED <<lock, attempts, wrong, lockings, alerts, unsent>>,
         served' = served \/ served' = served + 1,
         w \in Refused' => w \in Refused \/ served' = served + 1,
         pc[w] # "alert" /\ pc'[w] # "alert"
  PROVE  AccountsAreSound'
<1>1. AccountsAreSound /\ served \in Nat
  BY ThreeParts, SignInAssumption DEF RequestsAreSound
<1>2. \A a \in Accounts : attempts[a] \in Nat
  BY <1>1, SignInAssumption DEF AccountsAreSound, PasswordsAreCounted, LocksAreCounted
<1>3. \A a \in Admins : lockings[a] \in Nat
  BY <1>1, SignInAssumption DEF AccountsAreSound, PasswordsAreCounted, LocksAreCounted
<1>4. /\ Cardinality(Refused) \in Nat /\ Cardinality(Refused') \in Nat
      /\ Cardinality(Refused') + served <= Cardinality(Refused) + served'
  <2>1. CASE w \in Refused <=> w \in Refused'
    BY <1>1, <2>1, WorkersMove
  <2>2. CASE w \notin Refused /\ w \in Refused'
    BY <1>1, <2>2, WorkersMove
  <2>3. CASE w \in Refused /\ w \notin Refused'
    BY <1>1, <2>3, WorkersMove
  <2> QED
    BY <2>1, <2>2, <2>3
<1>5. \A a \in Admins : Cardinality(Alerting(a)') = Cardinality(Alerting(a))
  <2>1. \A a \in Admins : w \notin Alerting(a) /\ w \notin Alerting(a)'
    BY DEF Alerting
  <2> QED
    BY <2>1, WorkersMove
<1>6. \A a \in Accounts : attempts[a] + Cardinality(Refused') <= served'
  BY <1>1, <1>2, <1>4 DEF AccountsAreSound, PasswordsAreCounted, LocksAreCounted
<1>7. \A a \in Admins : lockings[a] + Cardinality(Refused') <= served'
  BY <1>1, <1>3, <1>4 DEF AccountsAreSound, PasswordsAreCounted, LocksAreCounted
<1> QED
  BY <1>1, <1>4, <1>5, <1>6, <1>7 DEF AccountsAreSound, PasswordsAreCounted, LocksAreCounted

\* What the steps that do count start from.
LEMMA AccountsBefore ==
  ASSUME SignInInv, NEW w \in Workers
  PROVE  /\ AccountsAreSound /\ served \in Nat /\ served <= MaxRequests
         /\ \A a \in Accounts : attempts[a] \in Nat /\ wrong[a] = attempts[a]
         /\ \A a \in Admins : lockings[a] \in Nat /\ alerts[a] \in Nat /\ unsent[a] \in Nat /\ a \in Accounts
         /\ \A d \in Distributors : d \in Accounts /\ d \notin Admins
         /\ pc[w] \in AboutDistributor => job[w].acct \in Distributors
         /\ pc[w] \in AboutAdmin => job[w].acct \in Admins
<1>1. AccountsAreSound /\ CodesAreSound /\ RequestsAreSound
  BY ThreeParts
<1>2. served \in Nat /\ served <= MaxRequests
  BY <1>1, SignInAssumption DEF RequestsAreSound
<1>3. /\ \A a \in Accounts : attempts[a] \in Nat /\ wrong[a] = attempts[a]
      /\ \A a \in Admins : lockings[a] \in Nat /\ alerts[a] \in Nat /\ unsent[a] \in Nat
  BY <1>1, SignInAssumption DEF AccountsAreSound, PasswordsAreCounted, LocksAreCounted
<1>4. /\ \A a \in Admins : a \in Accounts
      /\ \A d \in Distributors : d \in Accounts /\ d \notin Admins
  BY SignInAssumption DEF Accounts
<1>5. /\ pc[w] \in AboutDistributor => job[w].acct \in Distributors
      /\ pc[w] \in AboutAdmin => job[w].acct \in Admins
  BY <1>1 DEF CodesAreSound, HasItsJob
<1> QED
  BY <1>1, <1>2, <1>3, <1>4, <1>5

\* One account's record is written, by a request that has counted itself.
LEMMA AccountMoves ==
  ASSUME SignInInv, NEW w \in Workers, OnlyMoves(w), served' = served,
         pc'[w] \notin {"fail", "turned_away"},
         NEW d \in Accounts, NEW k \in Nat, NEW l \in {"none", "held", "passed"},
         k + Cardinality(Refused') <= served,
         l = "none" => k < MaxFailed,
         attempts' = [attempts EXCEPT ![d] = k],
         wrong' = [wrong EXCEPT ![d] = k],
         lock' = [lock EXCEPT ![d] = l]
  PROVE  /\ PasswordsAreCounted'
         /\ Cardinality(Refused') \in Nat /\ Cardinality(Refused') <= Cardinality(Refused)
<1>1. /\ Cardinality(Refused') \in Nat /\ Cardinality(Refused) \in Nat
      /\ Cardinality(Refused') <= Cardinality(Refused)
  <2>1. w \notin Refused'
    BY DEF Refused
  <2>2. CASE w \in Refused
    BY <2>1, <2>2, WorkersMove
  <2>3. CASE w \notin Refused
    BY <2>1, <2>3, WorkersMove
  <2> QED
    BY <2>2, <2>3
<1>2. /\ AccountsAreSound /\ served \in Nat /\ served <= MaxRequests
      /\ \A a \in Accounts : attempts[a] \in Nat /\ wrong[a] = attempts[a]
  BY AccountsBefore
<1>3. k \in 0 .. MaxRequests
  BY <1>1, <1>2, SignInAssumption
<1>4. /\ lock' \in [Accounts -> {"none", "held", "passed"}]
      /\ attempts' \in [Accounts -> 0 .. MaxRequests]
      /\ wrong' \in [Accounts -> 0 .. MaxRequests]
  BY <1>2, <1>3 DEF AccountsAreSound, PasswordsAreCounted, LocksAreCounted
<1>5. ASSUME NEW a \in Accounts, a # d
      PROVE  /\ wrong'[a] = attempts'[a]
             /\ attempts'[a] + Cardinality(Refused') <= served
             /\ lock'[a] = "none" => attempts'[a] < MaxFailed
  BY <1>1, <1>2, <1>5 DEF AccountsAreSound, PasswordsAreCounted, LocksAreCounted
<1>6. /\ wrong'[d] = attempts'[d]
      /\ attempts'[d] + Cardinality(Refused') <= served
      /\ lock'[d] = "none" => attempts'[d] < MaxFailed
  BY <1>2 DEF AccountsAreSound, PasswordsAreCounted, LocksAreCounted
<1>7. \A a \in Accounts : wrong'[a] \in Nat
  BY <1>4, SignInAssumption
<1> QED
  BY <1>1, <1>4, <1>5, <1>6, <1>7, SignInAssumption DEF PasswordsAreCounted

\* Who alerts nobody, before and after, does not change how many alert.
LEMMA NobodyAlerts ==
  ASSUME SignInInv, NEW w \in Workers, OnlyMoves(w),
         NEW a \in Admins, w \notin Alerting(a), w \notin Alerting(a)'
  PROVE  Cardinality(Alerting(a)') = Cardinality(Alerting(a))
BY WorkersMove

\* The counts of the admins' locks, when no lock is counted.
LEMMA LocksRest ==
  ASSUME SignInInv, UNCHANGED <<lockings, alerts, unsent>>, served' = served,
         Cardinality(Refused) \in Nat, Cardinality(Refused') \in Nat,
         Cardinality(Refused') <= Cardinality(Refused),
         \A a \in Admins : Cardinality(Alerting(a)') = Cardinality(Alerting(a))
  PROVE  LocksAreCounted'
<1>1. LocksAreCounted /\ served \in Nat /\ \A a \in Admins : lockings[a] \in Nat
  BY ThreeParts, SignInAssumption DEF RequestsAreSound, AccountsAreSound, LocksAreCounted
<1> QED
  BY <1>1 DEF LocksAreCounted

\* The right password clears the slate.
LEMMA ClearedSlate ==
  ASSUME SignInInv, NEW w \in Workers, OnlyMoves(w), served' = served,
         pc[w] \in {"succeed", "welcome"}, pc'[w] \in {"idle", "create"},
         NEW d \in Accounts,
         attempts' = [attempts EXCEPT ![d] = 0],
         wrong' = [wrong EXCEPT ![d] = 0],
         lock' = [lock EXCEPT ![d] = "none"],
         UNCHANGED <<lockings, alerts, unsent>>
  PROVE  AccountsAreSound'
<1>1. /\ w \notin Refused /\ w \notin Refused'
      /\ \A a \in Admins : w \notin Alerting(a) /\ w \notin Alerting(a)'
  BY DEF Refused, Alerting
<1>2. /\ Cardinality(Refused) \in Nat /\ Cardinality(Refused') = Cardinality(Refused)
  BY <1>1, WorkersMove
<1>3. \A a \in Admins : Cardinality(Alerting(a)') = Cardinality(Alerting(a))
  BY <1>1, NobodyAlerts
<1>4. /\ PasswordsAreCounted /\ served \in Nat /\ attempts[d] \in Nat
  BY AccountsBefore DEF AccountsAreSound
<1>5. 0 + Cardinality(Refused') <= served
  BY <1>2, <1>4 DEF PasswordsAreCounted
<1>6. /\ pc'[w] \notin {"fail", "turned_away"} /\ "none" \in {"none", "held", "passed"}
      /\ "none" = "none" => 0 < MaxFailed
      /\ 0 \in Nat
  BY SignInAssumption
<1>7. PasswordsAreCounted'
  BY <1>5, <1>6, AccountMoves
<1> QED
  BY <1>2, <1>3, <1>7, LocksRest DEF AccountsAreSound

\* The request that is turned away counts its wrong password.
LEMMA FailureCounts ==
  ASSUME SignInInv, NEW w \in Workers, RecordFailure(w) PROVE AccountsAreSound'
<1> DEFINE d == job[w].acct
<1>1. /\ AccountsAreSound /\ served \in Nat
      /\ \A a \in Accounts : attempts[a] \in Nat /\ wrong[a] = attempts[a]
      /\ d \in Accounts /\ pc[w] = "fail"
  BY AccountsBefore DEF AboutDistributor, RecordFailure
<1>2. /\ OnlyMoves(w) /\ pc'[w] = "idle" /\ served' = served
  BY DoneMoves DEF RecordFailure
<1>3. /\ w \in Refused /\ w \notin Refused'
      /\ \A a \in Admins : w \notin Alerting(a) /\ w \notin Alerting(a)'
  BY <1>1, <1>2 DEF Refused, Alerting
<1>4. /\ Cardinality(Refused) \in Nat /\ Cardinality(Refused') \in Nat
      /\ Cardinality(Refused') = Cardinality(Refused) - 1
  BY <1>2, <1>3, WorkersMove
<1>5. \A a \in Admins : Cardinality(Alerting(a)') = Cardinality(Alerting(a))
  BY <1>2, <1>3, NobodyAlerts
<1>6. PICK k \in Nat : /\ k <= attempts[d] + 1
                       /\ k = Count(attempts[d], lock[d] = "passed")
                       /\ attempts' = [attempts EXCEPT ![d] = k]
                       /\ wrong' = [wrong EXCEPT ![d] = k]
  <2>1. /\ Count(attempts[d], lock[d] = "passed") \in Nat
        /\ Count(attempts[d], lock[d] = "passed") <= attempts[d] + 1
        /\ wrong[d] = attempts[d]
    BY <1>1 DEF Count
  <2> QED
    BY <1>1, <2>1 DEF RecordFailure
<1>7. attempts'[d] = k
  BY <1>1, <1>6 DEF AccountsAreSound, PasswordsAreCounted, LocksAreCounted
<1>8. PICK l \in {"none", "held", "passed"} :
        /\ lock' = [lock EXCEPT ![d] = l]
        /\ l = "none" => k < MaxFailed
  <2>1. CASE k >= MaxFailed
    BY <1>7, <2>1 DEF RecordFailure
  <2>2. CASE k < MaxFailed /\ lock[d] = "passed"
    BY <1>6, <1>7, <2>2, SignInAssumption DEF RecordFailure
  <2>3. CASE k < MaxFailed /\ lock[d] # "passed"
    BY <1>1, <1>6, <1>7, <2>3, SignInAssumption DEF RecordFailure, AccountsAreSound, PasswordsAreCounted
  <2> QED
    BY <1>6, <2>1, <2>2, <2>3, SignInAssumption
<1>9. k + Cardinality(Refused') <= served
  BY <1>1, <1>4, <1>6 DEF AccountsAreSound, PasswordsAreCounted, LocksAreCounted
<1>10. PasswordsAreCounted' /\ Cardinality(Refused') <= Cardinality(Refused)
  BY <1>1, <1>2, <1>6, <1>8, <1>9, AccountMoves
<1> QED
  BY <1>1, <1>2, <1>4, <1>5, <1>10, LocksRest DEF AccountsAreSound, RecordFailure

\* So does the admin's; the one that locks the account counts that too.
LEMMA AdminFailureCounts ==
  ASSUME SignInInv, NEW w \in Workers, RecordAdminFailure(w) PROVE AccountsAreSound'
<1> PICK d \in Admins : d = job[w].acct
  BY AccountsBefore DEF AboutAdmin, RecordAdminFailure
<1> PICK k : k = Count(attempts[d], lock[d] = "passed")
  OBVIOUS
<1>1. /\ PasswordsAreCounted /\ LocksAreCounted /\ served \in Nat
      /\ \A a \in Accounts : attempts[a] \in Nat /\ wrong[a] = attempts[a]
      /\ \A a \in Admins : lockings[a] \in Nat /\ alerts[a] \in Nat /\ unsent[a] \in Nat
      /\ d \in Admins /\ d \in Accounts /\ pc[w] = "turned_away"
  BY AccountsBefore DEF AboutAdmin, RecordAdminFailure, AccountsAreSound
<1>2. w \in Refused /\ \A a \in Admins : w \notin Alerting(a)
  BY <1>1 DEF Refused, Alerting
<1>3. CASE lock[d] = "held"
  <2>1. OnlyMoves(w) /\ pc'[w] = "idle" /\ served' = served /\ UNCHANGED accountVars
    BY <1>3, DoneMoves DEF RecordAdminFailure
  <2>2. UNCHANGED <<lock, attempts, wrong, lockings, alerts, unsent>>
    BY <2>1 DEF accountVars
  <2> QED
    BY <1>1, <1>2, <2>1, <2>2, AccountsRest
<1>4. CASE lock[d] # "held"
  <2> DEFINE locks == k >= MaxFailed
  <2>1. /\ k \in Nat /\ k <= attempts[d] + 1 /\ wrong[d] = attempts[d]
    BY <1>1 DEF Count
  <2>2. /\ attempts' = [attempts EXCEPT ![d] = k]
        /\ wrong' = [wrong EXCEPT ![d] = k]
        /\ attempts'[d] = k
        /\ UNCHANGED <<alerts, unsent>>
    BY <1>1, <1>4, <2>1 DEF RecordAdminFailure, PasswordsAreCounted
  <2>3. /\ OnlyMoves(w) /\ served' = served
        /\ pc'[w] = IF locks THEN "alert" ELSE "idle"
        /\ locks => job'[w] = job[w]
    BY <1>4, <2>2, DoneMoves, ContinueMoves DEF RecordAdminFailure, Steps
  <2>4. /\ lock' = [lock EXCEPT ![d] = IF locks THEN "held" ELSE "none"]
        /\ locks => lockings' = [lockings EXCEPT ![d] = lockings[d] + 1]
        /\ ~locks => lockings' = lockings
    BY <1>4, <2>2 DEF RecordAdminFailure
  <2>5. w \notin Refused' /\ pc'[w] \notin {"fail", "turned_away"}
    BY <2>3 DEF Refused
  <2>6. /\ Cardinality(Refused) \in Nat /\ Cardinality(Refused') \in Nat
        /\ Cardinality(Refused') = Cardinality(Refused) - 1
    BY <1>2, <2>3, <2>5, WorkersMove
  <2>7. k + Cardinality(Refused') <= served
    BY <1>1, <2>1, <2>6 DEF PasswordsAreCounted
  <2>8. PasswordsAreCounted'
    <3>1. CASE locks
      <4>1. "held" = "none" => k < MaxFailed
        OBVIOUS
      <4> QED
        BY <1>1, <2>1, <2>2, <2>3, <2>4, <2>5, <2>7, <3>1, <4>1, AccountMoves
    <3>2. CASE ~locks
      <4>1. "none" = "none" => k < MaxFailed
        BY <2>1, <3>2, SignInAssumption
      <4> QED
        BY <1>1, <2>1, <2>2, <2>3, <2>4, <2>5, <2>7, <3>2, <4>1, AccountMoves
    <3> QED
      BY <3>1, <3>2
  <2>9. CASE ~locks
    <3>1. \A a \in Admins : w \notin Alerting(a)'
      BY <2>3, <2>9 DEF Alerting
    <3>2. \A a \in Admins : Cardinality(Alerting(a)') = Cardinality(Alerting(a))
      BY <1>2, <2>3, <3>1, NobodyAlerts
    <3> QED
      BY <2>2, <2>3, <2>4, <2>6, <2>8, <2>9, <3>2, LocksRest DEF AccountsAreSound
  <2>10. CASE locks
    <3>1. \A a \in Admins : w \in Alerting(a)' <=> a = d
      BY <2>3, <2>10 DEF Alerting
    <3>2. /\ Cardinality(Alerting(d)) \in Nat
          /\ Cardinality(Alerting(d)') = Cardinality(Alerting(d)) + 1
      BY <1>1, <1>2, <2>3, <3>1, WorkersMove
    <3>3. \A a \in Admins : a # d => Cardinality(Alerting(a)') = Cardinality(Alerting(a))
      BY <1>2, <2>3, <3>1, NobodyAlerts
    <3>4. /\ lockings[d] + Cardinality(Refused) <= served
          /\ lockings[d] = alerts[d] + unsent[d] + Cardinality(Alerting(d))
          /\ served \in 0 .. MaxRequests
      BY <1>1, ThreeParts DEF LocksAreCounted, RequestsAreSound
    <3>5. /\ lockings[d] + 1 \in 0 .. MaxRequests
          /\ lockings[d] + 1 + Cardinality(Refused') <= served
          /\ lockings[d] + 1 = alerts[d] + unsent[d] + Cardinality(Alerting(d)')
      BY <1>1, <2>6, <3>2, <3>4, SignInAssumption
    <3>6. /\ lockings' \in [Admins -> 0 .. MaxRequests]
          /\ alerts' \in [Admins -> 0 .. MaxRequests]
          /\ unsent' \in [Admins -> 0 .. MaxRequests]
          /\ lockings'[d] = lockings[d] + 1
          /\ \A a \in Admins : a # d => lockings'[a] = lockings[a]
          /\ alerts' = alerts /\ unsent' = unsent
      BY <1>1, <2>2, <2>4, <2>10, <3>5 DEF LocksAreCounted
    <3>7. ASSUME NEW a \in Admins, a # d
          PROVE  /\ lockings'[a] + Cardinality(Refused') <= served'
                 /\ lockings'[a] = alerts'[a] + unsent'[a] + Cardinality(Alerting(a)')
      BY <1>1, <2>3, <2>6, <3>3, <3>6, <3>7 DEF LocksAreCounted
    <3>8. /\ lockings'[d] + Cardinality(Refused') <= served'
          /\ lockings'[d] = alerts'[d] + unsent'[d] + Cardinality(Alerting(d)')
      BY <2>3, <3>5, <3>6
    <3>9. LocksAreCounted'
      BY <3>6, <3>7, <3>8 DEF LocksAreCounted
    <3> QED
      BY <2>8, <3>9 DEF AccountsAreSound
  <2> QED
    BY <2>9, <2>10
<1> QED
  BY <1>3, <1>4

\* One email for one lock, or none.
LEMMA AlertCounts ==
  ASSUME SignInInv, NEW w \in Workers, SendLockoutAlert(w) \/ LockoutAlertFails(w)
  PROVE  AccountsAreSound'
<1> PICK d \in Admins : d = job[w].acct
  BY AccountsBefore DEF AboutAdmin, SendLockoutAlert, LockoutAlertFails
<1>1. /\ PasswordsAreCounted /\ LocksAreCounted /\ served \in Nat
      /\ \A a \in Admins : lockings[a] \in Nat /\ alerts[a] \in Nat /\ unsent[a] \in Nat
      /\ d \in Admins /\ pc[w] = "alert"
  BY AccountsBefore DEF AboutAdmin, SendLockoutAlert, LockoutAlertFails, AccountsAreSound
<1>2. /\ OnlyMoves(w) /\ pc'[w] = "idle" /\ served' = served
  BY DoneMoves DEF SendLockoutAlert, LockoutAlertFails
<1>3. /\ UNCHANGED <<lock, attempts, wrong, lockings>>
      /\ \/ alerts' = [alerts EXCEPT ![d] = alerts[d] + 1] /\ unsent' = unsent
         \/ unsent' = [unsent EXCEPT ![d] = unsent[d] + 1] /\ alerts' = alerts
  BY DEF SendLockoutAlert, LockoutAlertFails
<1>4. /\ w \notin Refused /\ w \notin Refused'
      /\ \A a \in Admins : (w \in Alerting(a) <=> a = d) /\ w \notin Alerting(a)'
  BY <1>1, <1>2 DEF Refused, Alerting
<1>5. /\ Cardinality(Refused') = Cardinality(Refused)
  BY <1>2, <1>4, WorkersMove
<1>6. /\ Cardinality(Alerting(d)) \in Nat /\ Cardinality(Alerting(d)') \in Nat
      /\ Cardinality(Alerting(d)') = Cardinality(Alerting(d)) - 1
      /\ Cardinality(Refused) \in Nat
  <2>1. IsFiniteSet(Alerting(d)) /\ Cardinality(Alerting(d)') \in Nat
    <3>1. Alerting(d) \subseteq Workers /\ Alerting(d)' \subseteq Workers
      BY DEF Alerting
    <3> QED
      BY <3>1, WorkersCount
  <2> QED
    BY <1>1, <1>2, <1>4, <2>1, WorkersMove
<1>7. \A a \in Admins : a # d => Cardinality(Alerting(a)') = Cardinality(Alerting(a))
  BY <1>2, <1>4, NobodyAlerts
<1>8. PasswordsAreCounted'
  BY <1>1, <1>2, <1>3, <1>5 DEF PasswordsAreCounted
<1>9. /\ lockings[d] = alerts[d] + unsent[d] + Cardinality(Alerting(d))
      /\ lockings[d] + Cardinality(Refused) <= served
      /\ lockings[d] \in 0 .. MaxRequests
  BY <1>1 DEF LocksAreCounted
<1>10. /\ alerts[d] + 1 \in 0 .. MaxRequests /\ unsent[d] + 1 \in 0 .. MaxRequests
       /\ lockings[d] = alerts[d] + unsent[d] + 1 + Cardinality(Alerting(d)')
  BY <1>1, <1>6, <1>9, SignInAssumption
<1>11. /\ alerts' \in [Admins -> 0 .. MaxRequests] /\ unsent' \in [Admins -> 0 .. MaxRequests]
       /\ alerts'[d] + unsent'[d] = alerts[d] + unsent[d] + 1
       /\ \A a \in Admins : a # d => alerts'[a] = alerts[a] /\ unsent'[a] = unsent[a]
  <2>1. alerts \in [Admins -> 0 .. MaxRequests] /\ unsent \in [Admins -> 0 .. MaxRequests]
    BY <1>1 DEF LocksAreCounted
  <2> QED
    BY <1>1, <1>3, <1>10, <2>1
<1>12. ASSUME NEW a \in Admins
       PROVE  lockings[a] = alerts'[a] + unsent'[a] + Cardinality(Alerting(a)')
  <2>1. CASE a = d
    <3>1. alerts'[d] \in Nat /\ unsent'[d] \in Nat
      BY <1>1, <1>11, SignInAssumption
    <3> QED
      BY <1>1, <1>6, <1>10, <1>11, <2>1, <3>1
  <2>2. CASE a # d
    BY <1>1, <1>7, <1>11, <2>2 DEF LocksAreCounted
  <2> QED
    BY <2>1, <2>2
<1>13. LocksAreCounted'
  BY <1>1, <1>2, <1>3, <1>5, <1>11, <1>12 DEF LocksAreCounted
<1> QED
  BY <1>8, <1>13 DEF AccountsAreSound

\* A lock that runs out keeps its count until the next password.
LEMMA PassedLockCounts ==
  ASSUME SignInInv, NEW a \in Accounts, LockPasses(a) PROVE AccountsAreSound'
<1>1. PasswordsAreCounted /\ LocksAreCounted
  BY ThreeParts DEF AccountsAreSound
<1>2. /\ UNCHANGED <<attempts, wrong, lockings, alerts, unsent, pc, job, served>>
      /\ lock' = [lock EXCEPT ![a] = "passed"]
  BY DEF LockPasses
<1>3. /\ Refused' = Refused /\ \A b \in Admins : Alerting(b)' = Alerting(b)
  BY <1>2 DEF Refused, Alerting
<1>4. PasswordsAreCounted'
  BY <1>1, <1>2, <1>3 DEF PasswordsAreCounted
<1>5. LocksAreCounted'
  BY <1>1, <1>2, <1>3 DEF LocksAreCounted
<1> QED
  BY <1>4, <1>5 DEF AccountsAreSound

-----------------------------------------------------------------------------
(* The codes.                                                               *)

\* What a row keeps, whatever happens to it.
SameCode(row, other) ==
  /\ other.acct = row.acct /\ other.purpose = row.purpose
  /\ row.verified => other.verified
  /\ row.via # "none" => other.via = row.via

LEMMA CodeValues ==
  ASSUME SignInInv, NEW c \in DOMAIN codes
  PROVE  /\ codes[c] \in CodeRows /\ c \in Nat
         /\ codes[c].acct \in Distributors /\ codes[c].purpose \in Purposes
         /\ codes[c].via \in {"none", "sms", "email", "stuck"}
         /\ codes[c].tries \in 0 .. MaxGuesses /\ codes[c].compared \in Nat
         /\ codes[c].verified \in BOOLEAN /\ codes[c].expired \in BOOLEAN /\ codes[c].gone \in BOOLEAN
         /\ codes[c].compared = codes[c].tries
<1>1. codes \in Seq(CodeRows) /\ codes[c].compared = codes[c].tries
  BY ThreeParts DEF CodesAreSound, CodesAreSent
<1>2. codes[c] \in CodeRows /\ c \in Nat
  BY <1>1
<1> QED
  BY <1>1, <1>2 DEF CodeRows

\* A request that keeps its step keeps its code, if the row is still that code.
LEMMA JobStays ==
  ASSUME NEW w \in Workers, HasItsJob(w), pc'[w] = pc[w], job'[w] = job[w],
         pc[w] \in UsesCode =>
           /\ job[w].code \in DOMAIN codes' /\ SameCode(codes[job[w].code], codes'[job[w].code])
           /\ pc[w] \in Sending => /\ codes'[job[w].code].via = codes[job[w].code].via
                                  /\ codes'[job[w].code].gone = codes[job[w].code].gone
  PROVE  HasItsJob(w)'
BY DEF HasItsJob, HasItsCode, SameCode, UsesCode, Sending

\* A step that leaves the codes alone, and hands none over.
LEMMA CodesRest ==
  ASSUME SignInInv, NEW w \in Workers, OnlyMoves(w), UNCHANGED <<codes, proven>>,
         HasItsJob(w)', pc[w] \in Sending <=> pc'[w] \in Sending,
         pc[w] \in Sending => job'[w].code = job[w].code
  PROVE  CodesAreSound'
<1>1. CodesAreSound
  BY ThreeParts
<1>2. ASSUME NEW v \in Workers, v # w
      PROVE  HasItsJob(v)'
  <2>1. HasItsJob(v) /\ pc'[v] = pc[v] /\ job'[v] = job[v]
    BY <1>1, <1>2 DEF CodesAreSound, OnlyMoves
  <2>2. pc[v] \in UsesCode => job[v].code \in DOMAIN codes
    BY <2>1 DEF HasItsJob, HasItsCode
  <2> QED
    BY <2>1, <2>2, JobStays DEF SameCode
<1>3. \A v \in Workers : HasItsJob(v)'
  BY <1>2
<1>4. \A v \in Workers : (pc'[v] \in Sending <=> pc[v] \in Sending)
                         /\ (pc[v] \in Sending => job'[v].code = job[v].code)
  BY DEF OnlyMoves
<1>5. CodesAreSent'
  BY <1>1, <1>4 DEF CodesAreSound, CodesAreSent
<1>6. PhoneProvenByText'
  BY <1>1 DEF CodesAreSound, PhoneProvenByText
<1> QED
  BY <1>1, <1>3, <1>5, <1>6 DEF CodesAreSound

\* A step that changes one row: it ends the sending of it, or leaves that be.
LEMMA CodeMoves ==
  ASSUME SignInInv, NEW W \in SUBSET Workers,
         \A v \in Workers \ W : pc'[v] = pc[v] /\ job'[v] = job[v],
         \A w \in W : HasItsJob(w)' /\ pc'[w] \notin Sending,
         NEW c \in DOMAIN codes, NEW row \in CodeRows,
         codes' = [codes EXCEPT ![c] = row], UNCHANGED proven,
         SameCode(codes[c], row), row.compared = row.tries,
         row.via = "email" => row.purpose \in EmailFallback,
         \/ /\ row.via = codes[c].via /\ row.gone = codes[c].gone
            /\ \A w \in W : pc[w] \notin Sending
         \/ /\ row.via # "none" \/ row.gone
            /\ \A w \in W : pc[w] \in Sending /\ job[w].code = c
            /\ W # {}
  PROVE  CodesAreSound'
<1>1. CodesAreSound /\ codes \in Seq(CodeRows)
  BY ThreeParts DEF CodesAreSound
<1>2. /\ codes' \in Seq(CodeRows) /\ DOMAIN codes' = DOMAIN codes
      /\ codes'[c] = row /\ \A e \in DOMAIN codes : e # c => codes'[e] = codes[e]
  BY <1>1, ExceptSeq
<1>3. \A e \in DOMAIN codes : SameCode(codes[e], codes'[e])
  BY <1>2 DEF SameCode
<1>4. ASSUME NEW v \in Workers \ W, pc[v] \in Sending
      PROVE  /\ job[v].code \in DOMAIN codes
             /\ codes'[job[v].code].via = codes[job[v].code].via
             /\ codes'[job[v].code].gone = codes[job[v].code].gone
  <2>1. job[v].code \in DOMAIN codes
    BY <1>1, <1>4 DEF CodesAreSound, HasItsJob, HasItsCode, UsesCode
  <2>2. CASE job[v].code # c
    BY <1>2, <2>1, <2>2
  <2>3. CASE job[v].code = c
    <3>1. \A w \in W : pc[w] \notin Sending
      BY <1>1, <1>4, <2>3 DEF CodesAreSound, CodesAreSent
    <3> QED
      BY <1>2, <2>3, <3>1
  <2> QED
    BY <2>1, <2>2, <2>3
<1>5. ASSUME NEW v \in Workers \ W
      PROVE  HasItsJob(v)'
  <2>1. HasItsJob(v) /\ pc'[v] = pc[v] /\ job'[v] = job[v]
    BY <1>1 DEF CodesAreSound
  <2>2. pc[v] \in UsesCode => job[v].code \in DOMAIN codes'
    BY <1>2, <2>1 DEF HasItsJob, HasItsCode
  <2> QED
    BY <1>2, <1>3, <1>4, <2>1, <2>2, JobStays
<1>6. \A v \in Workers : HasItsJob(v)'
  BY <1>5
<1>7. CodesAreSent'
  <2>1. \A v \in Workers : pc'[v] \in Sending =>
          pc[v] \in Sending /\ job'[v].code = job[v].code /\ v \notin W
    OBVIOUS
  <2>2. \A v, u \in Workers : pc'[v] \in Sending /\ pc'[u] \in Sending /\ v # u =>
          job'[v].code # job'[u].code
    BY <1>1, <2>1 DEF CodesAreSound, CodesAreSent
  <2>3. ASSUME NEW e \in DOMAIN codes', codes'[e].via = "none" /\ ~codes'[e].gone
        PROVE  \E w \in Workers : pc'[w] \in Sending /\ job'[w].code = e
    <3>1. e \in DOMAIN codes /\ codes[e].via = "none" /\ ~codes[e].gone
      BY <1>2, <2>3, CodeValues DEF SameCode
    <3>2. PICK v \in Workers : pc[v] \in Sending /\ job[v].code = e
      BY <1>1, <3>1 DEF CodesAreSound, CodesAreSent
    <3>3. v \notin W
      BY <1>2, <2>3, <3>1, <3>2
    <3> QED
      BY <3>2, <3>3
  <2>4. ASSUME NEW e \in DOMAIN codes'
        PROVE  /\ codes'[e].via = "email" => codes'[e].purpose \in EmailFallback
               /\ codes'[e].compared = codes'[e].tries
    BY <1>1, <1>2 DEF CodesAreSound, CodesAreSent
  <2> QED
    BY <2>2, <2>3, <2>4 DEF CodesAreSent
<1>8. \A e \in DOMAIN codes' : codes'[e].compared <= MaxGuesses
  BY <1>1, <1>2, SignInAssumption DEF CodesAreSound, CodeRows
<1>9. PhoneProvenByText'
  BY <1>1, <1>2, <1>3 DEF CodesAreSound, PhoneProvenByText, SameCode
<1> QED
  BY <1>1, <1>2, <1>6, <1>7, <1>8, <1>9 DEF CodesAreSound

\* A new row is at the end, and the request that made it sends it.
LEMMA CreateCodeSends ==
  ASSUME SignInInv, NEW w \in Workers, CreateCode(w)
  PROVE  OnlyMoves(w) /\ CodesAreSound'
<1> DEFINE row == [acct |-> job[w].acct, purpose |-> job[w].purpose, via |-> "none",
                   tries |-> 0, compared |-> 0,
                   verified |-> FALSE, expired |-> FALSE, gone |-> FALSE]
           n == Len(codes) + 1
<1>1. /\ CodesAreSound /\ WorkTypeOK /\ codes \in Seq(CodeRows) /\ pc[w] = "create"
  BY ThreeParts DEF CodesAreSound, RequestsAreSound, CreateCode
<1>2. job[w].acct \in Distributors /\ job[w].purpose \in Purposes /\ job[w] \in Jobs
  BY <1>1 DEF CodesAreSound, HasItsJob, AboutDistributor, UsesCode, WorkTypeOK
<1>3. /\ row \in CodeRows /\ row.acct = job[w].acct /\ row.purpose = job[w].purpose
      /\ row.via = "none" /\ ~row.gone /\ row.tries = 0 /\ row.compared = 0
  BY <1>2, SignInAssumption DEF CodeRows
<1> HIDE DEF row
<1>4. codes' = Append(codes, row)
  BY DEF CreateCode, row
<1>5. /\ codes' \in Seq(CodeRows) /\ n \in DOMAIN codes' /\ n \notin DOMAIN codes /\ n \in Nat
      /\ DOMAIN codes \subseteq DOMAIN codes' /\ DOMAIN codes' = DOMAIN codes \cup {n}
      /\ \A e \in DOMAIN codes : codes'[e] = codes[e]
      /\ codes'[n] = row
  BY <1>1, <1>3, <1>4
<1> PICK m \in Nat : m = n
  BY <1>5
<1>6. /\ pc' = [pc EXCEPT ![w] = "text"] /\ job' = [job EXCEPT ![w].code = m]
      /\ UNCHANGED proven
  BY DEF CreateCode
<1>7. /\ [job[w] EXCEPT !.code = m] \in Jobs
      /\ job'[w].acct = job[w].acct /\ job'[w].purpose = job[w].purpose
      /\ job'[w].code = m /\ pc'[w] = "text"
      /\ job' = [job EXCEPT ![w] = [job[w] EXCEPT !.code = m]]
  BY <1>1, <1>2, <1>6 DEF Jobs, WorkTypeOK
<1>8. OnlyMoves(w)
  BY <1>1, <1>6, <1>7 DEF OnlyMoves, WorkTypeOK, Steps
<1>9. HasItsJob(w)'
  BY <1>2, <1>3, <1>5, <1>7
     DEF HasItsJob, HasItsCode, AboutDistributor, AboutAdmin, UsesCode, Sending
<1>10. ASSUME NEW v \in Workers, v # w
       PROVE  /\ HasItsJob(v)' /\ pc'[v] = pc[v] /\ job'[v] = job[v]
              /\ pc[v] \in Sending => job[v].code \in DOMAIN codes
  <2>1. HasItsJob(v) /\ pc'[v] = pc[v] /\ job'[v] = job[v]
    BY <1>1, <1>8, <1>10 DEF CodesAreSound, OnlyMoves
  <2>2. pc[v] \in UsesCode => job[v].code \in DOMAIN codes
    BY <2>1 DEF HasItsJob, HasItsCode
  <2>3. HasItsJob(v)'
    BY <1>5, <2>1, <2>2, JobStays DEF SameCode
  <2> QED
    BY <2>1, <2>2, <2>3 DEF UsesCode
<1>11. CodesAreSent'
  <2>1. ASSUME NEW v \in Workers, NEW u \in Workers, v # u,
               pc'[v] \in Sending, pc'[u] \in Sending
        PROVE  job'[v].code # job'[u].code
    BY <1>1, <1>5, <1>7, <1>10, <2>1 DEF CodesAreSound, CodesAreSent
  <2>2. ASSUME NEW e \in DOMAIN codes', codes'[e].via = "none" /\ ~codes'[e].gone
        PROVE  \E v \in Workers : pc'[v] \in Sending /\ job'[v].code = e
    <3>1. CASE e = m
      BY <1>7, <3>1 DEF Sending
    <3>2. CASE e # m
      <4>1. e \in DOMAIN codes /\ codes[e].via = "none" /\ ~codes[e].gone
        BY <1>5, <2>2, <3>2
      <4>2. PICK v \in Workers : pc[v] \in Sending /\ job[v].code = e
        BY <1>1, <4>1 DEF CodesAreSound, CodesAreSent
      <4>3. v # w
        BY <1>1, <4>2 DEF Sending
      <4> QED
        BY <1>10, <4>2, <4>3
    <3> QED
      BY <3>1, <3>2
  <2>3. ASSUME NEW e \in DOMAIN codes'
        PROVE  /\ codes'[e].via = "email" => codes'[e].purpose \in EmailFallback
               /\ codes'[e].compared = codes'[e].tries
    BY <1>1, <1>3, <1>5 DEF CodesAreSound, CodesAreSent
  <2> QED
    BY <2>1, <2>2, <2>3 DEF CodesAreSent
<1>12. \A e \in DOMAIN codes' : codes'[e].compared <= MaxGuesses
  BY <1>1, <1>3, <1>5, SignInAssumption DEF CodesAreSound
<1>13. PhoneProvenByText'
  BY <1>1, <1>5, <1>6 DEF CodesAreSound, PhoneProvenByText
<1>14. \A v \in Workers : HasItsJob(v)'
  BY <1>9, <1>10
<1> QED
  BY <1>1, <1>5, <1>6, <1>8, <1>11, <1>12, <1>13, <1>14 DEF CodesAreSound

\* The request that sends a code is the only one that does.
LEMMA SendingValues ==
  ASSUME SignInInv, NEW w \in Workers, pc[w] \in Sending
  PROVE  /\ job[w].code \in DOMAIN codes /\ job[w] \in Jobs
         /\ job[w].acct \in Distributors /\ job[w].purpose \in Purposes
         /\ codes[job[w].code].via = "none" /\ ~codes[job[w].code].gone
         /\ codes[job[w].code].acct = job[w].acct
         /\ codes[job[w].code].purpose = job[w].purpose
         /\ pc[w] = "mail" => job[w].purpose \in EmailFallback
<1>1. HasItsJob(w) /\ job[w] \in Jobs
  BY ThreeParts DEF CodesAreSound, RequestsAreSound, WorkTypeOK
<1> QED
  BY <1>1 DEF HasItsJob, HasItsCode, UsesCode, Sending, AboutDistributor

\* A code that is out, or whose row is gone or stuck, is no longer being sent.
LEMMA SendingEnds ==
  ASSUME SignInInv, NEW w \in Workers, pc[w] \in Sending, Done(w), UNCHANGED proven,
         NEW row \in CodeRows, codes' = [codes EXCEPT ![job[w].code] = row],
         SameCode(codes[job[w].code], row), row.compared = row.tries,
         row.via = "email" => row.purpose \in EmailFallback,
         row.via # "none" \/ row.gone
  PROVE  CodesAreSound'
<1>1. OnlyMoves(w) /\ pc'[w] = "idle"
  BY DoneMoves
<1>2. HasItsJob(w)' /\ pc'[w] \notin Sending
  BY <1>1, IdleIsFine DEF Sending
<1>3. job[w].code \in DOMAIN codes
  BY SendingValues
<1> PICK c \in DOMAIN codes : c = job[w].code
  BY <1>3
<1>4. {w} \in SUBSET Workers /\ {w} # {}
  OBVIOUS
<1>5. \A v \in Workers \ {w} : pc'[v] = pc[v] /\ job'[v] = job[v]
  BY <1>1 DEF OnlyMoves
<1> QED
  BY <1>2, <1>4, <1>5, CodeMoves

LEMMA DeliveredSends ==
  ASSUME SignInInv, NEW w \in Workers, NEW route \in {"sms", "email"}, Delivered(w, route),
         (pc[w] = "text" /\ route = "sms") \/ (pc[w] = "mail" /\ route = "email")
  PROVE  OnlyMoves(w) /\ CodesAreSound' /\ session' \in [Browsers -> Sessions]
<1>1. OnlyMoves(w) /\ pc[w] \in Sending /\ Done(w) /\ UNCHANGED proven
  BY DoneMoves DEF Delivered, Sending
<1>2. PICK c \in DOMAIN codes : c = job[w].code
  BY <1>1, SendingValues
<1> DEFINE row == [codes[c] EXCEPT !.via = route]
<1>3. codes[c] \in CodeRows /\ codes[c].compared = codes[c].tries /\ codes[c].via = "none"
  BY <1>1, <1>2, CodeValues, SendingValues
<1>4. /\ row \in CodeRows /\ row.acct = codes[c].acct /\ row.purpose = codes[c].purpose
      /\ row.verified = codes[c].verified /\ row.via = route
      /\ row.compared = row.tries
  BY <1>3 DEF CodeRows
<1>5. codes' = [codes EXCEPT ![c] = row]
  BY <1>2 DEF Delivered
<1> HIDE DEF row
<1>6. SameCode(codes[c], row)
  BY <1>3, <1>4 DEF SameCode
<1>7. row.via = "email" => row.purpose \in EmailFallback
  BY <1>1, <1>2, <1>4, SendingValues
<1>8. CodesAreSound'
  BY <1>1, <1>2, <1>4, <1>5, <1>6, <1>7, SendingEnds
<1>9. /\ session \in [Browsers -> Sessions] /\ job[w] \in Jobs /\ job[w].sess \in Sessions
      /\ [acct |-> job[w].acct, purpose |-> job[w].purpose] \in [acct : Distributors, purpose : Purposes]
  BY <1>1, ThreeParts, SendingValues, JobValues DEF RequestsAreSound
<1>10. [job[w].sess EXCEPT !.otp = [acct |-> job[w].acct, purpose |-> job[w].purpose]] \in Sessions
  BY <1>9 DEF Sessions
<1>11. session' \in [Browsers -> Sessions]
  BY <1>9, <1>10 DEF Delivered
<1> QED
  BY <1>1, <1>8, <1>11

LEMMA DiscardSends ==
  ASSUME SignInInv, NEW w \in Workers, Discard(w) PROVE OnlyMoves(w) /\ CodesAreSound'
<1>1. OnlyMoves(w) /\ pc[w] \in Sending /\ Done(w) /\ UNCHANGED proven
  BY DoneMoves DEF Discard, Sending
<1>2. PICK c \in DOMAIN codes : c = job[w].code
  BY <1>1, SendingValues
<1>3. codes[c] \in CodeRows /\ codes[c].compared = codes[c].tries /\ codes[c].via = "none"
  BY <1>1, <1>2, CodeValues, SendingValues
<1>4. CASE codes' = [codes EXCEPT ![job[w].code].gone = TRUE]
  <2> DEFINE row == [codes[c] EXCEPT !.gone = TRUE]
  <2>1. /\ row \in CodeRows /\ row.acct = codes[c].acct /\ row.purpose = codes[c].purpose
        /\ row.verified = codes[c].verified /\ row.via = "none" /\ row.gone
        /\ row.compared = row.tries
    BY <1>3 DEF CodeRows
  <2>2. codes' = [codes EXCEPT ![c] = row]
    BY <1>2, <1>4
  <2> HIDE DEF row
  <2> QED
    BY <1>1, <1>2, <1>3, <2>1, <2>2, SendingEnds DEF SameCode
<1>5. CASE codes' = [codes EXCEPT ![job[w].code].via = "stuck"]
  <2> DEFINE row == [codes[c] EXCEPT !.via = "stuck"]
  <2>1. /\ row \in CodeRows /\ row.acct = codes[c].acct /\ row.purpose = codes[c].purpose
        /\ row.verified = codes[c].verified /\ row.via = "stuck"
        /\ row.compared = row.tries
    BY <1>3 DEF CodeRows
  <2>2. codes' = [codes EXCEPT ![c] = row]
    BY <1>2, <1>5
  <2> HIDE DEF row
  <2> QED
    BY <1>1, <1>2, <1>3, <2>1, <2>2, SendingEnds DEF SameCode
<1> QED
  BY <1>1, <1>4, <1>5 DEF Discard

\* A guess is held against the row that was picked, as it is now.
LEMMA CheckCounts ==
  ASSUME SignInInv, NEW w \in Workers, CheckCode(w) PROVE OnlyMoves(w) /\ CodesAreSound'
<1>1. /\ pc[w] = "check" /\ HasItsJob(w) /\ UNCHANGED proven /\ WorkTypeOK
  BY ThreeParts DEF CheckCode, CodesAreSound, RequestsAreSound
<1>2. PICK c \in DOMAIN codes : c = job[w].code
  BY <1>1 DEF HasItsJob, HasItsCode, UsesCode
<1>3. /\ codes[c] \in CodeRows /\ codes[c].compared = codes[c].tries
      /\ codes[c].verified \in BOOLEAN /\ codes[c].tries \in 0 .. MaxGuesses
  BY CodeValues
<1> PICK right \in BOOLEAN : right = (job[w].guess = c)
  OBVIOUS
<1>4. CASE codes[c].gone \/ TriesSeen(w) >= MaxGuesses
  <2>1. Done(w) /\ UNCHANGED codes
    BY <1>2, <1>4 DEF CheckCode
  <2>2. OnlyMoves(w) /\ pc'[w] = "idle"
    BY <2>1, DoneMoves
  <2> QED
    BY <1>1, <2>1, <2>2, IdleIsFine, CodesRest DEF Sending
<1>5. CASE ~codes[c].gone /\ TriesSeen(w) < MaxGuesses
  <2>1. /\ codes[c].tries + 1 \in 0 .. MaxGuesses /\ TriesSeen(w) = codes[c].tries
        /\ ~(TriesSeen(w) >= MaxGuesses)
    BY <1>2, <1>3, <1>5, SignInAssumption DEF TriesSeen
  <2>2. PICK yes \in BOOLEAN : yes = (codes[c].verified \/ right)
    OBVIOUS
  <2> DEFINE row == [codes[c] EXCEPT !.tries = codes[c].tries + 1,
                                     !.compared = codes[c].compared + 1, !.verified = yes]
  <2>3. /\ row \in CodeRows /\ row.acct = codes[c].acct /\ row.purpose = codes[c].purpose
        /\ row.verified = yes /\ row.via = codes[c].via /\ row.gone = codes[c].gone
        /\ row.compared = row.tries
    <3>1. codes[c].tries + 1 = codes[c].compared + 1 /\ codes[c].compared + 1 \in Nat
      BY <1>3 DEF CodeRows
    <3>2. CASE yes = TRUE
      BY <1>3, <2>1, <3>1, <3>2 DEF CodeRows
    <3>3. CASE yes = FALSE
      BY <1>3, <2>1, <3>1, <3>3 DEF CodeRows
    <3> QED
      BY <3>2, <3>3
  <2>4. codes' = [codes EXCEPT ![c] = row]
    BY <1>2, <1>5, <2>1, <2>2 DEF CheckCode
  <2>5. IF right THEN Continue(w, "admit") ELSE Done(w)
    BY <1>2, <1>5, <2>1 DEF CheckCode
  <2> HIDE DEF row
  <2>6. /\ OnlyMoves(w)
        /\ right => pc'[w] = "admit" /\ job'[w] = job[w]
        /\ ~right => pc'[w] = "idle"
    BY <2>5, ContinueMoves, DoneMoves DEF Steps
  <2>7. /\ codes'[c] = row /\ c \in DOMAIN codes'
    BY <2>4
  <2>8. HasItsJob(w)'
    <3>1. CASE right
      <4>1. /\ job[w].acct \in Distributors /\ job[w].purpose \in Purposes
            /\ codes[c].acct = job[w].acct /\ codes[c].purpose = job[w].purpose
        BY <1>1, <1>2 DEF HasItsJob, HasItsCode, AboutDistributor, UsesCode
      <4>2. codes[c].via \in {"sms", "email"}
        BY <1>1, <1>2, <3>1 DEF HasItsJob
      <4>3. row.verified
        BY <2>2, <2>3, <3>1
      <4> QED
        BY <1>2, <2>3, <2>6, <2>7, <3>1, <4>1, <4>2, <4>3
           DEF HasItsJob, HasItsCode, AboutDistributor, AboutAdmin, UsesCode, Sending
    <3>2. CASE ~right
      BY <2>6, <3>2, IdleIsFine
    <3> QED
      BY <3>1, <3>2
  <2>9. pc'[w] \notin Sending /\ pc[w] \notin Sending /\ {w} \in SUBSET Workers
    BY <1>1, <2>6 DEF Sending
  <2>10. SameCode(codes[c], row)
    BY <2>2, <2>3 DEF SameCode
  <2>11. row.via = "email" => row.purpose \in EmailFallback
    BY <2>3, ThreeParts DEF CodesAreSound, CodesAreSent
  <2>12. \A v \in Workers \ {w} : pc'[v] = pc[v] /\ job'[v] = job[v]
    BY <2>6 DEF OnlyMoves
  <2>13. CodesAreSound'
    BY <1>1, <2>3, <2>4, <2>8, <2>9, <2>10, <2>11, <2>12, CodeMoves
  <2> QED
    BY <2>6, <2>13
<1> QED
  BY <1>2, <1>3, <1>4, <1>5, SignInAssumption DEF TriesSeen

\* A code that was admitted was texted, unless it is for a password reset.
LEMMA AdmitProves ==
  ASSUME SignInInv, NEW w \in Workers, Admit(w)
  PROVE  OnlyMoves(w) /\ CodesAreSound' /\ session' \in [Browsers -> Sessions]
<1>1. /\ pc[w] = "admit" /\ HasItsJob(w) /\ UNCHANGED codes /\ Done(w) /\ CodesAreSound
      /\ job[w] \in Jobs /\ job[w].sess \in Sessions /\ session \in [Browsers -> Sessions]
  BY ThreeParts, JobValues DEF Admit, CodesAreSound, RequestsAreSound, WorkTypeOK
<1>2. PICK d \in Distributors : d = job[w].acct
  BY <1>1 DEF HasItsJob, AboutDistributor
<1>3. PICK c \in DOMAIN codes :
        /\ codes[c].acct = d /\ codes[c].purpose = job[w].purpose
        /\ codes[c].verified /\ codes[c].via \in {"sms", "email"}
  BY <1>1, <1>2 DEF HasItsJob, HasItsCode, UsesCode
<1>4. OnlyMoves(w) /\ pc'[w] = "idle"
  BY <1>1, DoneMoves
<1>5. PICK p \in BOOLEAN : p = (proven[d] \/ job[w].purpose = "registration")
  OBVIOUS
<1>6. proven' = [proven EXCEPT ![d] = p]
  BY <1>2, <1>5 DEF Admit
<1>7. proven' \in [Distributors -> BOOLEAN]
  BY <1>1, <1>6 DEF CodesAreSound
<1>8. PhoneProvenByText'
  <2>1. ASSUME NEW e \in Distributors \ ProvenBefore, proven'[e], ~proven[e]
        PROVE  e = d /\ codes[c].purpose = "registration" /\ codes[c].via = "sms"
    <3>1. e = d /\ codes[c].purpose = "registration"
      BY <1>1, <1>3, <1>5, <1>6, <2>1 DEF CodesAreSound
    <3>2. codes[c].via # "email"
      BY <1>1, <3>1 DEF CodesAreSound, CodesAreSent, EmailFallback
    <3> QED
      BY <1>3, <3>1, <3>2
  <2> QED
    BY <1>1, <1>3, <2>1 DEF CodesAreSound, PhoneProvenByText
<1>9. HasItsJob(w)' /\ pc'[w] \notin Sending /\ pc[w] \notin Sending
  BY <1>1, <1>4, IdleIsFine DEF Sending
<1>10. \A v \in Workers : HasItsJob(v)'
  <2>1. ASSUME NEW v \in Workers, v # w PROVE HasItsJob(v)'
    <3>1. HasItsJob(v) /\ pc'[v] = pc[v] /\ job'[v] = job[v]
      BY <1>1, <1>4, <2>1 DEF CodesAreSound, OnlyMoves
    <3>2. pc[v] \in UsesCode => job[v].code \in DOMAIN codes
      BY <3>1 DEF HasItsJob, HasItsCode
    <3> QED
      BY <1>1, <3>1, <3>2, JobStays DEF SameCode
  <2> QED
    BY <1>9, <2>1
<1>11. CodesAreSent'
  <2>1. \A v \in Workers : (pc'[v] \in Sending <=> pc[v] \in Sending)
                           /\ (pc[v] \in Sending => job'[v].code = job[v].code)
    BY <1>4, <1>9 DEF OnlyMoves
  <2> QED
    BY <1>1, <2>1 DEF CodesAreSound, CodesAreSent
<1>12. session' \in [Browsers -> Sessions]
  <2>1. [job[w].sess EXCEPT !.otp = NoCode] \in Sessions
    BY <1>1 DEF Sessions
  <2>2. /\ [[job[w].sess EXCEPT !.otp = NoCode] EXCEPT !.user = d] \in Sessions
        /\ [[job[w].sess EXCEPT !.otp = NoCode] EXCEPT !.reset = d] \in Sessions
    BY <2>1, <1>2 DEF Sessions, Accounts
  <2> QED
    BY <1>1, <1>2, <2>2 DEF Admit
<1> QED
  BY <1>1, <1>4, <1>7, <1>8, <1>10, <1>11, <1>12 DEF CodesAreSound

LEMMA ExpiryKeepsCodes ==
  ASSUME SignInInv, NEW c \in DOMAIN codes, CodeExpires(c) PROVE CodesAreSound'
<1> DEFINE row == [codes[c] EXCEPT !.expired = TRUE]
<1>1. codes[c] \in CodeRows /\ codes[c].compared = codes[c].tries
  BY CodeValues
<1>2. /\ row \in CodeRows /\ row.acct = codes[c].acct /\ row.purpose = codes[c].purpose
      /\ row.verified = codes[c].verified /\ row.via = codes[c].via /\ row.gone = codes[c].gone
      /\ row.compared = row.tries
  BY <1>1 DEF CodeRows
<1>3. codes' = [codes EXCEPT ![c] = row] /\ UNCHANGED <<pc, job, proven>>
  BY DEF CodeExpires
<1> HIDE DEF row
<1>4. row.via = "email" => row.purpose \in EmailFallback
  BY <1>2, ThreeParts DEF CodesAreSound, CodesAreSent
<1>5. SameCode(codes[c], row) /\ {} \in SUBSET Workers
  BY <1>2 DEF SameCode
<1> QED
  BY <1>2, <1>3, <1>4, <1>5, CodeMoves

\* The newest of some codes is one of them.
LEMMA NewestIsOne ==
  ASSUME SignInInv, NEW cs \in SUBSET (DOMAIN codes), cs # {}
  PROVE  Newest(cs) \in cs /\ \A e \in cs : e <= Newest(cs)
<1>1. codes \in Seq(CodeRows)
  BY ThreeParts DEF CodesAreSound
<1>2. cs \in SUBSET (0 .. Len(codes)) /\ Len(codes) \in Nat
  BY <1>1
<1>3. \E c \in cs : \A e \in cs : e <= c
  BY <1>2, GreatestExists
<1> QED
  BY <1>3 DEF Newest

-----------------------------------------------------------------------------
(* The requests.                                                            *)

LEMMA RequestsBefore ==
  ASSUME SignInInv
  PROVE  /\ WorkTypeOK /\ session \in [Browsers -> Sessions] /\ faults \in 0 .. MaxFaults
         /\ queued \in [Distributors -> 0 .. MaxRequests] /\ served \in 0 .. MaxRequests
         /\ served \in Nat
         /\ \A d \in Distributors : queued[d] \in Nat /\ queued[d] <= served
BY ThreeParts, SignInAssumption DEF RequestsAreSound

LEMMA RequestsRest ==
  ASSUME SignInInv, NEW w \in Workers, OnlyMoves(w),
         session' \in [Browsers -> Sessions], faults' \in 0 .. MaxFaults,
         UNCHANGED queued, served' \in 0 .. MaxRequests,
         served' = served \/ served' = served + 1
  PROVE  RequestsAreSound'
<1>1. \A d \in Distributors : queued[d] <= served'
  BY RequestsBefore
<1> QED
  BY <1>1, RequestsBefore DEF RequestsAreSound, OnlyMoves, WorkTypeOK

\* A request that takes or drops a step without touching an account or a code.
LEMMA RequestMoves ==
  ASSUME SignInInv, NEW w \in Workers, OnlyMoves(w),
         UNCHANGED <<lock, attempts, wrong, lockings, alerts, unsent>>,
         UNCHANGED <<codes, proven>>,
         served' = served \/ served' = served + 1,
         w \in Refused' => w \in Refused \/ served' = served + 1,
         pc[w] # "alert" /\ pc'[w] # "alert",
         HasItsJob(w)', pc[w] \in Sending <=> pc'[w] \in Sending,
         pc[w] \in Sending => job'[w].code = job[w].code,
         RequestsAreSound'
  PROVE  SignInInv'
<1>1. AccountsAreSound'
  BY AccountsRest
<1>2. CodesAreSound'
  BY CodesRest
<1> QED
  BY <1>1, <1>2, ThreePartsNext

\* What a step of signing in means for the rest: worker w moves, and tells nobody.
MovesSoundly(w) ==
  /\ OnlyMoves(w) /\ pc[w] # "tell" /\ pc'[w] # "tell"
  /\ faults <= faults'
  /\ SignInInv'

\* Requests that begin with a browser's page.
LEMMA BegunSoundly ==
  ASSUME SignInInv, NEW w \in Workers, NEW at \in Steps, NEW what \in Jobs,
         Begin(w, at, what),
         UNCHANGED <<accountVars, phoneVars, session, faults>>,
         at \notin {"idle", "alert", "tell"}, at \notin Sending,
         HasItsJob(w)'
  PROVE  MovesSoundly(w)
<1>1. /\ OnlyMoves(w) /\ pc[w] = "idle" /\ pc'[w] = at /\ job'[w] = what
      /\ served' = served + 1 /\ served' \in 0 .. MaxRequests
  BY BeginMoves
<1>2. /\ UNCHANGED <<lock, attempts, wrong, lockings, alerts, unsent>>
      /\ UNCHANGED <<codes, proven>> /\ UNCHANGED queued
  BY DEF accountVars, phoneVars
<1>3. faults' \in 0 .. MaxFaults /\ faults <= faults'
  BY FaultStays
<1>4. RequestsAreSound'
  BY <1>1, <1>2, <1>3, RequestsBefore, RequestsRest
<1>5. SignInInv'
  BY <1>1, <1>2, <1>4, RequestMoves DEF Sending
<1> QED
  BY <1>1, <1>3, <1>5 DEF MovesSoundly

LEMMA LogInSound ==
  ASSUME SignInInv, NEW w \in Workers, NEW b \in Browsers, NEW d \in Distributors,
         NEW right \in BOOLEAN, LogIn(w, b, d, right)
  PROVE  MovesSoundly(w)
<1> PICK at : at = IF right THEN "succeed" ELSE "fail"
  OBVIOUS
<1> PICK what : what = [NoJob EXCEPT !.acct = d, !.browser = b, !.sess = session[b],
                         !.via = IF proven[d] THEN "proven" ELSE "login"]
  OBVIOUS
<1>1. session[b] \in Sessions
  BY RequestsBefore
<1>2. what \in Jobs /\ what.acct = d
  BY <1>1 DEF NoJob, Jobs, Accounts
<1>3. Begin(w, at, what) /\ UNCHANGED <<accountVars, phoneVars, session, faults>>
  BY DEF LogIn
<1>4. at \in Steps /\ at \in {"succeed", "fail"}
  BY DEF Steps
<1>5. pc'[w] = at /\ job'[w] = what
  BY <1>2, <1>3, <1>4, BeginMoves
<1>6. HasItsJob(w)'
  BY <1>2, <1>4, <1>5 DEF HasItsJob, AboutAdmin, UsesCode, Sending
<1> QED
  BY <1>2, <1>3, <1>4, <1>6, BegunSoundly DEF Sending

LEMMA AdminLogInSound ==
  ASSUME SignInInv, NEW w \in Workers, NEW a \in Admins,
         NEW right \in BOOLEAN, AdminLogIn(w, a, right)
  PROVE  MovesSoundly(w)
<1> PICK at : at = IF right /\ lock[a] # "held" THEN "welcome" ELSE "turned_away"
  OBVIOUS
<1> PICK what : what = [NoJob EXCEPT !.acct = a]
  OBVIOUS
<1>1. what \in Jobs /\ what.acct = a
  BY EmptyValues DEF NoJob, Jobs, Accounts
<1>2. Begin(w, at, what) /\ UNCHANGED <<accountVars, phoneVars, session, faults>>
  BY DEF AdminLogIn
<1>3. at \in Steps /\ at \in {"welcome", "turned_away"}
  BY DEF Steps
<1>4. pc'[w] = at /\ job'[w] = what
  BY <1>1, <1>2, <1>3, BeginMoves
<1>5. HasItsJob(w)'
  BY <1>1, <1>3, <1>4 DEF HasItsJob, AboutDistributor, UsesCode, Sending
<1> QED
  BY <1>1, <1>2, <1>3, <1>5, BegunSoundly DEF Sending

LEMMA EnterCodeSound ==
  ASSUME SignInInv, NEW w \in Workers, NEW b \in Browsers, NEW guess \in 0 .. Len(codes),
         EnterCode(w, b, guess)
  PROVE  MovesSoundly(w)
<1> PICK otp : otp = session[b].otp
  OBVIOUS
<1>1. /\ session[b] \in Sessions /\ otp # NoCode /\ guess \in Known(otp.acct)
      /\ otp.acct \in Distributors /\ otp.purpose \in Purposes
      /\ Open(otp) # {}
  BY RequestsBefore, SessionValues DEF EnterCode
<1>2. Open(otp) \in SUBSET (DOMAIN codes)
  BY DEF Open
<1> PICK c \in DOMAIN codes : c = Newest(Open(otp)) /\ c \in Open(otp)
  BY <1>1, <1>2, NewestIsOne
<1>3. /\ codes[c].acct = otp.acct /\ codes[c].purpose = otp.purpose
      /\ c \in Nat /\ c # 0 /\ guess \in Nat
  BY ThreeParts DEF Open, CodesAreSound
<1>4. guess = c => codes[c].via \in {"sms", "email"}
  BY <1>1, <1>3 DEF Known
<1> PICK what : what = [acct |-> otp.acct, browser |-> b, sess |-> session[b],
                        via |-> "none", purpose |-> otp.purpose, code |-> c, guess |-> guess]
  OBVIOUS
<1>5. /\ what \in Jobs /\ what.acct = otp.acct /\ what.purpose = otp.purpose
      /\ what.code = c /\ what.guess = guess
  BY <1>1, <1>3 DEF Jobs, Accounts
<1>6. Begin(w, "check", what) /\ UNCHANGED <<accountVars, phoneVars, session, faults>>
  BY DEF EnterCode
<1>7. "check" \in Steps
  BY DEF Steps
<1>8. pc'[w] = "check" /\ job'[w] = what /\ UNCHANGED codes
  BY <1>5, <1>6, <1>7, BeginMoves DEF phoneVars
<1>9. HasItsJob(w)'
  BY <1>1, <1>3, <1>4, <1>5, <1>8
     DEF HasItsJob, HasItsCode, AboutDistributor, AboutAdmin, UsesCode, Sending
<1> QED
  BY <1>5, <1>6, <1>7, <1>9, BegunSoundly DEF Sending

\* Requests that begin and end in one step.
LEMMA ServedSoundly ==
  ASSUME SignInInv, NEW w \in Workers, Serve(w), UNCHANGED <<accountVars, codes, proven>>,
         session' \in [Browsers -> Sessions],
         \/ UNCHANGED <<queued, faults>>
         \/ \E d \in Distributors : QueueReset(d)
  PROVE  MovesSoundly(w)
<1>1. /\ OnlyMoves(w) /\ pc[w] = "idle" /\ pc'[w] = "idle" /\ job'[w] = job[w]
      /\ served' = served + 1 /\ served' \in 0 .. MaxRequests
  BY ServeMoves
<1>2. UNCHANGED <<lock, attempts, wrong, lockings, alerts, unsent>> /\ UNCHANGED <<codes, proven>>
  BY DEF accountVars
<1>3. faults' \in 0 .. MaxFaults /\ faults <= faults'
  BY FaultStays DEF QueueReset
<1>4. RequestsAreSound'
  <2>1. CASE UNCHANGED queued
    BY <1>1, <1>3, <2>1, RequestsRest
  <2>2. CASE \E d \in Distributors : queued' = [queued EXCEPT ![d] = @ + 1]
    <3>1. PICK d \in Distributors : queued' = [queued EXCEPT ![d] = queued[d] + 1]
      BY <2>2
    <3>2. queued[d] + 1 \in 0 .. MaxRequests /\ queued[d] + 1 <= served'
      BY <1>1, RequestsBefore, SignInAssumption
    <3>3. queued' \in [Distributors -> 0 .. MaxRequests]
      BY <3>1, <3>2, RequestsBefore
    <3>4. \A e \in Distributors : queued'[e] <= served'
      BY <1>1, <3>1, <3>2, RequestsBefore
    <3> QED
      BY <1>1, <1>3, <3>3, <3>4 DEF RequestsAreSound, OnlyMoves, WorkTypeOK
  <2> QED
    BY <2>1, <2>2 DEF QueueReset
<1>5. SignInInv'
  BY <1>1, <1>2, <1>4, IdleIsFine, RequestMoves DEF Sending
<1> QED
  BY <1>1, <1>3, <1>5 DEF MovesSoundly

LEMMA ServedPagesSound ==
  ASSUME SignInInv, NEW w \in Workers, NEW b \in Browsers
  PROVE  /\ LogOut(w, b) => MovesSoundly(w)
         /\ SetNewPassword(w, b) => MovesSoundly(w)
         /\ \A d \in Distributors : ForgotPassword(w, b, d) => MovesSoundly(w)
<1>1. session \in [Browsers -> Sessions] /\ session[b] \in Sessions
  BY RequestsBefore
<1>2. ASSUME LogOut(w, b) PROVE MovesSoundly(w)
  <2>1. session' \in [Browsers -> Sessions]
    BY <1>1, <1>2, EmptyValues DEF LogOut
  <2> QED
    BY <1>2, <2>1, ServedSoundly DEF LogOut, phoneVars
<1>3. ASSUME SetNewPassword(w, b) PROVE MovesSoundly(w)
  <2>1. [session[b] EXCEPT !.reset = NoOne] \in Sessions
    BY <1>1 DEF Sessions
  <2>2. session' \in [Browsers -> Sessions]
    BY <1>1, <1>3, <2>1 DEF SetNewPassword
  <2> QED
    BY <1>3, <2>2, ServedSoundly DEF SetNewPassword, phoneVars
<1>4. ASSUME NEW d \in Distributors, ForgotPassword(w, b, d) PROVE MovesSoundly(w)
  <2>1. [session[b] EXCEPT !.otp = [acct |-> d, purpose |-> "password_reset"]] \in Sessions
    BY <1>1 DEF Sessions, Purposes
  <2>2. session' \in [Browsers -> Sessions]
    BY <1>1, <1>4, <2>1 DEF ForgotPassword
  <2> QED
    BY <1>4, <2>2, ServedSoundly DEF ForgotPassword
<1> QED
  BY <1>2, <1>3, <1>4

LEMMA ResendOtpSound ==
  ASSUME SignInInv, NEW w \in Workers, NEW b \in Browsers, ResendOtp(w, b)
  PROVE  MovesSoundly(w)
<1> PICK otp : otp = session[b].otp
  OBVIOUS
<1>1. /\ session[b] \in Sessions /\ session \in [Browsers -> Sessions] /\ otp # NoCode
      /\ otp.acct \in Distributors /\ otp.purpose \in Purposes
  BY RequestsBefore, SessionValues DEF ResendOtp
<1>2. UNCHANGED accountVars /\ UNCHANGED <<proven, codes, session>>
  BY DEF ResendOtp
<1>3. CASE otp.purpose = "password_reset"
  <2>1. Serve(w) /\ QueueReset(otp.acct)
    BY <1>3 DEF ResendOtp
  <2> QED
    BY <1>1, <1>2, <2>1, ServedSoundly
<1>4. CASE otp.purpose # "password_reset"
  <2> PICK what : what = [NoJob EXCEPT !.acct = otp.acct, !.browser = b, !.purpose = otp.purpose]
    OBVIOUS
  <2>1. Begin(w, "create", what) /\ UNCHANGED <<queued, faults>>
    BY <1>4 DEF ResendOtp
  <2>2. what \in Jobs /\ what.acct = otp.acct /\ what.purpose = otp.purpose
    BY <1>1, EmptyValues DEF NoJob, Jobs, Accounts
  <2>3. "create" \in Steps
    BY DEF Steps
  <2>4. pc'[w] = "create" /\ job'[w] = what
    BY <2>1, <2>2, <2>3, BeginMoves
  <2>5. HasItsJob(w)'
    BY <1>1, <2>2, <2>4 DEF HasItsJob, AboutAdmin, UsesCode, Sending
  <2>6. UNCHANGED <<accountVars, phoneVars, session, faults>>
    BY <1>2, <2>1 DEF phoneVars
  <2> QED
    BY <2>1, <2>2, <2>3, <2>5, <2>6, BegunSoundly DEF Sending
<1> QED
  BY <1>3, <1>4

\* The task that was queued.
LEMMA SendResetCodeSound ==
  ASSUME SignInInv, NEW w \in Workers, NEW d \in Distributors, SendResetCode(w, d)
  PROVE  MovesSoundly(w)
<1> PICK what : what = [NoJob EXCEPT !.acct = d, !.purpose = "password_reset"]
  OBVIOUS
<1>1. what \in Jobs /\ what.acct = d /\ what.purpose = "password_reset"
  BY EmptyValues DEF NoJob, Jobs, Accounts, Purposes
<1>2. /\ pc[w] = "idle" /\ pc' = [pc EXCEPT ![w] = "create"] /\ job' = [job EXCEPT ![w] = what]
      /\ UNCHANGED accountVars /\ UNCHANGED <<proven, codes, session, served, faults>>
      /\ queued' = [queued EXCEPT ![d] = queued[d] - 1] /\ queued[d] > 0
  BY DEF SendResetCode
<1>3. OnlyMoves(w) /\ pc'[w] = "create" /\ job'[w] = what
  BY <1>1, <1>2, RequestsBefore DEF OnlyMoves, WorkTypeOK, Steps
<1>4. HasItsJob(w)'
  BY <1>1, <1>3 DEF HasItsJob, AboutAdmin, UsesCode, Sending, Purposes
<1>5. queued[d] - 1 \in 0 .. MaxRequests /\ queued[d] - 1 <= served
  BY <1>2, RequestsBefore, SignInAssumption
<1>6. /\ queued' \in [Distributors -> 0 .. MaxRequests]
      /\ \A e \in Distributors : queued'[e] <= served
  BY <1>2, <1>5, RequestsBefore
<1>7. faults' \in 0 .. MaxFaults /\ faults <= faults'
  BY <1>2, FaultStays
<1>8. RequestsAreSound'
  BY <1>2, <1>3, <1>6, <1>7, RequestsBefore DEF RequestsAreSound, OnlyMoves, WorkTypeOK
<1>9. /\ UNCHANGED <<lock, attempts, wrong, lockings, alerts, unsent>>
      /\ w \notin Refused'
  BY <1>2, <1>3 DEF accountVars, Refused
<1>10. SignInInv'
  BY <1>2, <1>3, <1>4, <1>8, <1>9, RequestMoves DEF Sending
<1> QED
  BY <1>2, <1>3, <1>7, <1>10 DEF MovesSoundly

\* A request that ends or goes on: nothing is queued or begun, and the browser's
\* session may be written.
LEMMA RequestGoesOn ==
  ASSUME SignInInv, NEW w \in Workers, OnlyMoves(w), UNCHANGED <<queued, served>>,
         session' \in [Browsers -> Sessions], Fault \/ UNCHANGED faults
  PROVE  RequestsAreSound' /\ faults <= faults'
BY FaultStays, RequestsBefore, RequestsRest

LEMMA RecordFailureSound ==
  ASSUME SignInInv, NEW w \in Workers, RecordFailure(w) PROVE MovesSoundly(w)
<1>1. /\ OnlyMoves(w) /\ pc[w] = "fail" /\ pc'[w] = "idle"
      /\ UNCHANGED <<codes, proven>> /\ UNCHANGED <<session, faults>> /\ UNCHANGED <<queued, served>>
  BY DoneMoves DEF RecordFailure, phoneVars
<1>2. RequestsAreSound' /\ faults <= faults'
  BY <1>1, RequestsBefore, RequestGoesOn
<1>3. CodesAreSound'
  BY <1>1, IdleIsFine, CodesRest DEF Sending
<1>4. AccountsAreSound'
  BY FailureCounts
<1> QED
  BY <1>1, <1>2, <1>3, <1>4, ThreePartsNext DEF MovesSoundly

LEMMA RecordSuccessSound ==
  ASSUME SignInInv, NEW w \in Workers, RecordSuccess(w) PROVE MovesSoundly(w)
<1> PICK d \in Distributors : d = job[w].acct
  BY AccountsBefore DEF RecordSuccess, AboutDistributor
<1>1. /\ pc[w] = "succeed" /\ d \in Accounts /\ HasItsJob(w)
      /\ job[w] \in Jobs /\ job[w].sess \in Sessions
      /\ session \in [Browsers -> Sessions] /\ WorkTypeOK
      /\ attempts' = [attempts EXCEPT ![d] = 0] /\ wrong' = [wrong EXCEPT ![d] = 0]
      /\ lock' = [lock EXCEPT ![d] = "none"]
      /\ UNCHANGED <<lockings, alerts, unsent>> /\ UNCHANGED <<codes, proven>>
      /\ UNCHANGED queued /\ UNCHANGED faults
  BY ThreeParts, JobValues
     DEF RecordSuccess, Accounts, CodesAreSound, RequestsAreSound, WorkTypeOK, phoneVars
<1>2. CASE job[w].via = "proven"
  <2>1. /\ OnlyMoves(w) /\ pc'[w] = "idle" /\ UNCHANGED served
        /\ session' = [session EXCEPT ![job[w].browser] = [job[w].sess EXCEPT !.user = d]]
    BY <1>2, DoneMoves DEF RecordSuccess
  <2>2. [job[w].sess EXCEPT !.user = d] \in Sessions
    BY <1>1 DEF Sessions
  <2>3. session' \in [Browsers -> Sessions]
    BY <1>1, <2>1, <2>2
  <2>4. RequestsAreSound' /\ faults <= faults'
    BY <1>1, <2>1, <2>3, RequestGoesOn
  <2>5. CodesAreSound'
    BY <1>1, <2>1, IdleIsFine, CodesRest DEF Sending
  <2>6. AccountsAreSound'
    BY <1>1, <2>1, ClearedSlate
  <2> QED
    BY <1>1, <2>1, <2>4, <2>5, <2>6, ThreePartsNext DEF MovesSoundly
<1>3. CASE job[w].via # "proven"
  <2>1. /\ pc' = [pc EXCEPT ![w] = "create"]
        /\ job' = [job EXCEPT ![w].purpose = "registration"]
        /\ UNCHANGED <<session, served>>
    BY <1>3 DEF RecordSuccess
  <2>2. /\ [job[w] EXCEPT !.purpose = "registration"] \in Jobs
        /\ [job[w] EXCEPT !.purpose = "registration"].acct = d
    BY <1>1 DEF Jobs, Purposes
  <2>3. /\ OnlyMoves(w) /\ pc'[w] = "create" /\ job'[w].acct = d
        /\ job'[w].purpose = "registration"
    BY <1>1, <2>1, <2>2 DEF OnlyMoves, WorkTypeOK, Steps, Jobs
  <2>4. HasItsJob(w)'
    BY <2>3 DEF HasItsJob, AboutAdmin, UsesCode, Sending, Purposes
  <2>5. RequestsAreSound' /\ faults <= faults'
    BY <1>1, <2>1, <2>3, RequestGoesOn
  <2>6. CodesAreSound'
    BY <1>1, <2>3, <2>4, CodesRest DEF Sending
  <2>7. AccountsAreSound'
    BY <1>1, <2>1, <2>3, ClearedSlate
  <2> QED
    BY <1>1, <2>3, <2>5, <2>6, <2>7, ThreePartsNext DEF MovesSoundly
<1> QED
  BY <1>2, <1>3

LEMMA AdminStepsSound ==
  ASSUME SignInInv, NEW w \in Workers,
         RecordAdminFailure(w) \/ SendLockoutAlert(w) \/ LockoutAlertFails(w) \/ AdminIsIn(w)
  PROVE  MovesSoundly(w)
<1>1. /\ pc[w] \in {"turned_away", "alert", "welcome"} /\ HasItsJob(w)
      /\ session \in [Browsers -> Sessions]
      /\ UNCHANGED <<codes, proven>> /\ UNCHANGED queued /\ UNCHANGED session
      /\ Fault \/ UNCHANGED faults
  BY ThreeParts
     DEF RecordAdminFailure, SendLockoutAlert, LockoutAlertFails, AdminIsIn, CodesAreSound,
         RequestsAreSound, phoneVars
<1>2. Done(w) \/ Continue(w, "alert")
  BY DEF RecordAdminFailure, SendLockoutAlert, LockoutAlertFails, AdminIsIn
<1>3. /\ OnlyMoves(w) /\ UNCHANGED served
      /\ pc'[w] = "idle" \/ (pc'[w] = "alert" /\ job'[w] = job[w])
  BY <1>2, DoneMoves, ContinueMoves DEF Steps
<1>4. HasItsJob(w)'
  <2>1. CASE pc'[w] = "idle"
    BY <2>1, IdleIsFine
  <2>2. CASE pc'[w] = "alert" /\ job'[w] = job[w]
    BY <1>1, <2>2 DEF HasItsJob, AboutDistributor, AboutAdmin, UsesCode, Sending
  <2> QED
    BY <1>3, <2>1, <2>2
<1>5. CodesAreSound'
  BY <1>1, <1>3, <1>4, CodesRest DEF Sending
<1>6. RequestsAreSound' /\ faults <= faults'
  BY <1>1, <1>3, RequestGoesOn
<1>7. AccountsAreSound'
  <2>1. CASE AdminIsIn(w)
    <3> PICK a \in Admins : a = job[w].acct
      BY <2>1, AccountsBefore DEF AdminIsIn, AboutAdmin
    <3>1. /\ pc[w] = "welcome" /\ pc'[w] = "idle" /\ a \in Accounts
          /\ attempts' = [attempts EXCEPT ![a] = 0] /\ wrong' = [wrong EXCEPT ![a] = 0]
          /\ lock' = [lock EXCEPT ![a] = "none"] /\ UNCHANGED <<lockings, alerts, unsent>>
      BY <2>1, DoneMoves DEF AdminIsIn, Accounts
    <3> QED
      BY <1>3, <3>1, ClearedSlate
  <2> QED
    BY <2>1, AdminFailureCounts, AlertCounts
<1> QED
  BY <1>1, <1>3, <1>5, <1>6, <1>7, ThreePartsNext DEF MovesSoundly

LEMMA FailedSendingSound ==
  ASSUME SignInInv, NEW w \in Workers, TextFails(w) \/ MailFails(w) PROVE MovesSoundly(w)
<1>1. /\ pc[w] \in {"text", "mail"} /\ UNCHANGED <<accountVars, phoneVars, session, faults>>
      /\ HasItsJob(w)
  BY ThreeParts DEF TextFails, MailFails, CodesAreSound
<1>2. PICK at \in {"mail", "discard"} :
        Continue(w, at) /\ (at = "mail" => job[w].purpose \in EmailFallback)
  BY DEF TextFails, MailFails, FallsBack
<1>3. OnlyMoves(w) /\ pc'[w] = at /\ job'[w] = job[w] /\ UNCHANGED served
  BY <1>2, ContinueMoves DEF Steps
<1>4. /\ UNCHANGED <<lock, attempts, wrong, lockings, alerts, unsent>>
      /\ UNCHANGED <<codes, proven>> /\ UNCHANGED queued /\ UNCHANGED session
  BY <1>1 DEF accountVars, phoneVars
<1>5. HasItsJob(w)'
  BY <1>1, <1>2, <1>3, <1>4
     DEF HasItsJob, HasItsCode, AboutDistributor, AboutAdmin, UsesCode, Sending
<1>6. RequestsAreSound' /\ faults <= faults'
  BY <1>1, <1>3, <1>4, RequestsBefore, RequestGoesOn
<1>7. w \notin Refused'
  BY <1>3 DEF Refused
<1>8. SignInInv'
  BY <1>1, <1>3, <1>4, <1>5, <1>6, <1>7, RequestMoves DEF Sending
<1> QED
  BY <1>1, <1>3, <1>6, <1>8 DEF MovesSoundly

LEMMA CodeStepsSound ==
  ASSUME SignInInv, NEW w \in Workers,
         \/ CreateCode(w) \/ TextArrives(w) \/ MailArrives(w)
         \/ Discard(w) \/ CheckCode(w) \/ Admit(w)
  PROVE  MovesSoundly(w)
<1>1. session \in [Browsers -> Sessions]
  BY RequestsBefore
<1>2. /\ OnlyMoves(w) /\ CodesAreSound' /\ session' \in [Browsers -> Sessions]
  <2>1. CASE CreateCode(w)
    BY <1>1, <2>1, CreateCodeSends DEF CreateCode
  <2>2. CASE TextArrives(w)
    BY <2>2, DeliveredSends DEF TextArrives
  <2>3. CASE MailArrives(w)
    BY <2>3, DeliveredSends DEF MailArrives
  <2>4. CASE Discard(w)
    BY <1>1, <2>4, DiscardSends DEF Discard
  <2>5. CASE CheckCode(w)
    BY <1>1, <2>5, CheckCounts DEF CheckCode
  <2>6. CASE Admit(w)
    BY <2>6, AdmitProves
  <2> QED
    BY <2>1, <2>2, <2>3, <2>4, <2>5, <2>6
<1>3. /\ pc[w] \in {"create", "text", "mail", "discard", "check", "admit"}
      /\ UNCHANGED accountVars /\ UNCHANGED <<queued, served>>
      /\ Fault \/ UNCHANGED faults
      /\ pc' = [pc EXCEPT ![w] = "text"] \/ Done(w) \/ Continue(w, "admit")
  BY DEF CreateCode, TextArrives, MailArrives, Delivered, Discard, CheckCode, Admit,
         Done, Continue
<1>4. pc'[w] \in {"text", "idle", "admit"}
  <2>1. CASE pc' = [pc EXCEPT ![w] = "text"]
    BY <2>1, RequestsBefore DEF WorkTypeOK
  <2> QED
    BY <1>3, <2>1, DoneMoves, ContinueMoves DEF Steps
<1>5. UNCHANGED <<lock, attempts, wrong, lockings, alerts, unsent>> /\ w \notin Refused'
  BY <1>3, <1>4 DEF accountVars, Refused
<1>6. AccountsAreSound'
  BY <1>2, <1>3, <1>4, <1>5, AccountsRest
<1>7. RequestsAreSound' /\ faults <= faults'
  BY <1>2, <1>3, RequestGoesOn
<1> QED
  BY <1>2, <1>3, <1>4, <1>6, <1>7, ThreePartsNext DEF MovesSoundly

LEMMA SignInStepSound ==
  ASSUME SignInInv, NEW w \in Workers, SignInStep(w) PROVE MovesSoundly(w)
BY LogInSound, AdminLogInSound, EnterCodeSound, ServedPagesSound, ResendOtpSound,
   SendResetCodeSound, RecordFailureSound, RecordSuccessSound, AdminStepsSound,
   FailedSendingSound, CodeStepsSound
   DEF SignInStep

\* The steps of time move no worker.
LEMMA TimeIsSound ==
  ASSUME SignInInv,
         \/ \E a \in Accounts : LockPasses(a)
         \/ \E c \in DOMAIN codes : CodeExpires(c)
  PROVE  SignInInv' /\ UNCHANGED <<pc, job, faults>>
<1>1. ASSUME NEW a \in Accounts, LockPasses(a)
      PROVE  SignInInv' /\ UNCHANGED <<pc, job, faults>>
  <2>1. UNCHANGED <<proven, codes, queued, session, pc, job, served, faults>>
    BY <1>1 DEF LockPasses, phoneVars
  <2>2. CodesAreSound' /\ RequestsAreSound'
    <3>1. \A w \in Workers : HasItsJob(w)' <=> HasItsJob(w)
      BY <2>1 DEF HasItsJob, HasItsCode
    <3>2. CodesAreSent' <=> CodesAreSent
      BY <2>1 DEF CodesAreSent
    <3>3. PhoneProvenByText' <=> PhoneProvenByText
      BY <2>1 DEF PhoneProvenByText
    <3>4. WorkTypeOK' <=> WorkTypeOK
      BY <2>1 DEF WorkTypeOK
    <3> QED
      BY <2>1, <3>1, <3>2, <3>3, <3>4, ThreeParts DEF CodesAreSound, RequestsAreSound
  <2> QED
    BY <1>1, <2>1, <2>2, PassedLockCounts, ThreePartsNext
<1>2. ASSUME NEW c \in DOMAIN codes, CodeExpires(c)
      PROVE  SignInInv' /\ UNCHANGED <<pc, job, faults>>
  <2>1. UNCHANGED <<lock, attempts, wrong, lockings, alerts, unsent, proven, queued, session, pc, job,
                    served, faults>>
    BY <1>2 DEF CodeExpires, accountVars
  <2>2. /\ Refused' = Refused /\ \A a \in Admins : Alerting(a)' = Alerting(a)
        /\ WorkTypeOK' <=> WorkTypeOK
    BY <2>1 DEF Refused, Alerting, WorkTypeOK
  <2>3. AccountsAreSound'
    BY <2>1, <2>2, ThreeParts DEF AccountsAreSound, PasswordsAreCounted, LocksAreCounted
  <2>4. RequestsAreSound'
    BY <2>1, <2>2, ThreeParts DEF RequestsAreSound
  <2> QED
    BY <1>2, <2>1, <2>3, <2>4, ExpiryKeepsCodes, ThreePartsNext
<1> QED
  BY <1>1, <1>2

-----------------------------------------------------------------------------
(* Identity verification.                                                   *)

KycTypes ==
  /\ kyc \in [Distributors -> {"pending", "approved", "rejected"}]
  /\ irId \in [Distributors -> 0 .. LastNumber]
  /\ nextNumber \in Nat
  /\ didit \in Seq({"going"} \cup Final)
  /\ verification \in [Distributors -> {NoRow} \cup Rows]
  /\ decided \in [Distributors -> Nat] /\ told \in [Distributors -> Nat]

IrIdsInv == KycTypes /\ IrIdsAreSound
ResultsInv == ResultIsOfItsSession /\ SessionsAreKnown

LEMMA IdentityParts ==
  IdentityInv <=> SignInInv /\ IrIdsInv /\ ResultsInv /\ DecisionsAreToldOnce
<1>1. TypeOK <=> SignInTypeOK /\ KycTypes
  BY DEF TypeOK, KycTypes
<1>2. SignInInv => SignInTypeOK
  BY DEF SignInInv
<1> QED
  BY <1>1, <1>2 DEF IdentityInv, IdentityIsSound, IrIdsInv, ResultsInv

LEMMA IdentityPartsNext ==
  IdentityInv' <=> SignInInv' /\ IrIdsInv' /\ ResultsInv' /\ DecisionsAreToldOnce'
BY IdentityParts, PTL

Telling(d) == {w \in Workers : pc[w] = "tell" /\ job[w].acct = d}

\* How one worker's move changes who is telling a distributor.
LEMMA TellersMove ==
  ASSUME NEW w \in Workers, OnlyMoves(w), NEW d \in Distributors
  PROVE  /\ Cardinality(Telling(d)) \in Nat /\ Cardinality(Telling(d)') \in Nat
         /\ (w \in Telling(d) <=> w \in Telling(d)')
              => Cardinality(Telling(d)') = Cardinality(Telling(d))
         /\ w \notin Telling(d) /\ w \in Telling(d)'
              => Cardinality(Telling(d)') = Cardinality(Telling(d)) + 1
         /\ w \in Telling(d) /\ w \notin Telling(d)'
              => Cardinality(Telling(d)') = Cardinality(Telling(d)) - 1
<1>1. /\ Telling(d) \subseteq Workers /\ Telling(d)' \subseteq Workers
      /\ \A v \in Workers \ {w} : v \in Telling(d) <=> v \in Telling(d)'
  BY DEF Telling, OnlyMoves
<1> QED
  BY <1>1, OneCounts, WorkersCount

\* The counts of decisions, in one distributor's case.
ToldOnce(d) ==
  /\ told[d] + Cardinality(Telling(d)) <= decided[d]
  /\ decided[d] <= told[d] + Cardinality(Telling(d)) + faults

LEMMA ToldOnceIsIt == DecisionsAreToldOnce <=> \A d \in Distributors : ToldOnce(d)
BY DEF DecisionsAreToldOnce, ToldOnce, Telling

LEMMA ToldOnceIsItNext == DecisionsAreToldOnce' <=> \A d \in Distributors : ToldOnce(d)'
<1>1. (DecisionsAreToldOnce <=> \A d \in Distributors : ToldOnce(d))'
  BY ToldOnceIsIt, PTL
<1> QED
  BY <1>1

LEMMA DecisionValues ==
  ASSUME IdentityInv
  PROVE  /\ \A d \in Distributors : told[d] \in Nat /\ decided[d] \in Nat /\ ToldOnce(d)
         /\ told \in [Distributors -> Nat] /\ decided \in [Distributors -> Nat]
         /\ faults \in Nat
BY IdentityParts, ToldOnceIsIt, RequestsBefore, SignInAssumption DEF IrIdsInv, KycTypes

\* Requests that decide nothing and tell nobody.
LEMMA NobodyIsTold ==
  ASSUME IdentityInv, NEW w \in Workers, MovesSoundly(w), UNCHANGED <<told, decided>>
  PROVE  DecisionsAreToldOnce'
<1>1. OnlyMoves(w) /\ pc[w] # "tell" /\ pc'[w] # "tell" /\ faults <= faults' /\ faults' \in Nat
  BY ThreePartsNext, SignInAssumption DEF MovesSoundly, RequestsAreSound
<1>2. ASSUME NEW d \in Distributors PROVE ToldOnce(d)'
  <2>1. w \notin Telling(d) /\ w \notin Telling(d)'
    BY <1>1 DEF Telling
  <2>2. /\ Cardinality(Telling(d)) \in Nat /\ Cardinality(Telling(d)') = Cardinality(Telling(d))
    BY <1>1, <2>1, TellersMove
  <2> QED
    BY <1>1, <2>2, DecisionValues DEF ToldOnce
<1> QED
  BY <1>2, ToldOnceIsItNext

LEMMA KycRests ==
  ASSUME IdentityInv, UNCHANGED <<kyc, irId, nextNumber, didit, verification, decided, told>>
  PROVE  IrIdsInv' /\ ResultsInv'
BY IdentityParts
   DEF IrIdsInv, KycTypes, IrIdsAreSound, ResultsInv, ResultIsOfItsSession, SessionsAreKnown

LEMMA RestedSoundly ==
  ASSUME IdentityInv, NEW w \in Workers, MovesSoundly(w), UNCHANGED kycVars
  PROVE  IdentityInv'
<1>1. UNCHANGED <<kyc, irId, nextNumber, didit, verification, decided, told>>
  BY DEF kycVars
<1>2. DecisionsAreToldOnce' /\ IrIdsInv' /\ ResultsInv'
  BY <1>1, NobodyIsTold, KycRests
<1> QED
  BY <1>2, IdentityPartsNext DEF MovesSoundly

LEMMA SignInKeepsIdentity ==
  ASSUME IdentityInv, SignInNext, UNCHANGED kycVars PROVE IdentityInv'
<1>1. SignInInv /\ \A d \in Distributors : ToldOnce(d)
  BY IdentityParts, ToldOnceIsIt
<1>2. CASE \E w \in Workers : SignInStep(w)
  BY <1>1, <1>2, SignInStepSound, RestedSoundly
<1>3. CASE (\E a \in Accounts : LockPasses(a)) \/ (\E c \in DOMAIN codes : CodeExpires(c))
  <2>1. SignInInv' /\ UNCHANGED <<pc, job, faults>>
    BY <1>1, <1>3, TimeIsSound
  <2>2. UNCHANGED <<kyc, irId, nextNumber, didit, verification, decided, told>>
    BY DEF kycVars
  <2>3. \A d \in Distributors : ToldOnce(d)'
    BY <1>1, <2>1, <2>2 DEF ToldOnce, Telling
  <2> QED
    BY <2>1, <2>2, <2>3, ToldOnceIsItNext, KycRests, IdentityPartsNext
<1> QED
  BY <1>2, <1>3 DEF SignInNext

\* Didit's steps, and the result that is stored: they take no worker.
LEMMA SignInRests ==
  ASSUME IdentityInv, UNCHANGED signInVars, UNCHANGED <<told, decided>>
  PROVE  SignInInv' /\ DecisionsAreToldOnce'
<1>1. SignInInv /\ \A d \in Distributors : ToldOnce(d)
  BY IdentityParts, ToldOnceIsIt
<1>2. UNCHANGED <<lock, attempts, wrong, lockings, alerts, unsent, proven, codes, queued, session, pc, job,
                  served, faults>>
  BY DEF signInVars
<1>3. AccountsAreSound'
  <2>1. Refused' = Refused /\ \A a \in Admins : Alerting(a)' = Alerting(a)
    BY <1>2 DEF Refused, Alerting
  <2> QED
    BY <1>1, <1>2, <2>1, ThreeParts DEF AccountsAreSound, PasswordsAreCounted, LocksAreCounted
<1>4. WorkTypeOK' <=> WorkTypeOK
  BY <1>2 DEF WorkTypeOK
<1>5. RequestsAreSound'
  BY <1>1, <1>2, <1>4, ThreeParts DEF RequestsAreSound
<1>6. CodesAreSound'
  <2>1. \A w \in Workers : HasItsJob(w)' <=> HasItsJob(w)
    BY <1>2 DEF HasItsJob, HasItsCode
  <2>2. CodesAreSent' <=> CodesAreSent
    BY <1>2 DEF CodesAreSent
  <2>3. PhoneProvenByText' <=> PhoneProvenByText
    BY <1>2 DEF PhoneProvenByText
  <2> QED
    BY <1>1, <1>2, <2>1, <2>2, <2>3, ThreeParts DEF CodesAreSound
<1>7. \A d \in Distributors : ToldOnce(d)'
  BY <1>1, <1>2 DEF ToldOnce, Telling
<1> QED
  BY <1>3, <1>5, <1>6, <1>7, ThreePartsNext, ToldOnceIsItNext

LEMMA RowValues ==
  ASSUME IdentityInv, NEW d \in Distributors
  PROVE  /\ verification[d] \in {NoRow} \cup Rows
         /\ verification[d].status \in {"none", "pending"} \cup Final
         /\ verification[d].session \in Nat /\ verification[d].images \in Nat
         /\ verification[d].details \in Nat
         /\ verification[d].status \in {"pending"} \cup Final =>
              verification[d] \in Rows /\ verification[d].session \in DOMAIN didit
         /\ verification[d].status \in Final =>
              /\ verification[d].details = verification[d].session
              /\ verification[d].status = didit[verification[d].session]
<1>1. verification[d] \in {NoRow} \cup Rows
  BY IdentityParts DEF IrIdsInv, KycTypes
<1>2. verification[d] = NoRow \/ verification[d].session \in DOMAIN didit
  BY IdentityParts DEF ResultsInv, SessionsAreKnown
<1>3. verification[d].status \in Final =>
        /\ verification[d].details = verification[d].session
        /\ verification[d].status = didit[verification[d].session]
  BY IdentityParts DEF ResultsInv, ResultIsOfItsSession
<1> QED
  BY <1>1, <1>2, <1>3 DEF NoRow, Rows, Final

LEMMA DiditKeepsIdentity ==
  ASSUME IdentityInv, NEW s \in DOMAIN didit, DiditDecides(s) PROVE IdentityInv'
<1>1. didit \in Seq({"going"} \cup Final) /\ IrIdsInv
  BY IdentityParts DEF IrIdsInv, KycTypes
<1>2. PICK final \in Final : didit' = [didit EXCEPT ![s] = final]
  BY DEF DiditDecides
<1>3. /\ UNCHANGED signInVars /\ UNCHANGED <<kyc, irId, nextNumber, verification, decided, told>>
      /\ didit[s] = "going"
  BY DEF DiditDecides
<1>4. /\ didit' \in Seq({"going"} \cup Final) /\ DOMAIN didit' = DOMAIN didit
      /\ \A e \in DOMAIN didit : e # s => didit'[e] = didit[e]
  BY <1>1, <1>2, ExceptSeq
<1>5. IrIdsInv'
  BY <1>1, <1>3, <1>4 DEF IrIdsInv, KycTypes, IrIdsAreSound
<1>6. ASSUME NEW d \in Distributors
      PROVE  /\ verification'[d] = NoRow \/ verification'[d].session \in DOMAIN didit'
             /\ verification'[d].status \in Final =>
                  /\ verification'[d].details = verification'[d].session
                  /\ verification'[d].status = didit'[verification'[d].session]
  <2>1. verification[d].status \in Final => verification[d].session # s
    BY <1>3, RowValues DEF Final
  <2>2. verification[d] = NoRow \/ verification[d].session \in DOMAIN didit
    BY IdentityParts DEF ResultsInv, SessionsAreKnown
  <2> QED
    BY <1>3, <1>4, <2>1, <2>2, RowValues
<1>7. ResultsInv'
  BY <1>6 DEF ResultsInv, ResultIsOfItsSession, SessionsAreKnown
<1> QED
  BY <1>3, <1>5, <1>7, SignInRests, IdentityPartsNext

\* A distributor's row is written.
LEMMA RowIsWritten ==
  ASSUME IdentityInv, NEW d \in Distributors, NEW row \in Rows,
         verification' = [verification EXCEPT ![d] = row],
         didit' \in Seq({"going"} \cup Final),
         DOMAIN didit \subseteq DOMAIN didit', \A s \in DOMAIN didit : didit'[s] = didit[s],
         row.session \in DOMAIN didit',
         row.status \in Final => row.details = row.session /\ row.status = didit'[row.session],
         UNCHANGED <<kyc, irId, nextNumber, decided, told>>
  PROVE  IrIdsInv' /\ ResultsInv'
<1>1. IrIdsInv'
  BY IdentityParts DEF IrIdsInv, KycTypes, IrIdsAreSound
<1>2. ASSUME NEW e \in Distributors
      PROVE  /\ verification'[e] = NoRow \/ verification'[e].session \in DOMAIN didit'
             /\ verification'[e].status \in Final =>
                  /\ verification'[e].details = verification'[e].session
                  /\ verification'[e].status = didit'[verification'[e].session]
  <2>1. verification \in [Distributors -> {NoRow} \cup Rows]
    BY IdentityParts DEF IrIdsInv, KycTypes
  <2>2. CASE e = d
    BY <2>1, <2>2
  <2>3. CASE e # d
    <3>1. verification'[e] = verification[e]
      BY <2>1, <2>3
    <3>2. verification[e] = NoRow \/ verification[e].session \in DOMAIN didit
      BY IdentityParts DEF ResultsInv, SessionsAreKnown
    <3> QED
      BY <3>1, <3>2, RowValues
  <2> QED
    BY <2>2, <2>3
<1>3. ResultsInv'
  BY <1>2 DEF ResultsInv, ResultIsOfItsSession, SessionsAreKnown
<1> QED
  BY <1>1, <1>3

LEMMA ConsumeKeepsIdentity ==
  ASSUME IdentityInv, NEW s \in DOMAIN didit, ConsumeResult(s) PROVE IdentityInv'
<1>1. PICK d \in RowOf(s) :
        /\ verification[d].status = "pending"
        /\ didit[s] \in Final
        /\ \E images \in {s, verification[d].images} :
             verification' = [verification EXCEPT
               ![d].status = didit[s], ![d].details = s, ![d].images = images]
  BY DEF ConsumeResult
<1>2. /\ UNCHANGED signInVars /\ UNCHANGED <<kyc, irId, nextNumber, didit, decided, told>>
      /\ d \in Distributors /\ verification[d].session = s
  BY <1>1 DEF ConsumeResult, RowOf
<1>3. /\ didit \in Seq({"going"} \cup Final) /\ s \in Nat
      /\ verification \in [Distributors -> {NoRow} \cup Rows]
  BY IdentityParts DEF IrIdsInv, KycTypes
<1>4. PICK images \in {s, verification[d].images} :
        verification' = [verification EXCEPT
          ![d].status = didit[s], ![d].details = s, ![d].images = images]
  BY <1>1
<1>5. PICK final \in Final : final = didit[s]
  BY <1>1
<1> DEFINE row == [verification[d] EXCEPT !.status = final, !.details = s, !.images = images]
<1>6. verification[d] \in Rows /\ images \in Nat
  BY <1>1, <1>2, <1>3, RowValues
<1>7. /\ row \in Rows /\ row.status = final /\ row.details = s /\ row.session = s
  BY <1>2, <1>3, <1>6 DEF Rows
<1>8. verification' = [verification EXCEPT ![d] = row]
  BY <1>2, <1>3, <1>4, <1>5
<1> HIDE DEF row
<1>9. IrIdsInv' /\ ResultsInv'
  BY <1>2, <1>3, <1>5, <1>7, <1>8, RowIsWritten
<1> QED
  BY <1>2, <1>9, SignInRests, IdentityPartsNext

\* What a step of identity verification that a worker takes means for sign-in.
LEMMA KycMoves ==
  ASSUME IdentityInv, NEW w \in Workers, OnlyMoves(w),
         pc[w] \in {"start_kyc", "approve", "reject", "tell"},
         pc'[w] = "idle" \/ (pc'[w] = "tell" /\ job'[w] = job[w]),
         UNCHANGED <<accountVars, phoneVars, session>>, UNCHANGED served,
         Fault \/ UNCHANGED faults
  PROVE  SignInInv' /\ faults <= faults' /\ faults' \in Nat
<1>1. SignInInv
  BY IdentityParts
<1>2. HasItsJob(w) /\ session \in [Browsers -> Sessions]
  BY <1>1, ThreeParts DEF CodesAreSound, RequestsAreSound
<1>3. /\ UNCHANGED <<lock, attempts, wrong, lockings, alerts, unsent>>
      /\ UNCHANGED <<codes, proven>> /\ UNCHANGED queued /\ UNCHANGED session
  BY DEF accountVars, phoneVars
<1>4. HasItsJob(w)'
  <2>1. CASE pc'[w] = "idle"
    BY <2>1, IdleIsFine
  <2>2. CASE pc'[w] = "tell" /\ job'[w] = job[w]
    BY <1>2, <2>2 DEF HasItsJob, AboutDistributor, AboutAdmin, UsesCode, Sending
  <2> QED
    BY <2>1, <2>2
<1>5. RequestsAreSound' /\ faults <= faults' /\ faults' \in 0 .. MaxFaults
  BY <1>1, <1>2, <1>3, RequestGoesOn, FaultStays
<1>6. w \notin Refused'
  BY DEF Refused
<1>7. SignInInv'
  BY <1>1, <1>3, <1>4, <1>5, <1>6, RequestMoves DEF Sending
<1> QED
  BY <1>5, <1>7, SignInAssumption

LEMMA BegunKycSound ==
  ASSUME IdentityInv, NEW w \in Workers,
         \/ \E b \in Browsers : StartKyc(w, b)
         \/ \E d \in Distributors, verdict \in {"approve", "reject"} : AdminDecides(w, d, verdict)
  PROVE  IdentityInv'
<1>1. SignInInv
  BY IdentityParts
<1>2. PICK d \in Distributors, at \in {"start_kyc", "approve", "reject"} :
        /\ Begin(w, at, [NoJob EXCEPT !.acct = d])
        /\ UNCHANGED <<accountVars, phoneVars, session, faults>> /\ UNCHANGED kycVars
  BY DEF StartKyc, AdminDecides
<1> PICK what : what = [NoJob EXCEPT !.acct = d]
  OBVIOUS
<1>3. what \in Jobs /\ what.acct = d
  BY EmptyValues DEF NoJob, Jobs, Accounts
<1>4. at \in Steps
  BY DEF Steps
<1>5. pc'[w] = at /\ job'[w] = what
  BY <1>1, <1>2, <1>3, <1>4, BeginMoves
<1>6. HasItsJob(w)'
  BY <1>3, <1>5 DEF HasItsJob, AboutAdmin, UsesCode, Sending
<1>7. MovesSoundly(w)
  BY <1>1, <1>2, <1>3, <1>4, <1>6, BegunSoundly DEF Sending
<1> QED
  BY <1>2, <1>7, RestedSoundly

LEMMA SessionStartsSound ==
  ASSUME IdentityInv, NEW w \in Workers, SessionStarts(w) PROVE IdentityInv'
<1>1. SignInInv
  BY IdentityParts
<1>2. /\ pc[w] = "start_kyc" /\ Done(w)
      /\ UNCHANGED <<accountVars, phoneVars, session>> /\ UNCHANGED faults
      /\ UNCHANGED <<kyc, irId, nextNumber, decided, told>>
  BY DEF SessionStarts
<1>3. OnlyMoves(w) /\ pc'[w] = "idle" /\ UNCHANGED served
  BY <1>1, <1>2, DoneMoves
<1>4. SignInInv' /\ faults <= faults' /\ faults' \in Nat
  BY <1>2, <1>3, KycMoves
<1>5. MovesSoundly(w)
  BY <1>2, <1>3, <1>4 DEF MovesSoundly
<1>6. DecisionsAreToldOnce'
  BY <1>2, <1>5, NobodyIsTold
<1>7. CASE UNCHANGED <<didit, verification>>
  BY <1>2, <1>4, <1>6, <1>7, KycRests, IdentityPartsNext
<1>8. CASE ~ UNCHANGED <<didit, verification>>
  <2> PICK d \in Distributors : d = job[w].acct
    BY <1>1, <1>2, AccountsBefore DEF AboutDistributor
  <2>1. didit \in Seq({"going"} \cup Final) /\ verification \in [Distributors -> {NoRow} \cup Rows]
    BY IdentityParts DEF IrIdsInv, KycTypes
  <2> PICK s \in Nat : s = Len(didit) + 1
    BY <2>1
  <2> DEFINE row == [verification[d] EXCEPT !.session = s, !.status = "pending"]
  <2>2. /\ didit' = Append(didit, "going")
        /\ verification' = [verification EXCEPT ![d] = row]
    BY <1>8, <2>1 DEF SessionStarts, Restarted
  <2>3. row \in Rows /\ row.session = s /\ row.status = "pending"
    <3>1. CASE verification[d] \in Rows
      BY <3>1 DEF Rows
    <3>2. CASE verification[d] = NoRow
      <4>1. row = [NoRow EXCEPT !.session = s, !.status = "pending"]
        BY <3>2
      <4> HIDE DEF row
      <4> QED
        BY <4>1 DEF NoRow, Rows
    <3> QED
      BY <2>1, <3>1, <3>2
  <2> HIDE DEF row
  <2>4. /\ didit' \in Seq({"going"} \cup Final) /\ s \in DOMAIN didit'
        /\ DOMAIN didit \subseteq DOMAIN didit' /\ \A e \in DOMAIN didit : didit'[e] = didit[e]
    BY <2>1, <2>2
  <2>5. IrIdsInv' /\ ResultsInv'
    BY <1>2, <2>2, <2>3, <2>4, RowIsWritten DEF Final
  <2> QED
    BY <1>4, <1>6, <2>5, IdentityPartsNext
<1> QED
  BY <1>7, <1>8

\* A decision that takes effect is told next.
LEMMA DecisionCounts ==
  ASSUME IdentityInv, NEW w \in Workers, OnlyMoves(w), pc[w] \in {"approve", "reject"},
         pc'[w] = "tell", job'[w] = job[w], UNCHANGED <<told, faults>>,
         NEW d \in Distributors, d = job[w].acct,
         decided' = [decided EXCEPT ![d] = decided[d] + 1]
  PROVE  DecisionsAreToldOnce'
<1>1. ASSUME NEW e \in Distributors PROVE ToldOnce(e)'
  <2>1. /\ told[e] \in Nat /\ decided[e] \in Nat /\ faults \in Nat /\ ToldOnce(e)
        /\ decided'[e] = IF e = d THEN decided[e] + 1 ELSE decided[e]
    BY DecisionValues
  <2>2. w \notin Telling(e) /\ (w \in Telling(e)' <=> e = d)
    BY DEF Telling
  <2>3. /\ Cardinality(Telling(e)) \in Nat
        /\ Cardinality(Telling(e)') = IF e = d THEN Cardinality(Telling(e)) + 1
                                              ELSE Cardinality(Telling(e))
    BY <2>2, TellersMove
  <2> QED
    BY <2>1, <2>3 DEF ToldOnce
<1> QED
  BY <1>1, ToldOnceIsItNext

LEMMA ApproveKycSound ==
  ASSUME IdentityInv, NEW w \in Workers, ApproveKyc(w) PROVE IdentityInv'
<1>1. SignInInv
  BY IdentityParts
<1>2. /\ pc[w] = "approve"
      /\ UNCHANGED <<accountVars, phoneVars, session>> /\ UNCHANGED faults
      /\ UNCHANGED <<didit, verification, told>>
  BY DEF ApproveKyc
<1> PICK d \in Distributors : d = job[w].acct
  BY <1>1, <1>2, AccountsBefore DEF AboutDistributor
<1>3. CASE HasDecision(d) \/ NextNumber(w) > LastNumber
  <2>1. Done(w) /\ UNCHANGED <<kyc, irId, nextNumber, decided>>
    BY <1>3 DEF ApproveKyc, NothingNew
  <2>2. OnlyMoves(w) /\ pc'[w] = "idle" /\ UNCHANGED served
    BY <1>1, <2>1, DoneMoves
  <2>3. MovesSoundly(w)
    BY <1>2, <2>2, KycMoves DEF MovesSoundly
  <2>4. UNCHANGED kycVars
    BY <1>2, <2>1 DEF kycVars
  <2> QED
    BY <2>3, <2>4, RestedSoundly
<1>4. CASE ~(HasDecision(d) \/ NextNumber(w) > LastNumber)
  <2>1. /\ nextNumber' = nextNumber + 1
        /\ irId' = [irId EXCEPT ![d] = nextNumber]
        /\ kyc' = [kyc EXCEPT ![d] = "approved"]
        /\ decided' = [decided EXCEPT ![d] = decided[d] + 1]
        /\ Continue(w, "tell")
        /\ ~(nextNumber > LastNumber)
    BY <1>4 DEF ApproveKyc, NextNumber
  <2>2. OnlyMoves(w) /\ pc'[w] = "tell" /\ job'[w] = job[w] /\ UNCHANGED served
    BY <1>1, <2>1, ContinueMoves DEF Steps
  <2>3. SignInInv'
    BY <1>2, <2>2, KycMoves
  <2>4. DecisionsAreToldOnce'
    BY <1>2, <2>1, <2>2, DecisionCounts
  <2>5. IrIdsInv /\ irId[d] = 0 /\ kyc[d] # "approved"
    BY <1>4, IdentityParts DEF HasDecision
  <2>6. KycTypes'
    BY <1>2, <2>1, <2>5, IdentityAssumption DEF IrIdsInv, KycTypes
  <2>7. /\ irId'[d] = nextNumber /\ kyc'[d] = "approved"
        /\ \A e \in Distributors : e # d => irId'[e] = irId[e] /\ kyc'[e] = kyc[e]
        /\ \A e \in Distributors : irId[e] \in Nat /\ irId[e] < nextNumber
        /\ nextNumber \in Nat
    BY <2>1, <2>5, IdentityAssumption DEF IrIdsInv, KycTypes, IrIdsAreSound
  <2>8. IrIdsAreSound'
    BY <2>1, <2>5, <2>7 DEF IrIdsInv, IrIdsAreSound
  <2>9. ResultsInv'
    BY <1>2, IdentityParts DEF ResultsInv, ResultIsOfItsSession, SessionsAreKnown
  <2> QED
    BY <2>3, <2>4, <2>6, <2>8, <2>9, IdentityPartsNext DEF IrIdsInv
<1> QED
  BY <1>3, <1>4

LEMMA RejectKycSound ==
  ASSUME IdentityInv, NEW w \in Workers, RejectKyc(w) PROVE IdentityInv'
<1>1. SignInInv
  BY IdentityParts
<1>2. /\ pc[w] = "reject"
      /\ UNCHANGED <<accountVars, phoneVars, session>> /\ UNCHANGED faults
      /\ UNCHANGED <<irId, nextNumber, didit, verification, told>>
  BY DEF RejectKyc
<1> PICK d \in Distributors : d = job[w].acct
  BY <1>1, <1>2, AccountsBefore DEF AboutDistributor
<1>3. CASE kyc[d] = "approved"
  <2>1. Done(w) /\ UNCHANGED <<kyc, decided>>
    BY <1>3 DEF RejectKyc, NothingNew
  <2>2. OnlyMoves(w) /\ pc'[w] = "idle" /\ UNCHANGED served
    BY <1>1, <2>1, DoneMoves
  <2>3. MovesSoundly(w)
    BY <1>2, <2>2, KycMoves DEF MovesSoundly
  <2>4. UNCHANGED kycVars
    BY <1>2, <2>1 DEF kycVars
  <2> QED
    BY <2>3, <2>4, RestedSoundly
<1>4. CASE kyc[d] # "approved"
  <2>1. /\ kyc' = [kyc EXCEPT ![d] = "rejected"]
        /\ decided' = [decided EXCEPT ![d] = decided[d] + 1]
        /\ Continue(w, "tell")
    BY <1>4 DEF RejectKyc
  <2>2. OnlyMoves(w) /\ pc'[w] = "tell" /\ job'[w] = job[w] /\ UNCHANGED served
    BY <1>1, <2>1, ContinueMoves DEF Steps
  <2>3. SignInInv'
    BY <1>2, <2>2, KycMoves
  <2>4. DecisionsAreToldOnce'
    BY <1>2, <2>1, <2>2, DecisionCounts
  <2>5. IrIdsInv
    BY IdentityParts
  <2>6. KycTypes'
    BY <1>2, <2>1, <2>5 DEF IrIdsInv, KycTypes
  <2>7. IrIdsAreSound'
    BY <1>2, <1>4, <2>1, <2>5 DEF IrIdsInv, KycTypes, IrIdsAreSound
  <2>8. ResultsInv'
    BY <1>2, IdentityParts DEF ResultsInv, ResultIsOfItsSession, SessionsAreKnown
  <2> QED
    BY <2>3, <2>4, <2>6, <2>7, <2>8, IdentityPartsNext DEF IrIdsInv
<1> QED
  BY <1>3, <1>4

\* A decision is told, or lost to a failure that is counted.
LEMMA TellSound ==
  ASSUME IdentityInv, NEW w \in Workers, Tell(w) PROVE IdentityInv'
<1>1. SignInInv
  BY IdentityParts
<1>2. /\ pc[w] = "tell" /\ Done(w)
      /\ UNCHANGED <<accountVars, phoneVars, session>>
      /\ UNCHANGED <<kyc, irId, nextNumber, didit, verification, decided>>
      /\ Fault \/ UNCHANGED faults
  BY DEF Tell
<1> PICK d \in Distributors : d = job[w].acct
  BY <1>1, <1>2, AccountsBefore DEF AboutDistributor
<1>3. OnlyMoves(w) /\ pc'[w] = "idle" /\ UNCHANGED served
  BY <1>1, <1>2, DoneMoves
<1>4. SignInInv' /\ faults <= faults' /\ faults' \in Nat
  BY <1>2, <1>3, KycMoves
<1>5. /\ told \in [Distributors -> Nat] /\ faults \in Nat
      /\ \A e \in Distributors : told[e] \in Nat /\ decided[e] \in Nat /\ ToldOnce(e)
  BY DecisionValues
<1>6. \/ told' = [told EXCEPT ![d] = told[d] + 1] /\ faults' = faults
      \/ told' = told /\ faults' = faults + 1
  BY DEF Tell, Fault
<1>7. ASSUME NEW e \in Distributors PROVE ToldOnce(e)'
  <2>1. (w \in Telling(e) <=> e = d) /\ w \notin Telling(e)'
    BY <1>2, <1>3 DEF Telling
  <2>2. /\ Cardinality(Telling(e)) \in Nat /\ Cardinality(Telling(e)') \in Nat
        /\ Cardinality(Telling(e)') = IF e = d THEN Cardinality(Telling(e)) - 1
                                              ELSE Cardinality(Telling(e))
    BY <1>3, <2>1, TellersMove
  <2> QED
    BY <1>2, <1>5, <1>6, <2>2 DEF ToldOnce
<1>8. told' \in [Distributors -> Nat]
  BY <1>5, <1>6
<1>9. IrIdsInv' /\ ResultsInv'
  BY <1>2, <1>8, IdentityParts
     DEF IrIdsInv, KycTypes, IrIdsAreSound, ResultsInv, ResultIsOfItsSession, SessionsAreKnown
<1> QED
  BY <1>4, <1>7, <1>9, ToldOnceIsItNext, IdentityPartsNext

-----------------------------------------------------------------------------
(* The theorems.                                                            *)

LEMMA NextKeepsIdentity == IdentityInv /\ [Next]_vars => IdentityInv'
<1> SUFFICES ASSUME IdentityInv, [Next]_vars PROVE IdentityInv'
  OBVIOUS
<1>1. CASE SignInNext /\ UNCHANGED kycVars
  BY <1>1, SignInKeepsIdentity
<1>2. CASE \E w \in Workers : KycStep(w)
  BY <1>2, BegunKycSound, SessionStartsSound, ApproveKycSound, RejectKycSound, TellSound
     DEF KycStep
<1>3. CASE \E s \in DOMAIN didit : DiditDecides(s) \/ ConsumeResult(s)
  BY <1>3, DiditKeepsIdentity, ConsumeKeepsIdentity
<1>4. CASE UNCHANGED vars
  <2>1. UNCHANGED signInVars
        /\ UNCHANGED <<kyc, irId, nextNumber, didit, verification, decided, told>>
    BY <1>4 DEF vars, kycVars
  <2> QED
    BY <2>1, SignInRests, KycRests, IdentityPartsNext
<1> QED
  BY <1>1, <1>2, <1>3, <1>4 DEF Next

LEMMA InitIsSound == Init => IdentityInv
<1> SUFFICES ASSUME Init PROVE IdentityInv
  OBVIOUS
<1>1. /\ lock = [a \in Accounts |-> "none"]
      /\ attempts = [a \in Accounts |-> 0] /\ wrong = [a \in Accounts |-> 0]
      /\ lockings = [a \in Admins |-> 0] /\ alerts = [a \in Admins |-> 0] /\ unsent = [a \in Admins |-> 0]
      /\ proven = [d \in Distributors |-> d \in ProvenBefore] /\ codes = <<>>
      /\ queued = [d \in Distributors |-> 0] /\ served = 0 /\ faults = 0
      /\ pc = [w \in Workers |-> "idle"] /\ job = [w \in Workers |-> NoJob]
      /\ session \in [Browsers -> {[NoSession EXCEPT !.user = u] : u \in ProvenBefore \cup {NoOne}}]
  BY DEF Init, SignInInit
<1>2. Cardinality(Refused) = 0 /\ \A a \in Admins : Cardinality(Alerting(a)) = 0
  <2>1. Refused = {} /\ \A a \in Admins : Alerting(a) = {}
    BY <1>1 DEF Refused, Alerting
  <2> QED
    BY <2>1, FS_EmptySet
<1>3. PasswordsAreCounted
  BY <1>1, <1>2, SignInAssumption DEF PasswordsAreCounted
<1>4. LocksAreCounted
  BY <1>1, <1>2, SignInAssumption DEF LocksAreCounted
<1>5. RequestsAreSound
  <2>1. \A u \in ProvenBefore \cup {NoOne} : [NoSession EXCEPT !.user = u] \in Sessions
    BY SignInAssumption DEF NoSession, Sessions, Accounts
  <2>2. session \in [Browsers -> Sessions]
    BY <1>1, <2>1
  <2>3. WorkTypeOK
    BY <1>1, EmptyValues DEF WorkTypeOK, Steps
  <2> QED
    BY <1>1, <2>2, <2>3, SignInAssumption DEF RequestsAreSound
<1>6. CodesAreSound
  <2>1. /\ codes \in Seq(CodeRows) /\ DOMAIN codes = {}
    BY <1>1
  <2>2. \A w \in Workers : pc[w] = "idle"
    BY <1>1
  <2>3. \A w \in Workers : HasItsJob(w)
    BY <2>2 DEF HasItsJob, AboutDistributor, AboutAdmin, UsesCode, Sending
  <2>4. CodesAreSent
    BY <2>1, <2>2 DEF CodesAreSent, Sending
  <2>5. PhoneProvenByText
    BY <1>1 DEF PhoneProvenByText
  <2>6. proven \in [Distributors -> BOOLEAN]
    BY <1>1
  <2> QED
    BY <2>1, <2>3, <2>4, <2>5, <2>6 DEF CodesAreSound
<1>7. /\ kyc = [d \in Distributors |-> "pending"] /\ irId = [d \in Distributors |-> 0]
      /\ nextNumber = FirstNumber /\ didit = <<>>
      /\ verification = [d \in Distributors |-> NoRow]
      /\ decided = [d \in Distributors |-> 0] /\ told = [d \in Distributors |-> 0]
  BY DEF Init
<1>8. IrIdsInv
  BY <1>7, IdentityAssumption DEF IrIdsInv, KycTypes, IrIdsAreSound
<1>9. ResultsInv
  <2>1. \A d \in Distributors : verification[d] = NoRow /\ NoRow.status \notin Final
    BY <1>7 DEF NoRow, Final
  <2> QED
    BY <2>1 DEF ResultsInv, ResultIsOfItsSession, SessionsAreKnown
<1>10. DecisionsAreToldOnce
  <2>1. \A d \in Distributors : Cardinality(Telling(d)) = 0
    <3>1. \A d \in Distributors : Telling(d) = {}
      BY <1>1 DEF Telling
    <3> QED
      BY <3>1, FS_EmptySet
  <2>2. \A d \in Distributors : ToldOnce(d)
    BY <1>1, <1>7, <2>1 DEF ToldOnce
  <2> QED
    BY <2>2, ToldOnceIsIt
<1> QED
  BY <1>3, <1>4, <1>5, <1>6, <1>8, <1>9, <1>10, ThreeParts, IdentityParts DEF AccountsAreSound

\* What was asked of sign-in and identity verification is inductive: it stands in
\* every state, whoever signs in and whatever fails.
THEOREM IdentityInvHolds == AccessSpec => []IdentityInv
<1>1. AccessInit => IdentityInv
  BY InitIsSound DEF AccessInit
<1>2. IdentityInv /\ [AccessNext]_accessVars => IdentityInv'
  <2> SUFFICES ASSUME IdentityInv, [AccessNext]_accessVars PROVE IdentityInv'
    OBVIOUS
  <2>1. [Next]_vars
    BY DEF AccessNext, accessVars, vars
  <2> QED
    BY <2>1, NextKeepsIdentity
<1> QED
  BY <1>1, <1>2, PTL DEF AccessSpec

\* No limit is passed, however requests overlap: MAX_FAILED_LOGIN_ATTEMPTS wrong
\* passwords lock an account, OTP_MAX_ATTEMPTS guesses use a code up, and one email
\* tells of each lock of an admin account.
THEOREM LimitsAlwaysHold == AccessSpec => []LimitsHold
<1>1. IdentityInv => LimitsHold
  BY DEF IdentityInv, SignInInv
<1> QED
  BY <1>1, IdentityInvHolds, PTL

\* The newest open code of a phone number is one that was sent or is being sent, and
\* a phone number counts as verified only by a registration code that was texted to it.
THEOREM CodesAlwaysProveThePhone == AccessSpec => []CodesProveThePhone
<1>1. IdentityInv => CodesProveThePhone
  <2> SUFFICES ASSUME IdentityInv PROVE CodesProveThePhone
    OBVIOUS
  <2>1. SignInInv /\ CodesAreSound
    BY IdentityParts, ThreeParts
  <2>2. ASSUME NEW otp, Open(otp) # {}
        PROVE  \/ codes[Newest(Open(otp))].via # "none"
               \/ \E w \in Workers : job[w].code = Newest(Open(otp))
    <3>1. Open(otp) \in SUBSET (DOMAIN codes)
      BY DEF Open
    <3> PICK c \in Open(otp) : c = Newest(Open(otp))
      BY <2>1, <2>2, <3>1, NewestIsOne
    <3>2. c \in DOMAIN codes /\ ~codes[c].gone
      BY DEF Open
    <3> QED
      BY <2>1, <3>2 DEF CodesAreSound, CodesAreSent
  <2>3. NewestCodeWasDelivered
    BY <2>2 DEF NewestCodeWasDelivered
  <2> QED
    BY <2>1, <2>3 DEF CodesProveThePhone, CodesAreSound
<1> QED
  BY <1>1, IdentityInvHolds, PTL

\* IR IDs are given out once and never to two, and the result an admin sees was
\* reached in the session on record.
THEOREM IdentityIsAlwaysSound == AccessSpec => []IdentityIsSound
<1>1. IdentityInv => IdentityIsSound
  BY DEF IdentityInv
<1> QED
  BY <1>1, IdentityInvHolds, PTL

\* A distributor hears once of each decision that took effect, or a failure to store
\* the notification was counted.
THEOREM DecisionsAreAlwaysToldOnce == AccessSpec => []DecisionsAreToldOnce
<1>1. IdentityInv => DecisionsAreToldOnce
  BY DEF IdentityInv
<1> QED
  BY <1>1, IdentityInvHolds, PTL

-----------------------------------------------------------------------------
(* The settings stand, for every number of pages, payout days and amounts,  *)
(* however many saves overlap, die or lose rows.                            *)

\* Three settings, each with its turn.
LEMMA SaveTurns ==
  /\ Cardinality(Keys) = 3
  /\ \A i \in 1..3 : SaveOrder[i] \in Keys
  /\ \A k \in Keys : \E i \in 1..3 : SaveOrder[i] = k
  /\ \A i, j \in 1..3 : SaveOrder[i] = SaveOrder[j] => i = j
  /\ "none" \notin Keys
<1> DEFINE A == {} \cup {"WITHDRAWAL_DAY"}
           B == A \cup {"MIN_WITHDRAWAL_AMOUNT"}
           C == B \cup {"MAX_WITHDRAWAL_AMOUNT"}
<1>1. IsFiniteSet(A) /\ Cardinality(A) = 1
  <2>1. IsFiniteSet({}) /\ Cardinality({}) = 0
    BY FS_EmptySet
  <2> QED
    BY <2>1, FS_AddElement
<1>2. "MIN_WITHDRAWAL_AMOUNT" \notin A
  OBVIOUS
<1>3. IsFiniteSet(B) /\ Cardinality(B) = 2
  <2> HIDE DEF A
  <2> QED
    BY <1>1, <1>2, FS_AddElement
<1>4. "MAX_WITHDRAWAL_AMOUNT" \notin B
  OBVIOUS
<1>5. Cardinality(C) = 3
  <2> HIDE DEF B
  <2> QED
    BY <1>3, <1>4, FS_AddElement
<1>6. Keys = C
  BY DEF Keys
<1>7. /\ SaveOrder[1] = "WITHDRAWAL_DAY" /\ SaveOrder[2] = "MIN_WITHDRAWAL_AMOUNT"
      /\ SaveOrder[3] = "MAX_WITHDRAWAL_AMOUNT"
  BY DEF SaveOrder
<1>8. \A i \in 1..3 : i = 1 \/ i = 2 \/ i = 3
  OBVIOUS
<1>9. Cardinality(Keys) = 3
  BY <1>5, <1>6
<1>10. /\ \A i \in 1..3 : SaveOrder[i] \in Keys
       /\ \A k \in Keys : \E i \in 1..3 : SaveOrder[i] = k
       /\ \A i, j \in 1..3 : SaveOrder[i] = SaveOrder[j] => i = j
       /\ "none" \notin Keys
  <2> HIDE DEF C
  <2> QED
    BY <1>7, <1>8 DEF Keys
<1> QED
  BY <1>9, <1>10

PageRows == [at : 0 .. 3, base : Forms, form : Forms, alone : BOOLEAN,
             untold : Keys \cup {"none"}]

\* Nothing is lost by taking out what is not there.
LEMMA Without == \A S, x : x \notin S => S \ {x} = S
OBVIOUS

\* What the type invariant says of a page.
LEMMA PageTypes ==
  ASSUME SettingsTypeOK
  PROVE  /\ value \in Forms /\ newest \in Forms /\ doubtful \subseteq Keys
         /\ torn \in BOOLEAN /\ page \in [Pages -> PageRows]
         /\ \A p \in Pages :
              /\ page[p].at \in 0 .. 3 /\ page[p].base \in Forms /\ page[p].form \in Forms
              /\ page[p].alone \in BOOLEAN /\ page[p].untold \in Keys \cup {"none"}
<1>1. /\ value \in Forms /\ newest \in Forms /\ doubtful \subseteq Keys
      /\ torn \in BOOLEAN /\ page \in [Pages -> PageRows]
  BY SaveTurns DEF SettingsTypeOK, PageRows
<1>2. \A p \in Pages : page[p] \in PageRows
  BY <1>1
<1> HIDE DEF SettingsTypeOK
<1>3. \A row \in PageRows :
        /\ row.at \in 0 .. 3 /\ row.base \in Forms /\ row.form \in Forms
        /\ row.alone \in BOOLEAN /\ row.untold \in Keys \cup {"none"}
  BY DEF PageRows
<1> QED
  BY <1>1, <1>2, <1>3

\* A page as it is opened.
LEMMA ClosedPage ==
  ASSUME value \in Forms
  PROVE  /\ Closed \in PageRows /\ Closed.at = 0 /\ Closed.untold = "none"
         /\ Closed.base = value /\ Closed.form = value
BY DEF Closed, PageRows

\* A page that is not saving owes nothing.
LEMMA RestOwesNothing ==
  ASSUME SettingsInv, NEW p \in Pages, ~Saving(p)
  PROVE  page[p].untold = "none" /\ \A k \in Keys : p \notin Pending(k)
BY SaveTurns DEF SettingsInv, SavesAreChecked, Pending

\* The setting that a save is at.
LEMMA SavingAt ==
  ASSUME SettingsInv, NEW p \in Pages, Saving(p)
  PROVE  page[p].at \in 1 .. 3 /\ SaveOrder[page[p].at] \in Keys
<1>1. page[p].at \in 0 .. 3
  BY PageTypes DEF SettingsInv
<1>2. page[p].at \in 1 .. 3
  BY <1>1 DEF Saving
<1> QED
  BY <1>2, SaveTurns

\* After the last setting, all of them are passed; and in general one more.
LEMMA OnePassedMore ==
  ASSUME SettingsInv, NEW p \in Pages, Saving(p), NEW k \in Keys
  PROVE  k \in Passed(p) <=>
           \/ \E i \in 1 .. (page[p].at - 1) : k = SaveOrder[i]
           \/ k = SaveOrder[page[p].at] /\ page[p].untold # "none"
BY SaveTurns, SavingAt DEF Passed, SettingsInv, SavesAreChecked

-----------------------------------------------------------------------------
(* What a step of a save does to the pages.                                 *)

\* One page changes.
LEMMA PageChanges ==
  ASSUME SettingsTypeOK, NEW p \in Pages, NEW row \in PageRows, page' = [page EXCEPT ![p] = row]
  PROVE  /\ page' \in [Pages -> PageRows] /\ page'[p] = row
         /\ \A q \in Pages \ {p} : page'[q] = page[q]
         /\ \A k \in Keys : Pending(k)' = IF row.untold = k THEN Pending(k) \cup {p} ELSE Pending(k) \ {p}
<1>1. page \in [Pages -> PageRows]
  BY PageTypes
<1>2. /\ page' \in [Pages -> PageRows] /\ page'[p] = row
      /\ \A q \in Pages \ {p} : page'[q] = page[q]
  BY <1>1
<1> QED
  BY <1>2 DEF Pending

\* A save that is alone is the only one.
LEMMA OnlyOneAlone ==
  ASSUME SettingsInv, NEW p \in Pages, NEW q \in Pages, Saving(p), Saving(q), page[q].alone
  PROVE  q = p
BY DEF SettingsInv, AloneMeansAlone, Saves

\* The parts of the invariant that do not speak of the trail.
SavesInv == SavesAreChecked /\ AloneMeansAlone /\ OthersTear /\ BoundsStand

\* A save that is through with a setting goes on, or is done.
LEMMA ProceedKeeps ==
  ASSUME SettingsInv, NEW p \in Pages, Saving(p), Proceed(p), value' = value,
         page[p].alone => value[SaveOrder[page[p].at]] = page[p].form[SaveOrder[page[p].at]]
  PROVE  /\ page' \in [Pages -> PageRows] /\ torn' \in BOOLEAN
         /\ SavesInv'
         /\ \A k \in Keys : Pending(k)' = Pending(k) \ {p}
<1> DEFINE last == page[p].at = Cardinality(Keys)
           more == [page[p] EXCEPT !.at = page[p].at + 1, !.untold = "none"]
<1>1. /\ page[p].at \in 1 .. 3 /\ page[p] \in PageRows /\ torn \in BOOLEAN
      /\ SettingsTypeOK
      /\ page[p].alone \in BOOLEAN /\ value \in Forms
  BY SavingAt, PageTypes DEF SettingsInv
<1>2. /\ page' = [page EXCEPT ![p] = IF last THEN Closed ELSE more]
      /\ torn' = (torn /\ ~(last /\ page[p].alone))
  BY DEF Proceed
<1>3. Clean(page[p].form) /\ InBounds(page[p].form)
  BY DEF SettingsInv, SavesAreChecked
<1>4. CASE last
  <2>1. Closed \in PageRows /\ Closed.at = 0 /\ Closed.untold = "none"
    BY <1>1, ClosedPage
  <2>2. /\ page' \in [Pages -> PageRows] /\ page'[p] = Closed
        /\ \A q \in Pages \ {p} : page'[q] = page[q]
        /\ \A k \in Keys : Pending(k)' = IF Closed.untold = k THEN Pending(k) \cup {p} ELSE Pending(k) \ {p}
    BY <1>1, <1>2, <1>4, <2>1, PageChanges
  <2>3. \A k \in Keys : Pending(k)' = Pending(k) \ {p}
    BY <2>1, <2>2, SaveTurns
  <2>4. /\ ~Saving(p)'
        /\ \A q \in Pages \ {p} : Saving(q)' = Saving(q) /\ page'[q] = page[q]
    BY <2>1, <2>2 DEF Saving
  <2>5. SavesAreChecked'
    BY <2>1, <2>2, <2>4 DEF SettingsInv, SavesAreChecked
  <2>6. \A q \in Pages : Saving(q)' => ~page[q].alone
    BY <2>4, OnlyOneAlone
  <2>7. AloneMeansAlone'
    BY <2>4, <2>6 DEF AloneMeansAlone
  <2>8. ~torn' => page[p].alone
    BY <1>2 DEF SettingsInv, OthersTear
  <2>9. OthersTear'
    BY <2>4, <2>8, OnlyOneAlone DEF OthersTear, SettingsInv, AloneMeansAlone, Saves
  <2>10. ASSUME page[p].alone PROVE InBounds(value)
    <3>1. page[p].at = 3
      BY <1>4, SaveTurns
    <3>2. \A i \in 1..2 : SaveOrder[i] \in Passed(p)
      BY <3>1 DEF Passed
    <3>3. \A i \in 1..2 : value[SaveOrder[i]] = page[p].form[SaveOrder[i]]
      BY <2>10, <3>2, SaveTurns DEF SettingsInv, AloneMeansAlone
    <3>4. value[SaveOrder[3]] = page[p].form[SaveOrder[3]]
      BY <2>10, <3>1
    <3>5. /\ value[SaveOrder[2]] = page[p].form[SaveOrder[2]]
          /\ SaveOrder[2] = "MIN_WITHDRAWAL_AMOUNT" /\ SaveOrder[3] = "MAX_WITHDRAWAL_AMOUNT"
      BY <3>3 DEF SaveOrder
    <3> QED
      BY <1>3, <3>4, <3>5 DEF InBounds
  <2>11. BoundsStand'
    BY <2>8, <2>10 DEF BoundsStand, InBounds
  <2> QED
    BY <1>1, <1>2, <2>2, <2>3, <2>5, <2>7, <2>9, <2>11 DEF SavesInv
<1>5. CASE ~last
  <2>1. page[p].at \in 1 .. 2
    BY <1>1, <1>5, SaveTurns
  <2>2. /\ more \in PageRows /\ more.at = page[p].at + 1 /\ more.untold = "none"
        /\ more.form = page[p].form /\ more.base = page[p].base /\ more.alone = page[p].alone
    <3>1. page[p].at + 1 \in 0 .. 3
      BY <2>1
    <3> QED
      BY <1>1, <3>1 DEF PageRows
  <2> HIDE DEF more
  <2>3. /\ page' \in [Pages -> PageRows] /\ page'[p] = more
        /\ \A q \in Pages \ {p} : page'[q] = page[q]
        /\ \A k \in Keys : Pending(k)' = IF more.untold = k THEN Pending(k) \cup {p} ELSE Pending(k) \ {p}
    BY <1>1, <1>2, <1>5, <2>2, PageChanges
  <2>4. \A k \in Keys : Pending(k)' = Pending(k) \ {p}
    BY <2>2, <2>3, SaveTurns
  <2>5. Saving(p)' /\ \A q \in Pages : Saving(q)' = Saving(q) /\ page'[q].alone = page[q].alone
    BY <2>1, <2>2, <2>3 DEF Saving
  <2>6. Saves' = Saves
    BY <2>5 DEF Saves
  <2>7. SavesAreChecked'
    BY <1>3, <2>2, <2>3, <2>5 DEF SettingsInv, SavesAreChecked
  <2>8. AloneMeansAlone'
    <3> SUFFICES ASSUME NEW q \in Pages, Saving(q), page[q].alone
                 PROVE  /\ Saves = {q}
                        /\ \A k \in Keys : value[k] = IF k \in Passed(q)' THEN page'[q].form[k]
                                                                        ELSE page'[q].base[k]
      BY <2>5, <2>6 DEF AloneMeansAlone
    <3>1. q = p /\ Saves = {q}
      BY OnlyOneAlone DEF SettingsInv, AloneMeansAlone
    <3>2. ASSUME NEW k \in Keys
          PROVE  k \in Passed(p)' <=> k \in Passed(p) \/ k = SaveOrder[page[p].at]
      <4>1. \A i \in 1 .. page[p].at : i \in 1 .. (page[p].at - 1) \/ i = page[p].at
        BY <2>1
      <4>2. page[p].at \in 1 .. page[p].at /\ 1 .. (page[p].at - 1) \subseteq 1 .. page[p].at
        BY <2>1
      <4>3. k \in Passed(p)' <=> \E i \in 1 .. page[p].at : k = SaveOrder[i]
        <5>1. page'[p].at - 1 = page[p].at /\ page'[p].untold = "none"
          BY <2>1, <2>2, <2>3
        <5> QED
          BY <5>1 DEF Passed
      <4> QED
        BY <4>1, <4>2, <4>3, OnePassedMore
    <3>3. \A k \in Keys : value[k] = IF k \in Passed(p) THEN page[p].form[k] ELSE page[p].base[k]
      BY <3>1 DEF SettingsInv, AloneMeansAlone
    <3> QED
      BY <2>2, <2>3, <3>1, <3>2, <3>3
  <2>9. torn' = torn
    BY <1>1, <1>2, <1>5
  <2>10. OthersTear' /\ BoundsStand'
    BY <2>5, <2>6, <2>9 DEF SettingsInv, OthersTear, BoundsStand, InBounds
  <2> QED
    BY <1>1, <2>3, <2>4, <2>7, <2>8, <2>9, <2>10 DEF SavesInv
<1> QED
  BY <1>4, <1>5

-----------------------------------------------------------------------------
(* The actions, one by one.                                                 *)

\* The trail is as right as it was when neither it nor the settings change, and
\* only doubtful settings are owed less.
LEMMA TrailKeeps ==
  ASSUME SettingsInv, UNCHANGED <<value, newest>>, doubtful \subseteq doubtful',
         NEW p \in Pages,
         \A k \in Keys \ doubtful' : Pending(k)' = Pending(k) /\ p \notin Pending(k),
         \A q \in Pages \ {p} : page'[q].form = page[q].form
  PROVE  TrailWillBeRight' /\ TrailIsRight'
<1>1. \A k \in Keys : Pending(k) \subseteq Pages
  BY DEF Pending
<1>2. TrailIsRight'
  BY DEF SettingsInv, TrailIsRight
<1>3. TrailWillBeRight'
  BY <1>1 DEF SettingsInv, TrailWillBeRight
<1> QED
  BY <1>2, <1>3

LEMMA OpenKeeps ==
  ASSUME SettingsInv, NEW p \in Pages, OpenSettings(p) PROVE SettingsInv'
<1>1. /\ ~Saving(p) /\ page' = [page EXCEPT ![p] = Closed]
      /\ UNCHANGED <<value, newest, torn, doubtful>> /\ SettingsTypeOK
  BY DEF OpenSettings, SettingsInv
<1>2. Closed \in PageRows /\ Closed.at = 0 /\ Closed.untold = "none"
  BY <1>1, PageTypes, ClosedPage
<1>3. /\ page' \in [Pages -> PageRows] /\ page'[p] = Closed
      /\ \A q \in Pages \ {p} : page'[q] = page[q]
      /\ \A k \in Keys : Pending(k)' = IF Closed.untold = k THEN Pending(k) \cup {p} ELSE Pending(k) \ {p}
  BY <1>1, <1>2, PageChanges
<1>4. \A k \in Keys : p \notin Pending(k) /\ Pending(k)' = Pending(k)
  <2>1. \A k \in Keys : p \notin Pending(k) /\ Pending(k)' = Pending(k) \ {p}
    BY <1>1, <1>2, <1>3, RestOwesNothing, SaveTurns
  <2> QED
    BY <2>1, Without
<1>5. ~Saving(p)' /\ \A q \in Pages : Saving(q)' = Saving(q)
  BY <1>1, <1>2, <1>3 DEF Saving
<1>6. Saves' = Saves
  BY <1>5 DEF Saves
<1>7. SettingsTypeOK'
  BY <1>1, <1>3, SaveTurns DEF SettingsTypeOK, PageRows
<1>8. SavesAreChecked'
  BY <1>2, <1>3, <1>5 DEF SettingsInv, SavesAreChecked
<1>9. AloneMeansAlone'
  BY <1>1, <1>3, <1>5, <1>6 DEF SettingsInv, AloneMeansAlone, Passed
<1>10. OthersTear' /\ BoundsStand'
  BY <1>1, <1>3, <1>5, <1>6 DEF SettingsInv, OthersTear, BoundsStand, InBounds
<1>11. TrailWillBeRight' /\ TrailIsRight'
  BY <1>1, <1>3, <1>4, TrailKeeps
<1> QED
  BY <1>7, <1>8, <1>9, <1>10, <1>11 DEF SettingsInv

LEMMA SubmitKeeps ==
  ASSUME SettingsInv, NEW p \in Pages, NEW form \in Forms, SubmitPage(p, form)
  PROVE  SettingsInv'
<1> DEFINE sent == [at |-> 1, base |-> page[p].base, form |-> form, alone |-> Saves = {},
                    untold |-> "none"]
<1>1. /\ ~Saving(p) /\ page[p].base = value /\ Clean(form) /\ InBounds(form)
      /\ page' = [q \in Pages |-> IF q = p THEN sent ELSE [page[q] EXCEPT !.alone = FALSE]]
      /\ torn' = (torn \/ Saves # {})
      /\ UNCHANGED <<value, newest, doubtful>> /\ SettingsTypeOK
  BY DEF SubmitPage, Fresh, SettingsInv
<1>2. /\ page \in [Pages -> PageRows] /\ value \in Forms /\ torn \in BOOLEAN
      /\ page[p].untold = "none"
  BY <1>1, PageTypes, RestOwesNothing
<1>3. sent \in PageRows
  BY <1>2 DEF PageRows
<1>4. /\ sent \in PageRows /\ sent.at = 1 /\ sent.form = form /\ sent.alone = (Saves = {})
      /\ sent.base = page[p].base /\ sent.untold = page[p].untold
  BY <1>1, <1>2, <1>3
<1> HIDE DEF sent
<1>5. \A q \in Pages \ {p} : /\ page'[q] \in PageRows /\ page'[q].alone = FALSE
                             /\ page'[q].at = page[q].at /\ page'[q].form = page[q].form
                             /\ page'[q].base = page[q].base /\ page'[q].untold = page[q].untold
  <2> SUFFICES ASSUME NEW q \in Pages \ {p}
               PROVE  /\ page'[q] \in PageRows /\ page'[q].alone = FALSE
                      /\ page'[q].at = page[q].at /\ page'[q].form = page[q].form
                      /\ page'[q].base = page[q].base /\ page'[q].untold = page[q].untold
    OBVIOUS
  <2>1. page'[q] = [page[q] EXCEPT !.alone = FALSE] /\ page[q] \in PageRows
    BY <1>1, <1>2
  <2> QED
    BY <2>1 DEF PageRows
<1>6. page' \in [Pages -> PageRows] /\ page'[p] = sent
  <2>1. page'[p] = sent
    BY <1>1
  <2>2. \A q \in Pages : page'[q] \in PageRows
    BY <1>4, <1>5, <2>1
  <2> QED
    BY <1>1, <1>5, <2>1, <2>2
<1>7. \A q \in Pages : page'[q].untold = page[q].untold
  BY <1>4, <1>5, <1>6
<1>8. \A k \in Keys : Pending(k)' = Pending(k) /\ p \notin Pending(k)
  BY <1>1, <1>7, RestOwesNothing DEF Pending
<1>9. Saving(p)' /\ \A q \in Pages \ {p} : Saving(q)' = Saving(q)
  BY <1>4, <1>5, <1>6 DEF Saving
<1>10. Saves' = Saves \cup {p}
  BY <1>9 DEF Saves
<1>11. SettingsTypeOK'
  BY <1>1, <1>2, <1>6, SaveTurns DEF SettingsTypeOK, PageRows
<1>12. SavesAreChecked'
  <2>1. \A q \in Pages \ {p} :
          /\ Saving(q)' => Clean(page'[q].form) /\ InBounds(page'[q].form)
          /\ page'[q].untold # "none" => Saving(q)' /\ page'[q].untold = SaveOrder[page'[q].at]
    BY <1>5, <1>9 DEF SettingsInv, SavesAreChecked
  <2>2. Clean(page'[p].form) /\ InBounds(page'[p].form) /\ page'[p].untold = "none"
    BY <1>1, <1>2, <1>4, <1>6
  <2> QED
    BY <2>1, <2>2 DEF SavesAreChecked, Clean, InBounds
<1>13. AloneMeansAlone'
  <2> SUFFICES ASSUME Saves = {}
               PROVE  /\ Saves' = {p}
                      /\ \A k \in Keys : value[k] = IF k \in Passed(p)' THEN page'[p].form[k]
                                                                      ELSE page'[p].base[k]
    <3>1. \A q \in Pages \ {p} : ~page'[q].alone
      BY <1>5
    <3>2. page'[p].alone = (Saves = {}) /\ value' = value
      BY <1>1, <1>4, <1>6
    <3> QED
      BY <3>1, <3>2 DEF AloneMeansAlone
  <2>1. page'[p].at - 1 = 0 /\ page'[p].untold = "none" /\ page'[p].base = value
    BY <1>1, <1>2, <1>4, <1>6
  <2>2. 1 .. 0 = {}
    OBVIOUS
  <2>3. Passed(p)' = {}
    BY <2>1, <2>2 DEF Passed
  <2> QED
    BY <1>10, <2>1, <2>3
<1>14. OthersTear' /\ BoundsStand'
  BY <1>1, <1>4, <1>6, <1>9, <1>10 DEF OthersTear, BoundsStand, Saves
<1>15. TrailWillBeRight' /\ TrailIsRight'
  BY <1>1, <1>5, <1>8, TrailKeeps
<1> QED
  BY <1>11, <1>12, <1>13, <1>14, <1>15 DEF SettingsInv

LEMMA KeepKeeps ==
  ASSUME SettingsInv, NEW p \in Pages, KeepSetting(p) PROVE SettingsInv'
<1>1. /\ Saving(p) /\ page[p].untold = "none" /\ Proceed(p)
      /\ value[SaveOrder[page[p].at]] = page[p].form[SaveOrder[page[p].at]]
      /\ UNCHANGED <<value, newest, doubtful>>
  BY DEF KeepSetting
<1>2. /\ page' \in [Pages -> PageRows] /\ torn' \in BOOLEAN /\ SavesInv'
      /\ \A k \in Keys : Pending(k)' = Pending(k) \ {p}
  BY <1>1, ProceedKeeps
<1>3. \A k \in Keys : p \notin Pending(k) /\ Pending(k)' = Pending(k)
  <2>1. \A k \in Keys : p \notin Pending(k)
    BY <1>1, SaveTurns DEF Pending
  <2> QED
    BY <1>2, <2>1, Without
<1>4. \A q \in Pages \ {p} : page'[q] = page[q]
  BY <1>1 DEF Proceed, SettingsInv, SettingsTypeOK
<1>5. SettingsTypeOK'
  BY <1>1, <1>2, PageTypes, SaveTurns DEF SettingsInv, SettingsTypeOK, PageRows
<1>6. TrailWillBeRight' /\ TrailIsRight'
  BY <1>1, <1>3, <1>4, TrailKeeps
<1> QED
  BY <1>2, <1>5, <1>6 DEF SettingsInv, SavesInv

LEMMA WriteKeeps ==
  ASSUME SettingsInv, NEW p \in Pages, WriteSetting(p) PROVE SettingsInv'
<1> DEFINE k == SaveOrder[page[p].at]
           owes == [page[p] EXCEPT !.untold = k]
<1>1. /\ Saving(p) /\ page[p].untold = "none"
      /\ value' = [value EXCEPT ![k] = page[p].form[k]]
      /\ page' = [page EXCEPT ![p] = owes]
      /\ doubtful' = IF Pending(k) = {} THEN doubtful ELSE doubtful \cup {k}
      /\ UNCHANGED <<newest, torn>> /\ SettingsTypeOK
  BY DEF WriteSetting, SettingsInv
<1>2. k \in Keys /\ page[p].at \in 1 .. 3
  BY <1>1, SavingAt
<1>3. /\ owes \in PageRows /\ owes.untold = k /\ owes.at = page[p].at
      /\ owes.form = page[p].form /\ owes.base = page[p].base /\ owes.alone = page[p].alone
  <2>1. page[p] \in PageRows
    BY <1>1, PageTypes
  <2> HIDE DEF k
  <2> QED
    BY <1>2, <2>1 DEF PageRows
<1> HIDE DEF owes
<1>4. /\ page' \in [Pages -> PageRows] /\ page'[p] = owes
      /\ \A q \in Pages \ {p} : page'[q] = page[q]
      /\ \A j \in Keys : Pending(j)' = IF owes.untold = j THEN Pending(j) \cup {p} ELSE Pending(j) \ {p}
  BY <1>1, <1>3, PageChanges
<1> PICK key \in Keys : key = k
  BY <1>2
<1> HIDE DEF k
<1>5. /\ value \in Forms /\ page[p].form \in Forms /\ Clean(page[p].form)
  BY <1>1, PageTypes DEF SettingsInv, SavesAreChecked
<1>6. /\ value' \in Forms /\ value'[key] = page[p].form[key]
      /\ \A j \in Keys \ {key} : value'[j] = value[j]
  BY <1>1, <1>5 DEF Forms
<1>7. \A j \in Keys : p \notin Pending(j)
  BY <1>1, SaveTurns DEF Pending
<1>8. Pending(key)' = Pending(key) \cup {p} /\ \A j \in Keys \ {key} : Pending(j)' = Pending(j)
  <2>1. /\ Pending(key)' = Pending(key) \cup {p}
        /\ \A j \in Keys \ {key} : Pending(j)' = Pending(j) \ {p}
    BY <1>3, <1>4
  <2> QED
    BY <1>7, <2>1, Without
<1>9. \A q \in Pages : Saving(q)' = Saving(q)
  BY <1>3, <1>4 DEF Saving
<1>10. Saves' = Saves /\ p \in Saves
  BY <1>1, <1>9 DEF Saves
<1>11. SettingsTypeOK'
  BY <1>1, <1>4, <1>6, SaveTurns DEF SettingsTypeOK, PageRows
<1>12. SavesAreChecked'
  BY <1>1, <1>3, <1>4, <1>9 DEF SettingsInv, SavesAreChecked, k
<1>13. AloneMeansAlone'
  <2> SUFFICES ASSUME NEW q \in Pages, Saving(q), page[q].alone
               PROVE  /\ Saves = {q}
                      /\ \A j \in Keys : value'[j] = IF j \in Passed(q)' THEN page'[q].form[j]
                                                                       ELSE page'[q].base[j]
    BY <1>3, <1>4, <1>9, <1>10 DEF AloneMeansAlone
  <2>1. q = p /\ Saves = {q}
    BY <1>1, OnlyOneAlone DEF SettingsInv, AloneMeansAlone
  <2>2. \A j \in Keys : value[j] = IF j \in Passed(p) THEN page[p].form[j] ELSE page[p].base[j]
    BY <1>1, <2>1 DEF SettingsInv, AloneMeansAlone
  <2>3. Passed(p)' = Passed(p) \cup {key}
    <3>1. key # "none"
      BY SaveTurns
    <3> QED
      BY <1>1, <1>3, <1>4, <3>1 DEF Passed
  <2> QED
    BY <1>3, <1>4, <1>6, <2>1, <2>2, <2>3
<1>14. OthersTear' /\ BoundsStand'
  BY <1>1, <1>3, <1>4, <1>9, <1>10 DEF SettingsInv, OthersTear, BoundsStand
<1>15. TrailWillBeRight'
  <2> SUFFICES ASSUME NEW j \in Keys \ doubtful', NEW q \in Pending(j)'
               PROVE  Pending(j)' = {q} /\ page'[q].form[j] = value'[j]
    BY DEF TrailWillBeRight
  <2>1. CASE j = key
    BY <1>1, <1>3, <1>4, <1>6, <1>8, <2>1
  <2>2. CASE j # key
    <3>1. j \in Keys \ doubtful /\ Pending(j)' = Pending(j) /\ q # p /\ q \in Pages
      BY <1>1, <1>7, <1>8, <2>2 DEF Pending
    <3> QED
      BY <1>4, <1>6, <2>2, <3>1 DEF SettingsInv, TrailWillBeRight
  <2> QED
    BY <2>1, <2>2
<1>16. TrailIsRight'
  <2> SUFFICES ASSUME NEW j \in Keys \ doubtful', Pending(j)' = {}
               PROVE  newest'[j] = value'[j]
    BY DEF TrailIsRight
  <2>1. j # key /\ j \in Keys \ doubtful
    BY <1>1, <1>8
  <2> QED
    BY <1>1, <1>6, <1>8, <2>1 DEF SettingsInv, TrailIsRight
<1> QED
  BY <1>11, <1>12, <1>13, <1>14, <1>15, <1>16 DEF SettingsInv

\* A save that owes a row writes it or loses it, and goes on.
LEMMA OwedIsSettled ==
  ASSUME SettingsInv, NEW p \in Pages, NEW key \in Keys, page[p].untold = key,
         Proceed(p), value' = value
  PROVE  /\ page' \in [Pages -> PageRows] /\ torn' \in BOOLEAN /\ SavesInv'
         /\ Pending(key)' = Pending(key) \ {p}
         /\ \A k \in Keys \ {key} : Pending(k)' = Pending(k) /\ p \notin Pending(k)
         /\ \A q \in Pages \ {p} : page'[q] = page[q]
<1>1. Saving(p) /\ key = SaveOrder[page[p].at]
  BY SaveTurns DEF SettingsInv, SavesAreChecked
<1>2. page[p].alone => value[key] = page[p].form[key]
  <2>1. key \in Passed(p)
    BY SaveTurns DEF Passed
  <2> QED
    BY <1>1, <2>1 DEF SettingsInv, AloneMeansAlone
<1>3. /\ page' \in [Pages -> PageRows] /\ torn' \in BOOLEAN /\ SavesInv'
      /\ \A k \in Keys : Pending(k)' = Pending(k) \ {p}
  BY <1>1, <1>2, ProceedKeeps
<1>4. \A k \in Keys \ {key} : p \notin Pending(k)
  BY DEF Pending
<1>5. \A k \in Keys \ {key} : Pending(k)' = Pending(k)
  BY <1>3, <1>4, Without
<1>6. \A q \in Pages \ {p} : page'[q] = page[q]
  BY DEF Proceed, SettingsInv, SettingsTypeOK
<1> QED
  BY <1>1, <1>3, <1>4, <1>5, <1>6

LEMMA RecordKeeps ==
  ASSUME SettingsInv, NEW p \in Pages, RecordChange(p) PROVE SettingsInv'
<1>0. page[p].untold \in Keys
  BY PageTypes DEF SettingsInv, RecordChange, RecordIsLost
<1> PICK key \in Keys : key = page[p].untold
  BY <1>0
<1>1. /\ Proceed(p) /\ value' = value
      /\ newest' = [newest EXCEPT ![key] = page[p].form[key]]
      /\ doubtful' = IF Pending(key) = {p} /\ page[p].form[key] = value[key]
                     THEN doubtful \ {key} ELSE doubtful
  BY DEF RecordChange
<1>2. /\ page' \in [Pages -> PageRows] /\ torn' \in BOOLEAN /\ SavesInv'
      /\ Pending(key)' = Pending(key) \ {p}
      /\ \A k \in Keys \ {key} : Pending(k)' = Pending(k) /\ p \notin Pending(k)
      /\ \A q \in Pages \ {p} : page'[q] = page[q]
  BY <1>1, OwedIsSettled
<1>3. /\ newest \in Forms /\ page[p].form \in Forms /\ value \in Forms /\ doubtful \subseteq Keys
  BY PageTypes DEF SettingsInv
<1>4. /\ newest' \in Forms /\ newest'[key] = page[p].form[key]
      /\ \A k \in Keys \ {key} : newest'[k] = newest[k]
  BY <1>1, <1>3 DEF Forms
<1>5. SettingsTypeOK'
  BY <1>1, <1>2, <1>3, <1>4, SaveTurns DEF SettingsTypeOK, PageRows
<1>6. key \notin doubtful' => Pending(key) = {p} /\ page[p].form[key] = value[key]
  <2>1. p \in Pending(key)
    BY DEF Pending
  <2> QED
    BY <1>1, <2>1 DEF SettingsInv, TrailWillBeRight
<1>7. key \notin doubtful' => Pending(key)' = {}
  BY <1>2, <1>6
<1>8. \A k \in Keys \ {key} : k \notin doubtful' => k \notin doubtful
  BY <1>1
<1>9. TrailWillBeRight'
  <2> SUFFICES ASSUME NEW k \in Keys \ doubtful', NEW q \in Pending(k)'
               PROVE  Pending(k)' = {q} /\ page'[q].form[k] = value'[k]
    BY DEF TrailWillBeRight
  <2>1. k # key /\ k \notin doubtful /\ q \in Pending(k) /\ q # p /\ q \in Pages
    BY <1>2, <1>7, <1>8 DEF Pending
  <2> QED
    BY <1>1, <1>2, <2>1 DEF SettingsInv, TrailWillBeRight
<1>10. TrailIsRight'
  <2> SUFFICES ASSUME NEW k \in Keys \ doubtful', Pending(k)' = {}
               PROVE  newest'[k] = value'[k]
    BY DEF TrailIsRight
  <2>1. CASE k = key
    BY <1>1, <1>4, <1>6, <2>1
  <2>2. CASE k # key
    BY <1>1, <1>2, <1>4, <1>8, <2>2 DEF SettingsInv, TrailIsRight
  <2> QED
    BY <2>1, <2>2
<1> QED
  BY <1>2, <1>5, <1>9, <1>10 DEF SettingsInv, SavesInv

LEMMA LossKeeps ==
  ASSUME SettingsInv, NEW p \in Pages, RecordIsLost(p) PROVE SettingsInv'
<1>0. page[p].untold \in Keys
  BY PageTypes DEF SettingsInv, RecordChange, RecordIsLost
<1> PICK key \in Keys : key = page[p].untold
  BY <1>0
<1>1. /\ Proceed(p)
      /\ UNCHANGED <<value, newest>> /\ doubtful' = doubtful \cup {key}
  BY DEF RecordIsLost
<1>2. /\ page' \in [Pages -> PageRows] /\ torn' \in BOOLEAN /\ SavesInv'
      /\ \A k \in Keys \ {key} : Pending(k)' = Pending(k) /\ p \notin Pending(k)
      /\ \A q \in Pages \ {p} : page'[q] = page[q]
  BY <1>1, OwedIsSettled
<1>3. SettingsTypeOK'
  BY <1>1, <1>2, PageTypes, SaveTurns DEF SettingsInv, SettingsTypeOK, PageRows
<1>4. TrailWillBeRight' /\ TrailIsRight'
  BY <1>1, <1>2, TrailKeeps
<1> QED
  BY <1>2, <1>3, <1>4 DEF SettingsInv, SavesInv

LEMMA DeathKeeps ==
  ASSUME SettingsInv, NEW p \in Pages, SaveDies(p) PROVE SettingsInv'
<1>1. /\ Saving(p) /\ page' = [page EXCEPT ![p] = Closed] /\ torn' = TRUE
      /\ doubtful' = doubtful \cup ({page[p].untold} \ {"none"})
      /\ UNCHANGED <<value, newest>> /\ SettingsTypeOK
  BY DEF SaveDies, SettingsInv
<1>2. Closed \in PageRows /\ Closed.at = 0 /\ Closed.untold = "none"
  BY <1>1, PageTypes, ClosedPage
<1>3. /\ page' \in [Pages -> PageRows] /\ page'[p] = Closed
      /\ \A q \in Pages \ {p} : page'[q] = page[q]
      /\ \A k \in Keys : Pending(k)' = IF Closed.untold = k THEN Pending(k) \cup {p} ELSE Pending(k) \ {p}
  BY <1>1, <1>2, PageChanges
<1>4. \A k \in Keys \ doubtful' : p \notin Pending(k) /\ Pending(k)' = Pending(k) \ {p}
  BY <1>1, <1>2, <1>3, SaveTurns DEF Pending
<1>5. \A k \in Keys \ doubtful' : Pending(k)' = Pending(k)
  BY <1>4, Without
<1>6. ~Saving(p)' /\ \A q \in Pages \ {p} : Saving(q)' = Saving(q)
  BY <1>2, <1>3 DEF Saving
<1>7. SettingsTypeOK'
  BY <1>1, <1>3, PageTypes, SaveTurns DEF SettingsTypeOK, PageRows
<1>8. SavesAreChecked'
  BY <1>2, <1>3, <1>6 DEF SettingsInv, SavesAreChecked
<1>9. AloneMeansAlone'
  BY <1>1, <1>3, <1>6, OnlyOneAlone DEF AloneMeansAlone
<1>10. OthersTear' /\ BoundsStand'
  BY <1>1 DEF OthersTear, BoundsStand
<1>11. TrailWillBeRight' /\ TrailIsRight'
  BY <1>1, <1>3, <1>4, <1>5, TrailKeeps
<1> QED
  BY <1>7, <1>8, <1>9, <1>10, <1>11 DEF SettingsInv

LEMMA SettingsRest ==
  ASSUME SettingsInv, UNCHANGED settingsVars PROVE SettingsInv'
BY DEF SettingsInv, settingsVars, SettingsTypeOK, SavesAreChecked, AloneMeansAlone, OthersTear,
       BoundsStand, TrailWillBeRight, TrailIsRight, Saving, Saves, Pending, Passed, Clean, InBounds

-----------------------------------------------------------------------------
(* The settings stand.                                                      *)

LEMMA SettingsStart == SettingsInit => SettingsInv
<1> SUFFICES ASSUME SettingsInit PROVE SettingsInv
  OBVIOUS
<1>1. \A k \in Keys :
        value[k] = (CASE k = "WITHDRAWAL_DAY" -> FirstDay
                      [] k = "MIN_WITHDRAWAL_AMOUNT" -> 0
                      [] k = "MAX_WITHDRAWAL_AMOUNT" -> MostBound)
  BY DEF SettingsInit
<1>2. \A k \in Keys : value[k] \in PayoutDays \cup 0 .. MostBound
  BY <1>1, SettingsAssumption DEF Keys
<1>3. value \in Forms
  <2> DEFINE first(k) == CASE k = "WITHDRAWAL_DAY" -> FirstDay
                           [] k = "MIN_WITHDRAWAL_AMOUNT" -> 0
                           [] k = "MAX_WITHDRAWAL_AMOUNT" -> MostBound
  <2>1. value = [k \in Keys |-> first(k)]
    BY DEF SettingsInit
  <2>2. \A k \in Keys : first(k) \in PayoutDays \cup 0 .. MostBound
    BY <1>1, <1>2
  <2> HIDE DEF first
  <2> QED
    BY <2>1, <2>2 DEF Forms
<1>4. InBounds(value)
  BY <1>1, SettingsAssumption DEF InBounds, Keys
<1>5. Closed \in PageRows /\ Closed.at = 0 /\ Closed.untold = "none"
  BY <1>3, ClosedPage
<1>6. page = [p \in Pages |-> Closed] /\ torn = FALSE /\ doubtful = {} /\ newest = value
  BY DEF SettingsInit
<1>7. \A p \in Pages : page[p].at = 0 /\ page[p].untold = "none"
  BY <1>5, <1>6
<1>8. page \in [Pages -> PageRows]
  BY <1>5, <1>6
<1>9. \A p \in Pages : ~Saving(p)
  BY <1>7 DEF Saving
<1>10. \A k \in Keys : Pending(k) = {}
  BY <1>7, SaveTurns DEF Pending
<1>11. SettingsTypeOK
  BY <1>3, <1>6, <1>8, SaveTurns DEF SettingsTypeOK, PageRows
<1> QED
  BY <1>4, <1>6, <1>7, <1>9, <1>10, <1>11
     DEF SettingsInv, SavesAreChecked, AloneMeansAlone, OthersTear, BoundsStand,
         TrailWillBeRight, TrailIsRight

\* A step of the settings page keeps the invariant, whatever the step is.
LEMMA SettingsMove ==
  ASSUME SettingsInv, [SettingsStep \/ SettingsEvent]_settingsVars PROVE SettingsInv'
<1>1. ASSUME NEW p \in Pages, OpenSettings(p) \/ KeepSetting(p) \/ WriteSetting(p) \/ RecordChange(p)
      PROVE  SettingsInv'
  BY <1>1, OpenKeeps, KeepKeeps, WriteKeeps, RecordKeeps
<1>2. ASSUME NEW p \in Pages,
             (\E form \in Forms : SubmitPage(p, form)) \/ RecordIsLost(p) \/ SaveDies(p)
      PROVE  SettingsInv'
  BY <1>2, SubmitKeeps, LossKeeps, DeathKeeps
<1>3. CASE UNCHANGED settingsVars
  BY <1>3, SettingsRest
<1> QED
  BY <1>1, <1>2, <1>3 DEF SettingsStep, SettingsEvent

\* A save that is alone writes only what its page changed.
LEMMA OwnChanges ==
  ASSUME SettingsInv, [SettingsStep \/ SettingsEvent]_settingsVars PROVE SavesOwnChanges
<1> SUFFICES ASSUME NEW p \in Pages, NEW k \in Keys,
                    Saves = {p}, page[p].alone, value'[k] # value[k]
             PROVE  page[p].form[k] # page[p].base[k]
  BY DEF SavesOwnChanges
<1>1. PICK q \in Pages : WriteSetting(q)
  BY DEF SettingsStep, SettingsEvent, OpenSettings, KeepSetting, RecordChange, SubmitPage,
         RecordIsLost, SaveDies, settingsVars
<1>2. q = p /\ Saving(p)
  BY <1>1 DEF WriteSetting, Saves
<1>3. /\ page[p].untold = "none" /\ page[p].form[SaveOrder[page[p].at]] # value[SaveOrder[page[p].at]]
      /\ k = SaveOrder[page[p].at]
  BY <1>1, <1>2 DEF WriteSetting, SettingsInv, SettingsTypeOK, Forms
<1>4. k \notin Passed(p)
  <2>1. page[p].at \in 1 .. 3
    BY <1>2, SavingAt
  <2>2. \A i \in 1 .. (page[p].at - 1) : i \in 1 .. 3 /\ i # page[p].at
    BY <2>1
  <2>3. \A i \in 1 .. (page[p].at - 1) : SaveOrder[i] # k
    BY <1>3, <2>1, <2>2, SaveTurns
  <2> QED
    BY <1>2, <1>3, <2>3, OnePassedMore
<1> QED
  BY <1>2, <1>3, <1>4 DEF SettingsInv, AloneMeansAlone

\* The settings page sees only its own steps.
LEMMA SettingsSteps == [AccessNext]_accessVars => [SettingsStep \/ SettingsEvent]_settingsVars
BY DEF AccessNext, accessVars

\* The settings' invariant holds in every reachable state.
THEOREM SettingsInvHolds == AccessSpec => []SettingsInv
<1>1. AccessInit => SettingsInv
  BY SettingsStart DEF AccessInit
<1>2. SettingsInv /\ [AccessNext]_accessVars => SettingsInv'
  BY SettingsMove, SettingsSteps
<1> QED
  BY <1>1, <1>2, PTL DEF AccessSpec

\* The bounds of a withdrawal and the audit trail are right again after any whole
\* save, and no save that runs alone undoes what its page did not show
\* (platform_settings, BancostoreConstanceForm.save, record_setting_change).
THEOREM SettingsAlwaysStand == AccessSpec => SettingsStand
<1>1. SettingsInv => SettingsTypeOK /\ BoundsStand /\ TrailIsRight
  BY DEF SettingsInv
<1>2. SettingsInv /\ [AccessNext]_accessVars => [SavesOwnChanges]_settingsVars
  BY OwnChanges, SettingsSteps
<1> QED
  BY <1>1, <1>2, SettingsInvHolds, PTL DEF AccessSpec, SettingsStand

=============================================================================
