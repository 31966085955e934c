---------------------------- MODULE MasterProofs ----------------------------
(***************************************************************************)
(* What the master promises across its instances, for every value of the   *)
(* constants: the lease election, the limit of alerts, the rotation of the *)
(* master key, the quota of a user and the updates of the Telegram bot.    *)
(***************************************************************************)
EXTENDS HaLease, Alerts, Rekey, Quota, Bot, TLAPS

(* The lease election is safe for every number of instances and every lease
   length, provided the awaits of the loop are short against the lease. *)

\* What is left of i's lease covers the longest way to i's next renewal or
\* step-down, from wherever its loop stands.
Covered(i) ==
    /\ lease.holder = i
    /\ pc[i] = "acquire" => lease.left >= MaxDelay - age[i]
    /\ pc[i] = "sleep" => lease.left >= due[i] + 2 * MaxDelay - age[i]
    /\ pc[i] \in {"prune", "heartbeat", "reply"} =>
         lease.left >= due[i] + 2 * MaxDelay
    /\ pc[i] = "prune" => lease.left >= 3 * MaxDelay - age[i]
    /\ pc[i] = "heartbeat" => lease.left >= 4 * MaxDelay - age[i]
    /\ pc[i] = "reply" => lease.left >= 5 * MaxDelay - age[i]

\* The flag, and a granted answer still on its way, are both covered.
CoverAt(i) ==
    /\ pc[i] = "sleep" /\ due[i] > 0 => age[i] = 0
    /\ isLeader[i] => Up(i)
    /\ isLeader[i] \/ (pc[i] = "reply" /\ answer[i]) => Covered(i)

\* The inductive invariant.
IInv == TypeOK /\ \A i \in Instances : CoverAt(i)

\* The constants derived from the ttl: ttl.max(3) and a third of it.
LEMMA Periods == ttl_secs \in Nat /\ ttl_secs >= 3 /\ renew \in Nat /\ renew >= 1
  BY TimingAssumption DEF ttl_secs, renew

\* The turn counter of the loop stays below PruneEvery.
LEMMA TicksRange == \A n \in Nat : n % PruneEvery \in 0 .. PruneEvery - 1
  BY TimingAssumption

\* Every step of the election keeps the variables in their types.
LEMMA TypeStep == TypeOK /\ [Next]_vars => TypeOK'
  <1> SUFFICES ASSUME TypeOK, [Next]_vars PROVE TypeOK'
    BY Zenon
  <1> USE Periods, TimingAssumption, InstancesAssumption DEF TypeOK, InCall
  <1>1. CASE Tick
    BY <1>1 DEF Tick, Ready
  <1>2. ASSUME NEW i \in Instances, Step(i) PROVE TypeOK'
    <2>1. CASE Heartbeat(i)
      <3>1. (ticks[i] + 1) % PruneEvery \in 0 .. PruneEvery - 1
        BY TicksRange
      <3>2. PICK next \in 0 .. PruneEvery - 1, to \in {"prune", "sleep"} :
              ticks' = [ticks EXCEPT ![i] = next] /\ Goto(i, "heartbeat", to)
        BY <2>1, <3>1, Zenon DEF Heartbeat
      <3> QED BY <2>1, <3>2 DEF Heartbeat, Goto
    <2>2. CASE TryAcquire(i)
      BY <2>2 DEF TryAcquire, Goto, MayTake
    <2>3. CASE Start(i) \/ Wake(i) \/ Prune(i)
      BY <2>3 DEF Start, Wake, Prune, Goto
    <2>6. CASE StepDown(i)
      BY <2>6 DEF StepDown, Goto
    <2>7. CASE SetLeader(i)
      <3>1. answer[i] \in BOOLEAN
        BY Zenon
      <3>2. isLeader' \in [Instances -> BOOLEAN]
        BY <2>7, <3>1, Zenon DEF SetLeader
      <3> QED BY <2>7, <3>2 DEF SetLeader, Goto
    <2>4. CASE Crash(i)
      BY <2>4 DEF Crash, Up
    <2>5. CASE BeginTurn(i) \/ EndTurn(i)
      BY <2>5, Zenon DEF BeginTurn, EndTurn, loopVars, Up
    <2> QED BY <1>2, <2>1, <2>2, <2>3, <2>4, <2>5, <2>6, <2>7, Zenon DEF Step
  <1>3. CASE UNCHANGED vars
    BY <1>3, Zenon DEF vars
  <1> QED BY <1>1, <1>2, <1>3, Zenon DEF Next

\* The initial state is well typed.
LEMMA TypeCorrectInit == Init => TypeOK
  BY Periods, TimingAssumption DEF Init, TypeOK, InCall

\* The type invariant of the election.
THEOREM TypeCorrect == Spec => []TypeOK
  BY TypeCorrectInit, TypeStep, PTL DEF Spec

-----------------------------------------------------------------------------

\* The numbers of one instance.
LEMMA NumbersAt ==
    ASSUME TypeOK, NEW i \in Instances
    PROVE  /\ age[i] \in Nat /\ age[i] <= MaxDelay /\ due[i] \in Nat /\ due[i] <= renew
           /\ lease.left \in Int /\ lease.left <= ttl_secs
           /\ pc[i] \in {"new", "sleep", "dead", "acquire", "reply", "heartbeat", "prune"}
           /\ isLeader[i] \in BOOLEAN /\ answer[i] \in BOOLEAN
  <1>1. age[i] \in 0 .. MaxDelay /\ due[i] \in 0 .. renew /\ lease.left \in -1 .. ttl_secs
    BY Zenon DEF TypeOK
  <1>2. /\ pc[i] \in {"new", "sleep", "dead", "acquire", "reply", "heartbeat", "prune"}
        /\ isLeader[i] \in BOOLEAN /\ answer[i] \in BOOLEAN
    BY Zenon DEF TypeOK, InCall
  <1>3. age[i] \in Nat /\ age[i] <= MaxDelay /\ due[i] \in Nat /\ due[i] <= renew
    BY <1>1
  <1>4. lease.left \in Int /\ lease.left <= ttl_secs
    BY <1>1
  <1> QED BY <1>2, <1>3, <1>4, Zenon

\* A step of one instance that leaves the lease alone has only its own cover
\* to keep.
LEMMA OwnStep ==
    ASSUME IInv, TypeOK', NEW i \in Instances, UNCHANGED lease,
           \A j \in Instances \ {i} : /\ pc'[j] = pc[j] /\ due'[j] = due[j] /\ age'[j] = age[j]
                                      /\ answer'[j] = answer[j] /\ isLeader'[j] = isLeader[j],
           CoverAt(i)'
    PROVE  IInv'
  <1>1. ASSUME NEW j \in Instances \ {i} PROVE CoverAt(j)'
    <2>1. CoverAt(j)
      BY Zenon DEF IInv
    <2>2. (Covered(j)' <=> Covered(j)) /\ (Up(j)' <=> Up(j))
      BY Zenon DEF Covered, Up
    <2> QED BY <2>1, <2>2, Zenon DEF CoverAt
  <1> QED BY <1>1, Zenon DEF IInv

\* Every step of the election keeps every flag covered by its lease.
LEMMA CoverStep == ShortAwaits /\ IInv /\ [Next]_vars => IInv'
  <1> SUFFICES ASSUME ShortAwaits, IInv, [Next]_vars PROVE IInv'
    BY Zenon
  <1>t. TypeOK /\ TypeOK'
    BY TypeStep, Zenon DEF IInv
  <1>c. MaxDelay \in Nat /\ ttl_secs \in Nat /\ renew \in Nat
    BY Periods, TimingAssumption, Zenon
  <1>1. CASE Tick
    <2>1. ASSUME NEW i \in Instances PROVE CoverAt(i)'
      <3>1. CoverAt(i)
        BY Zenon DEF IInv
      <3>2. /\ pc'[i] = pc[i] /\ isLeader'[i] = isLeader[i] /\ answer'[i] = answer[i]
            /\ age'[i] = IF Ready(i) THEN age[i] + 1 ELSE age[i]
            /\ due'[i] = IF due[i] = 0 THEN 0 ELSE due[i] - 1
        BY <1>1, Zenon DEF Tick
      <3>3. /\ lease'.holder = lease.holder
            /\ lease'.left = IF lease.left < 0 THEN lease.left ELSE lease.left - 1
        BY <1>1, <1>t, Zenon DEF Tick, TypeOK
      <3>4. Ready(i) => age[i] < MaxDelay
        BY <1>1, Zenon DEF Tick
      <3>5. /\ age[i] \in Nat /\ age[i] <= MaxDelay /\ due[i] \in Nat /\ due[i] <= renew
            /\ lease.left \in Int
        BY <1>t, NumbersAt, Zenon
      <3>6. pc[i] = "sleep" /\ due[i] > 0 => ~Ready(i)
        BY <3>5 DEF Ready, InCall
      <3>7. pc'[i] = "sleep" /\ due'[i] > 0 => age'[i] = 0
        <4>1. due'[i] > 0 => due[i] > 0
          BY <3>2, <3>5
        <4> QED BY <3>1, <3>2, <3>6, <4>1, Zenon DEF CoverAt
      <3>8. (pc[i] = "sleep" /\ due[i] > 0 => age[i] = 0) /\ Up(i) /\ Covered(i) => Covered(i)'
        <4>1. pc[i] \in {"acquire", "reply", "heartbeat", "prune"} => Ready(i)
          BY Zenon DEF Ready, InCall
        <4>2. pc[i] = "sleep" /\ due[i] = 0 => Ready(i)
          BY Zenon DEF Ready
        <4>3. pc[i] \in {"acquire", "reply", "heartbeat", "prune"} /\ Covered(i) => Covered(i)'
          BY <1>c, <3>2, <3>3, <3>4, <3>5, <4>1 DEF Covered
        <4>4. pc[i] = "sleep" /\ due[i] = 0 /\ Covered(i) => Covered(i)'
          BY <1>c, <3>2, <3>3, <3>4, <3>5, <4>2 DEF Covered
        <4>5. pc[i] = "sleep" /\ due[i] > 0 /\ age[i] = 0 /\ Covered(i) => Covered(i)'
          BY <1>c, <3>2, <3>3, <3>5, <3>6 DEF Covered
        <4>6. due[i] = 0 \/ due[i] > 0
          BY <3>5
        <4>7. pc[i] \in {"new", "sleep", "dead", "acquire", "reply", "heartbeat", "prune"}
          BY <1>t, NumbersAt, Zenon
        <4> QED BY <4>3, <4>4, <4>5, <4>6, <4>7, Zenon DEF Up
      <3>9. pc[i] = "reply" => Up(i)
        BY Zenon DEF Up
      <3> QED BY <3>1, <3>2, <3>7, <3>8, <3>9, Zenon DEF CoverAt, Up
    <2> QED BY <1>t, <2>1, Zenon DEF IInv
  <1>2. ASSUME NEW i \in Instances, Step(i) PROVE IInv'
    <2>c. CoverAt(i)
      BY Zenon DEF IInv
    <2>n. /\ age[i] \in Nat /\ age[i] <= MaxDelay /\ due[i] \in Nat /\ due[i] <= renew
          /\ lease.left \in Int /\ lease.left <= ttl_secs
      BY <1>t, NumbersAt, Zenon
    <2>g. ASSUME NEW from, NEW to, Goto(i, from, to)
          PROVE  /\ pc[i] = from /\ pc'[i] = to /\ age'[i] = 0
                 /\ \A j \in Instances \ {i} : pc'[j] = pc[j] /\ age'[j] = age[j]
      BY <2>g, <1>t, Zenon DEF Goto, TypeOK
    <2>1. CASE Start(i)
      <3>1. UNCHANGED <<lease, due, answer, isLeader>> /\ Goto(i, "new", "sleep")
        BY <2>1, Zenon DEF Start
      <3>2. CoverAt(i)'
        <4>1. pc[i] = "new" /\ pc'[i] = "sleep" /\ age'[i] = 0
          BY <2>g, <3>1, Zenon
        <4>2. ~isLeader[i]
          BY <2>c, <4>1, Zenon DEF CoverAt, Up
        <4> QED BY <3>1, <4>1, <4>2, Zenon DEF CoverAt
      <3> QED BY <1>t, <2>g, <3>1, <3>2, OwnStep, Zenon
    <2>2. CASE Wake(i)
      <3>1. UNCHANGED <<lease, answer, isLeader>> /\ Goto(i, "sleep", "acquire") /\ due[i] = 0
            /\ \A j \in Instances \ {i} : due'[j] = due[j]
        BY <2>2, <1>t, Zenon DEF Wake, TypeOK
      <3>2. pc[i] = "sleep" /\ pc'[i] = "acquire" /\ age'[i] = 0
        BY <2>g, <3>1, Zenon
      <3>3. CoverAt(i)'
        <4>1. Covered(i) => Covered(i)'
          BY <1>c, <2>n, <3>1, <3>2 DEF Covered
        <4> QED BY <2>c, <3>1, <3>2, <4>1, Zenon DEF CoverAt, Up
      <3> QED BY <1>t, <2>g, <3>1, <3>3, OwnStep, Zenon
    <2>3. CASE TryAcquire(i)
      <3>1. /\ UNCHANGED <<due, isLeader>> /\ answer'[i] = MayTake(i)
            /\ \A j \in Instances \ {i} : answer'[j] = answer[j]
            /\ lease' = IF MayTake(i) THEN [holder |-> i, left |-> ttl_secs] ELSE lease
            /\ Goto(i, "acquire", "reply")
        BY <2>3, <1>t, Zenon DEF TryAcquire, TypeOK
      <3>2. pc[i] = "acquire" /\ pc'[i] = "reply" /\ age'[i] = 0
        BY <2>g, <3>1, Zenon
      <3>3. CASE MayTake(i)
        <4>1. lease'.holder = i /\ lease'.left = ttl_secs
          BY <3>1, <3>3, Zenon
        <4>2. Covered(i)'
          <5>1. due[i] + 2 * MaxDelay <= ttl_secs /\ 5 * MaxDelay <= ttl_secs
            BY <1>c, <2>n DEF ShortAwaits
          <5> QED BY <1>c, <2>n, <3>1, <3>2, <4>1, <5>1 DEF Covered
        <4>3. CoverAt(i)'
          BY <2>c, <3>1, <3>2, <4>2, Zenon DEF CoverAt, Up
        <4>4. ASSUME NEW j \in Instances \ {i} PROVE CoverAt(j)'
          <5>1. CoverAt(j) /\ pc'[j] = pc[j] /\ age'[j] = age[j] /\ due'[j] = due[j]
                /\ answer'[j] = answer[j] /\ isLeader'[j] = isLeader[j]
            BY <2>g, <3>1, Zenon DEF IInv
          <5>2. ~(isLeader[j] \/ (pc[j] = "reply" /\ answer[j]))
            <6>1. ASSUME Covered(j), isLeader[j] \/ pc[j] = "reply", isLeader[j] => Up(j)
                  PROVE  lease.holder = j /\ lease.left >= 0
              BY <6>1, <1>c, <1>t, NumbersAt DEF Covered, Up
            <6>2. Covered(j) /\ (isLeader[j] \/ pc[j] = "reply") /\ (isLeader[j] => Up(j))
                    => lease.holder \notin {None, i} /\ ~(lease.left < 0)
              BY <6>1, <2>n, InstancesAssumption
            <6> QED BY <3>3, <5>1, <6>2, Zenon DEF CoverAt, MayTake
          <5> QED BY <5>1, <5>2, Zenon DEF CoverAt, Up
        <4> QED BY <1>t, <4>3, <4>4, Zenon DEF IInv
      <3>4. CASE ~MayTake(i)
        <4>1. lease' = lease /\ ~answer'[i]
          BY <3>1, <3>4, Zenon
        <4>2. ~isLeader[i]
          BY <2>c, <3>4, Zenon DEF CoverAt, Covered, MayTake
        <4>3. CoverAt(i)'
          BY <3>1, <3>2, <4>1, <4>2, Zenon DEF CoverAt
        <4> QED BY <1>t, <2>g, <3>1, <4>1, <4>3, OwnStep, Zenon
      <3> QED BY <3>3, <3>4, Zenon
    <2>4. CASE SetLeader(i)
      <3>1. /\ UNCHANGED <<lease, due>> /\ Goto(i, "reply", "heartbeat")
            /\ isLeader'[i] = answer[i] /\ answer'[i] = FALSE
            /\ \A j \in Instances \ {i} : isLeader'[j] = isLeader[j] /\ answer'[j] = answer[j]
        BY <2>4, <1>t, Zenon DEF SetLeader, TypeOK
      <3>2. pc[i] = "reply" /\ pc'[i] = "heartbeat" /\ age'[i] = 0
        BY <2>g, <3>1, Zenon
      <3>3. Covered(i) => Covered(i)'
        BY <1>c, <2>n, <3>1, <3>2 DEF Covered
      <3>4. CoverAt(i)'
        BY <2>c, <3>1, <3>2, <3>3, Zenon DEF CoverAt, Up
      <3> QED BY <1>t, <2>g, <3>1, <3>4, OwnStep, Zenon
    <2>5. CASE StepDown(i)
      <3>1. /\ UNCHANGED <<lease, due>> /\ isLeader'[i] = FALSE /\ answer'[i] = FALSE
            /\ \A j \in Instances \ {i} : isLeader'[j] = isLeader[j] /\ answer'[j] = answer[j]
            /\ Goto(i, "acquire", "heartbeat") \/ Goto(i, "reply", "heartbeat")
        BY <2>5, <1>t, Zenon DEF StepDown, TypeOK
      <3>2. /\ pc'[i] = "heartbeat"
            /\ \A j \in Instances \ {i} : pc'[j] = pc[j] /\ age'[j] = age[j]
        BY <2>g, <3>1, Zenon
      <3>3. CoverAt(i)'
        BY <3>1, <3>2, Zenon DEF CoverAt
      <3> QED BY <1>t, <3>1, <3>2, <3>3, OwnStep, Zenon
    <2>6. CASE Heartbeat(i) \/ Prune(i)
      <3>1. /\ UNCHANGED <<lease, due, answer, isLeader>>
            /\ \E from \in {"heartbeat", "prune"}, to \in {"prune", "sleep"} :
                 Goto(i, from, to) /\ from # to
        BY <2>6, Zenon DEF Heartbeat, Prune
      <3>2. PICK from \in {"heartbeat", "prune"}, to \in {"prune", "sleep"} :
              Goto(i, from, to) /\ from # to
        BY <3>1, Zenon
      <3>3. pc[i] = from /\ pc'[i] = to /\ age'[i] = 0
        BY <2>g, <3>2, Zenon
      <3>4. Covered(i) => Covered(i)'
        BY <1>c, <2>n, <3>1, <3>2, <3>3 DEF Covered
      <3>5. CoverAt(i)'
        BY <2>c, <3>1, <3>2, <3>3, <3>4, Zenon DEF CoverAt, Up
      <3> QED BY <1>t, <2>g, <3>1, <3>2, <3>5, OwnStep, Zenon
    <2>7. CASE Crash(i)
      <3>1. /\ UNCHANGED lease /\ pc'[i] = "dead" /\ isLeader'[i] = FALSE
            /\ \A j \in Instances \ {i} : /\ pc'[j] = pc[j] /\ due'[j] = due[j] /\ age'[j] = age[j]
                                          /\ answer'[j] = answer[j] /\ isLeader'[j] = isLeader[j]
        BY <2>7, <1>t, Zenon DEF Crash, TypeOK
      <3>2. CoverAt(i)'
        BY <3>1, Zenon DEF CoverAt
      <3> QED BY <1>t, <3>1, <3>2, OwnStep, Zenon
    <2>8. CASE BeginTurn(i) \/ EndTurn(i)
      <3>1. UNCHANGED <<lease, pc, due, age, answer, isLeader>>
        BY <2>8, Zenon DEF BeginTurn, EndTurn, loopVars
      <3> QED BY <3>1, <1>t, Zenon DEF IInv, CoverAt, Covered, Up
    <2> QED BY <1>2, <2>1, <2>2, <2>3, <2>4, <2>5, <2>6, <2>7, <2>8, Zenon DEF Step
  <1>3. CASE UNCHANGED vars
    BY <1>3, <1>t, Zenon DEF vars, IInv, CoverAt, Covered, Up
  <1> QED BY <1>1, <1>2, <1>3, Zenon DEF Next

\* Whoever has the flag up holds an unexpired lease, for any number of
\* instances: ha_try_acquire never grants a lease that covers a leader, and a
\* leader renews or steps down before its lease runs out.
THEOREM LeaderIsCovered == ShortAwaits => (Spec => []LeaderHoldsLease)
  <1> SUFFICES ASSUME ShortAwaits PROVE Spec => []LeaderHoldsLease
    BY Zenon
  <1>1. Init => IInv
    BY TypeCorrectInit, Zenon DEF Init, IInv, CoverAt, Up
  <1>2. IInv /\ [Next]_vars => IInv'
    BY CoverStep, Zenon
  <1>3. IInv => LeaderHoldsLease
    <2>1. ASSUME IInv, NEW i \in Instances, isLeader[i]
          PROVE  lease.holder = i /\ lease.left >= 0
      <3>1. Covered(i) /\ Up(i)
        BY <2>1, Zenon DEF IInv, CoverAt
      <3>2. TypeOK
        BY <2>1, Zenon DEF IInv
      <3> QED BY <3>1, <3>2, NumbersAt, TimingAssumption DEF Covered, Up
    <2> QED BY <2>1 DEF LeaderHoldsLease
  <1> QED BY <1>1, <1>2, <1>3, PTL DEF Spec

\* At most one IS_LEADER flag is up among all the processes.
THEOREM AtMostOneLeader == ShortAwaits => (Spec => []OneLeader)
  <1> SUFFICES ASSUME ShortAwaits PROVE Spec => []OneLeader
    BY Zenon
  <1>1. LeaderHoldsLease => OneLeader
    BY Zenon DEF LeaderHoldsLease, OneLeader
  <1> QED BY <1>1, LeaderIsCovered, PTL

-----------------------------------------------------------------------------

\* A step of the election that leaves at most one flag up either leaves the
\* flags alone, lowers them all, or raises one when none was up.
LEMMA LockStep == TypeOK /\ OneLeader /\ OneLeader' /\ [Next]_vars
                    => [Lock!LockNext]_Leaders
  <1> SUFFICES ASSUME TypeOK, OneLeader, OneLeader', [Next]_vars
               PROVE  [Lock!LockNext]_Leaders
    BY Zenon
  <1>1. ASSUME UNCHANGED isLeader PROVE [Lock!LockNext]_Leaders
    BY <1>1, Zenon DEF Leaders
  <1>2. ASSUME NEW i \in Instances, SetLeader(i) \/ StepDown(i) \/ Crash(i)
        PROVE  [Lock!LockNext]_Leaders
    <2>1. \A j \in Instances \ {i} : isLeader'[j] <=> isLeader[j]
      BY <1>2, Zenon DEF SetLeader, StepDown, Crash, TypeOK
    <2>2. CASE isLeader'[i]
      <3>1. Leaders' = {i}
        BY <2>2, Zenon DEF Leaders, OneLeader
      <3>2. Leaders \subseteq {i}
        BY <2>1, <3>1, Zenon DEF Leaders
      <3>3. Leaders = {} \/ Leaders = {i}
        BY <3>2, Zenon
      <3> QED BY <3>1, <3>3, Zenon DEF Lock!LockNext, Lock!Take
    <2>3. CASE ~isLeader'[i]
      <3>1. Leaders' = Leaders \ {i}
        BY <2>1, <2>3, Zenon DEF Leaders
      <3>2. CASE isLeader[i]
        <4>1. Leaders = {i}
          BY <3>2, Zenon DEF Leaders, OneLeader
        <4> QED BY <3>1, <4>1, Zenon DEF Lock!LockNext, Lock!GiveUp
      <3>3. CASE ~isLeader[i]
        BY <3>1, <3>3, Zenon DEF Leaders
      <3> QED BY <3>2, <3>3, Zenon
    <2> QED BY <2>2, <2>3, Zenon
  <1>3. ASSUME NEW i \in Instances, Step(i) PROVE [Lock!LockNext]_Leaders
    <2>1. CASE SetLeader(i) \/ StepDown(i) \/ Crash(i)
      BY <1>2, <2>1, Zenon
    <2>2. CASE Start(i) \/ Wake(i) \/ TryAcquire(i) \/ Heartbeat(i) \/ Prune(i)
      BY <1>1, <2>2, Zenon DEF Start, Wake, TryAcquire, Heartbeat, Prune
    <2>3. CASE BeginTurn(i) \/ EndTurn(i)
      BY <1>1, <2>3, Zenon DEF BeginTurn, EndTurn, loopVars
    <2> QED BY <1>3, <2>1, <2>2, <2>3, Zenon DEF Step
  <1>4. CASE Tick
    BY <1>1, <1>4, Zenon DEF Tick
  <1>5. CASE UNCHANGED vars
    BY <1>1, <1>5, Zenon DEF vars
  <1> QED BY <1>3, <1>4, <1>5, Zenon DEF Next

\* The election implements the lock, for any number of instances: a flag goes
\* up only when every other one is down (refinement of LeaderLock).
THEOREM ElectionImplementsLock == ShortAwaits => (Spec => LeadershipIsALock)
  <1> SUFFICES ASSUME ShortAwaits PROVE Spec => LeadershipIsALock
    BY Zenon
  <1>1. Init => Lock!LockInit
    BY Zenon DEF Init, Lock!LockInit, Leaders
  <1>2. TypeOK /\ OneLeader /\ OneLeader' /\ [Next]_vars => [Lock!LockNext]_Leaders
    BY LockStep, Zenon
  <1> QED BY <1>1, <1>2, TypeCorrect, AtMostOneLeader, PTL
          DEF Spec, LeadershipIsALock, Lock!LockSpec

-----------------------------------------------------------------------------
(* The hourly limit of alerts holds for any number of instances and tasks. *)

\* The tasks between the advisory lock and the end of their transaction.
Deciding == {"check", "update", "insert"}

AlertTypeOK ==
    /\ task \in [Tasks -> [pc : {"rest", "lock", "fallback", "send", "ended"} \cup Deciding,
                           open : 0 .. MaxWait]]
    /\ lock \in Tasks \cup {Nobody}
    /\ newest \in 0 .. Forever
    /\ tooSoon \in BOOLEAN

\* The inductive invariant: a task that is deciding holds the lock, and what it
\* found out about the newest row stays true until it inserts its own.
AlertInv ==
    /\ AlertTypeOK
    /\ \A t \in Tasks : task[t].pc \in Deciding => lock = t
    /\ \A t \in Tasks : task[t].pc = "insert" => newest >= COOLDOWN + task[t].open
    /\ NoSpam

\* No alert is under way and none was sent at the start.
LEMMA AlertInvInit == AlertInit => AlertInv
  <1> SUFFICES ASSUME AlertInit PROVE AlertInv
    BY Zenon
  <1>1. \A t \in Tasks : task[t] = Resting
    BY Zenon DEF AlertInit
  <1>2. Resting \in [pc : {"rest", "lock", "fallback", "send", "ended"} \cup Deciding,
                     open : 0 .. MaxWait]
    BY AlertsAssumption DEF Resting
  <1>3. newest \in 0 .. Forever
    BY AlertsAssumption DEF AlertInit, Forever
  <1>4. AlertTypeOK
    BY <1>2, <1>3, Zenon DEF AlertInit, AlertTypeOK
  <1> QED BY <1>1, <1>4, Zenon DEF AlertInit, AlertInv, Deciding, Resting, NoSpam

\* Every step of a task, a failed query, a restart and the clock keep it.
LEMMA AlertInvStep == AlertInv /\ [AlertNext]_alertVars => AlertInv'
  <1> SUFFICES ASSUME AlertInv, [AlertNext]_alertVars PROVE AlertInv'
    BY Zenon
  <1> USE AlertsAssumption DEF AlertInv, AlertTypeOK, Deciding, NoSpam, Forever
  <1>1. ASSUME NEW t \in Tasks, AlertStep(t) PROVE AlertInv'
    <2>1. CASE alert(t)
      BY <2>1 DEF alert
    <2>2. CASE TakeLock(t)
      BY <2>2, Zenon DEF TakeLock
    <2>3. CASE CheckRecent(t)
      BY <2>3 DEF CheckRecent, Recent
    <2>4. CASE CountOccurrence(t)
      BY <2>4 DEF CountOccurrence, Unlock, Ended
    <2>5. CASE InsertRow(t)
      BY <2>5 DEF InsertRow, AddRow, Unlock
    <2>6. CASE should_send_fallback(t)
      BY <2>6 DEF should_send_fallback, Ended
    <2>7. CASE dispatch(t)
      BY <2>7 DEF dispatch, Ended
    <2> QED BY <1>1, <2>1, <2>2, <2>3, <2>4, <2>5, <2>6, <2>7, Zenon DEF AlertStep
  <1>2. ASSUME NEW t \in Tasks, DbFails(t) PROVE AlertInv'
    BY <1>2 DEF DbFails, AddRow, Unlock
  <1>3. ASSUME NEW t \in Tasks, LookupFails(t) PROVE AlertInv'
    BY <1>3 DEF LookupFails, Ended
  <1>4. ASSUME NEW h \in Hosts, MasterRestarts(h) PROVE AlertInv'
    BY <1>4 DEF MasterRestarts, Ended
  <1>5. CASE AlertTick
    <2> DEFINE later(t) == IF task[t].pc = "ended" THEN Resting ELSE [task[t] EXCEPT !.open = @ + 1]
    <2>1. /\ task' = [t \in Tasks |-> later(t)]
          /\ newest' = Older(newest) /\ lock' = lock /\ tooSoon' = tooSoon
      BY <1>5, Zenon DEF AlertTick
    <2>2. ASSUME NEW t \in Tasks
          PROVE  /\ later(t) \in [pc : {"rest", "lock", "fallback", "send", "ended"} \cup Deciding,
                                  open : 0 .. MaxWait]
                 /\ later(t).pc \in Deciding => task[t].pc = later(t).pc
                 /\ later(t).pc \in Deciding => later(t).open = task[t].open + 1
                 /\ later(t).open <= MaxWait
      BY <1>5 DEF AlertTick, Resting
    <2> HIDE DEF later
    <2>3. AlertTypeOK'
      BY <2>1, <2>2 DEF Older
    <2>4. \A t \in Tasks : task'[t] = later(t)
      BY <2>1, Zenon
    <2>5. \A t \in Tasks : task'[t].pc = "insert" => newest' >= COOLDOWN + task'[t].open
      BY <2>1, <2>2, <2>4 DEF Older
    <2> QED BY <2>1, <2>2, <2>3, <2>4, <2>5, Zenon
  <1>6. CASE UNCHANGED alertVars
    BY <1>6, Zenon DEF alertVars
  <1> QED BY <1>1, <1>2, <1>3, <1>4, <1>5, <1>6, Zenon DEF AlertNext

\* For any tasks, hosts, cooldown and waiting time, no dedup key gets two rows
\* within the cooldown: the advisory lock makes should_send's check and insert
\* one step against the other tasks, also when a query fails in between.
THEOREM AlertsNeverSpam == AlertSpec => []NoSpam
  <1>1. AlertInv => NoSpam
    BY Zenon DEF AlertInv
  <1> QED BY <1>1, AlertInvInit, AlertInvStep, PTL DEF AlertSpec

-----------------------------------------------------------------------------
(* A rotation that may fail and be repeated anywhere loses no secret. *)

\* Every stored value opens under the key.
Readable(key, values) == \A r \in Rows : CanDecrypt(key, values[r])

\* A row the rotation has been past: its table lies behind, or it is of the
\* table at hand and no longer in the batch.
Passed(r) ==
    \E i \in 1 .. 7 :
        /\ RekeyTables[i] = Table[r]
        /\ i < command.at \/ (i = command.at /\ r \notin DOMAIN command.batch)

Values == [data : Nat, key : Keys \cup {Plain}]

RekeyTypeOK ==
    /\ store \in [Rows -> Values]
    /\ written \in [Rows -> Nat]
    /\ service \in Keys \cup {NoKey}
    /\ env \in Keys
    /\ command \in [name : {"none", "reencrypt", "rekey"}, old : Keys \cup {NoKey},
                    new : Keys \cup {NoKey}, at : Nat,
                    batch : UNION {[S -> Values] : S \in SUBSET Rows}]
    /\ Running => command.new \in Keys
    /\ outcome \in {"none", "done", "failed"}
    /\ backup \in [store : [Rows -> Values], written : [Rows -> Nat], racedWrites : SUBSET Rows]
    /\ racedWrites \subseteq Rows

\* The inductive invariant.  While the master serves, every row and the walk of
\* reencrypt stay with its key; while it is stopped the backup stays with the
\* key of the environment, a rotation leaves its new key behind it, and the
\* rows may be trusted to one key only before the rotation and after it ends well.
RekeyInv ==
    /\ RekeyTypeOK
    /\ Running => outcome = "none"
    /\ ~Running => DOMAIN command.batch = {}
    /\ service # NoKey => service = env /\ Readable(env, store)
    /\ command.name = "reencrypt" => service # NoKey /\ command.new = env
    /\ command.name = "rekey" => service = NoKey /\ \A r \in Rows : Passed(r) => store[r].key = command.new
    /\ service = NoKey =>
        /\ Readable(env, backup.store)
        /\ ~Running /\ outcome = "none" => Readable(env, store)
        /\ outcome = "done" => \A r \in Rows : store[r].key = command.new
    /\ \A r \in Rows \ racedWrites : store[r].data = written[r]
    /\ \A r \in Rows \ backup.racedWrites : backup.store[r].data = backup.written[r]

\* rekey visits every table that holds a secret.
LEMMA TablesCover == \A r \in Rows : \E i \in 1 .. 7 : RekeyTables[i] = Table[r]
  BY SecretsAssumption DEF RekeyTables

\* The master starts with every row plain or under its key.
LEMMA RekeyInvInit == RekeyInit => RekeyInv
  <1> SUFFICES ASSUME NEW k \in Keys,
                      store \in [Rows -> {[data |-> 0, key |-> q] : q \in {Plain, k}}],
                      written = [r \in Rows |-> 0], service = k, env = k, command = NoCommand,
                      outcome = "none", racedWrites = {},
                      backup = [store |-> store, written |-> written, racedWrites |-> racedWrites]
               PROVE  RekeyInv
    BY Zenon DEF RekeyInit
  <1>1. ASSUME NEW r \in Rows
        PROVE  store[r].data = 0 /\ store[r].key \in {Plain, k} /\ store[r] \in Values
    <2>1. store[r] \in {[data |-> 0, key |-> q] : q \in {Plain, k}}
      BY Zenon
    <2>2. PICK q \in {Plain, k} : store[r] = [data |-> 0, key |-> q]
      BY <2>1, Zenon
    <2> QED BY <2>2 DEF Values
  <1>2. store \in [Rows -> Values]
    BY <1>1, Zenon
  <1>3. <<>> \in UNION {[S -> Values] : S \in SUBSET Rows}
    <2>1. <<>> \in [{} -> Values]
      OBVIOUS
    <2> QED BY <2>1, Zenon
  <1>4. NoCommand \in [name : {"none", "reencrypt", "rekey"}, old : Keys \cup {NoKey},
                    new : Keys \cup {NoKey}, at : Nat,
                    batch : UNION {[S -> Values] : S \in SUBSET Rows}]
    BY <1>3, Zenon DEF NoCommand
  <1>5. RekeyTypeOK
    BY <1>2, <1>4, Zenon DEF RekeyTypeOK, Running, NoCommand
  <1> QED BY <1>1, <1>5, SecretsAssumption DEF RekeyInv, Readable, CanDecrypt, Running, NoCommand

\* Writes of the service, both commands, their failures, a restore and a restart
\* with another key keep it.
LEMMA RekeyInvStep == RekeyInv /\ [RekeyNext]_rekeyVars => RekeyInv'
  <1> SUFFICES ASSUME RekeyInv, [RekeyNext]_rekeyVars PROVE RekeyInv'
    BY Zenon
  <1> DEFINE Batches == UNION {[S -> Values] : S \in SUBSET Rows}
  <1> USE SecretsAssumption
  <1>a. <<>> \in Batches
    <2>1. <<>> \in [{} -> Values]
      OBVIOUS
    <2> QED BY <2>1, Zenon
  <1>b. NoCommand \in [name : {"none", "reencrypt", "rekey"}, old : Keys \cup {NoKey},
                       new : Keys \cup {NoKey}, at : Nat, batch : Batches]
    BY <1>a, Zenon DEF NoCommand
  <1>c. NoCommand.name = "none" /\ DOMAIN NoCommand.batch = {}
    BY DEF NoCommand
  <1>1. ASSUME NEW r \in Rows, WriteSecret(r) PROVE RekeyInv'
    <2>1. /\ service \in Keys /\ service # NoKey /\ service = env
          /\ written' = [written EXCEPT ![r] = @ + 1]
          /\ store' = [store EXCEPT ![r] = encrypt(service, written[r] + 1)]
          /\ racedWrites' = racedWrites \ {r}
          /\ UNCHANGED <<service, env, command, outcome, backup>>
      BY <1>1, Zenon DEF WriteSecret, RekeyInv, RekeyTypeOK
    <2>2. encrypt(service, written[r] + 1) \in Values
      BY <2>1, SMTT(40) DEF encrypt, Values, RekeyInv, RekeyTypeOK
    <2>3. RekeyTypeOK'
      BY <2>1, <2>2, SMTT(40) DEF RekeyInv, RekeyTypeOK, Running
    <2>4. Readable(env, store)'
      BY <2>1, Zenon DEF RekeyInv, RekeyTypeOK, Readable, CanDecrypt, encrypt
    <2>5. \A q \in Rows \ racedWrites' : store'[q].data = written'[q]
      BY <2>1, Zenon DEF RekeyInv, RekeyTypeOK, encrypt
    <2> QED BY <2>1, <2>3, <2>4, <2>5, Zenon DEF RekeyInv, Running
  <1>2. CASE reencrypt
    <2>1. command' \in [name : {"none", "reencrypt", "rekey"}, old : Keys \cup {NoKey},
                        new : Keys \cup {NoKey}, at : Nat, batch : Batches]
      BY <1>2, <1>a, Zenon DEF reencrypt, RekeyInv, RekeyTypeOK
    <2> QED BY <1>2, <2>1, Zenon DEF reencrypt, RekeyInv, RekeyTypeOK, Running, Readable
  <1>3. ASSUME NEW new \in Keys, rekey(new) PROVE RekeyInv'
    <2>1. command' \in [name : {"none", "reencrypt", "rekey"}, old : Keys \cup {NoKey},
                        new : Keys \cup {NoKey}, at : Nat, batch : Batches]
      BY <1>3, <1>a, Zenon DEF rekey, RekeyInv, RekeyTypeOK
    <2>2. command'.name = "rekey" /\ command'.at = 0 /\ command'.new = new
      BY <1>3, Zenon DEF rekey
    <2>3. \A r \in Rows : ~Passed(r)'
      BY <2>2 DEF Passed
    <2> QED BY <1>3, <2>1, <2>2, <2>3, Zenon DEF rekey, RekeyInv, RekeyTypeOK, Running, Readable
  <1>4. ASSUME NEW new \in Keys, StartRotated(new) PROVE RekeyInv'
    BY <1>4, <1>b, <1>c, Zenon DEF StartRotated, RekeyInv, RekeyTypeOK, Running, Readable, CanDecrypt
  <1>5. CASE SelectTable
    <2> DEFINE at == command.at + 1
               tables == Tables(command.name)
               rows == {r \in Rows : Table[r] = tables[at]}
    <2>1. /\ Running /\ DOMAIN command.batch = {}
          /\ UNCHANGED <<store, written, service, env, backup, racedWrites>>
      BY <1>5, Zenon DEF SelectTable
    <2>2. CASE at > Len(tables)
      <3>1. command' = [command EXCEPT !.name = "none", !.batch = <<>>] /\ outcome' = "done"
        BY <1>5, <2>2, Zenon DEF SelectTable
      <3>2. RekeyTypeOK'
        BY <2>1, <3>1, <1>a, Zenon DEF RekeyInv, RekeyTypeOK, Running
      <3>3. service = NoKey => command.name = "rekey"
        BY <2>1, Zenon DEF RekeyInv, RekeyTypeOK, Running
      <3>4. command.name = "rekey" => command.at >= 7
        BY <2>2 DEF Tables, RekeyTables, RekeyInv, RekeyTypeOK
      <3>5. ASSUME NEW r \in Rows, command.name = "rekey" PROVE Passed(r)
        <4>1. PICK i \in 1 .. 7 : RekeyTables[i] = Table[r]
          BY TablesCover, Zenon
        <4>2. command.at \in Nat /\ r \notin DOMAIN command.batch
          BY <2>1, Zenon DEF RekeyInv, RekeyTypeOK
        <4> QED BY <4>1, <4>2, <3>4, <3>5 DEF Passed
      <3>6. service = NoKey => \A r \in Rows : store[r].key = command.new
        BY <3>3, <3>5, Zenon DEF RekeyInv
      <3>7. command'.new = command.new /\ command'.name = "none"
        BY <3>1, Zenon DEF RekeyInv, RekeyTypeOK
      <3> QED BY <2>1, <3>1, <3>2, <3>6, <3>7 DEF RekeyInv, Running, Readable
    <2>3. CASE ~(at > Len(tables))
      <3> DEFINE read == [r \in rows |-> store[r]]
      <3>1. /\ command' = [command EXCEPT !.at = at, !.batch = read]
            /\ outcome' = outcome
        BY <1>5, <2>3, Zenon DEF SelectTable
      <3>2. read \in Batches
        <4>1. read \in [rows -> Values] /\ rows \in SUBSET Rows
          BY Zenon DEF RekeyInv, RekeyTypeOK
        <4> QED BY <4>1, Zenon
      <3>3. /\ command'.name = command.name /\ command'.new = command.new
            /\ command'.at = command.at + 1 /\ DOMAIN command'.batch = rows
        BY <3>1, Zenon DEF RekeyInv, RekeyTypeOK
      <3>4. RekeyTypeOK'
        <4> HIDE DEF read
        <4>1. at \in Nat
          BY DEF RekeyInv, RekeyTypeOK
        <4> HIDE DEF at
        <4> QED BY <2>1, <3>1, <3>2, <4>1, Zenon DEF RekeyInv, RekeyTypeOK, Running
      <3>5. ASSUME NEW r \in Rows, Passed(r)', command.name = "rekey" PROVE Passed(r)
        <4>1. PICK i \in 1 .. 7 :
                /\ RekeyTables[i] = Table[r]
                /\ i < command.at + 1 \/ (i = command.at + 1 /\ r \notin rows)
          BY <3>3, <3>5, Zenon DEF Passed
        <4>2. tables = RekeyTables
          BY <3>5, Zenon DEF Tables
        <4>3. i < command.at + 1
          BY <4>1, <4>2, Zenon
        <4>4. command.at \in Nat /\ r \notin DOMAIN command.batch
          BY <2>1, Zenon DEF RekeyInv, RekeyTypeOK
        <4>5. i < command.at \/ i = command.at
          BY <4>3, <4>4
        <4> QED BY <4>1, <4>4, <4>5, Zenon DEF Passed
      <3> QED BY <2>1, <3>1, <3>3, <3>4, <3>5, Zenon DEF RekeyInv, Running, Readable
    <2> QED BY <2>2, <2>3, Zenon
  <1>6. ASSUME NEW r \in DOMAIN command.batch, RewriteRow(r) PROVE RekeyInv'
    <2> DEFINE read == command.batch[r]
               value == rekey_value(command.old, command.new, read)
               rest == DOMAIN command.batch \ {r}
    <2>1. UNCHANGED <<written, service, env, backup>>
      BY <1>6, Zenon DEF RewriteRow
    <2>2. PICK S \in SUBSET Rows : command.batch \in [S -> Values]
      BY Zenon DEF RekeyInv, RekeyTypeOK
    <2>3. r \in Rows /\ read \in Values
      BY <2>2, Zenon
    <2>4. CASE value = Error
      <3>1. command' = NoCommand /\ outcome' = "failed" /\ UNCHANGED <<store, racedWrites>>
        BY <1>6, <2>4, Zenon DEF RewriteRow
      <3> QED BY <3>1, <2>1, <1>b, <1>c, Zenon DEF RekeyInv, RekeyTypeOK, Running, Readable
    <2>5. CASE value # Error
      <3> DEFINE left == [q \in rest |-> command.batch[q]]
      <3>1. /\ store' = [store EXCEPT ![r] = value]
            /\ racedWrites' = IF read.data # store[r].data
                              THEN racedWrites \cup {r} ELSE racedWrites
            /\ command' = [command EXCEPT !.batch = left]
            /\ outcome' = outcome
        BY <1>6, <2>5, Zenon DEF RewriteRow
      <3>2. value = [data |-> read.data, key |-> command.new]
        BY <2>5, Zenon DEF rekey_value, encrypt
      <3>3. Running
        BY Zenon DEF RekeyInv
      <3>4. value \in Values /\ value.key = command.new /\ value.data = read.data
        <4>1. command.new \in Keys /\ read.data \in Nat
          BY <3>3, <2>3, Zenon DEF Values, RekeyInv, RekeyTypeOK
        <4> HIDE DEF value, read
        <4> QED BY <3>2, <4>1, Zenon DEF Values
      <3>5. left \in Batches
        <4>1. left \in [rest -> Values] /\ rest \in SUBSET Rows
          BY <2>2, Zenon
        <4> QED BY <4>1, Zenon
      <3> HIDE DEF value, left
      <3>6. /\ command'.name = command.name /\ command'.new = command.new
            /\ command'.at = command.at /\ DOMAIN command'.batch = rest
        BY <3>1, Zenon DEF RekeyInv, RekeyTypeOK, left
      <3>7. RekeyTypeOK'
        BY <2>1, <2>3, <3>1, <3>4, <3>5, Zenon DEF RekeyInv, RekeyTypeOK, Running
      <3>8. \A q \in Rows : store'[q] = IF q = r THEN value ELSE store[q]
        BY <3>1, Zenon DEF RekeyInv, RekeyTypeOK
      <3>9. service # NoKey => Readable(env, store)'
        <4>1. service # NoKey => command.new = env
          BY <3>3, Zenon DEF RekeyInv, RekeyTypeOK, Running
        <4> QED BY <4>1, <2>1, <3>4, <3>8, Zenon DEF RekeyInv, Readable, CanDecrypt
      <3>10. ASSUME command.name = "rekey", NEW q \in Rows, Passed(q)'
             PROVE  store'[q].key = command.new
        <4>1. q # r => Passed(q)
          BY <3>6, <3>10, Zenon DEF Passed
        <4> QED BY <4>1, <3>4, <3>8, <3>10, Zenon DEF RekeyInv
      <3>11. \A q \in Rows \ racedWrites' : store'[q].data = written'[q]
        BY <2>1, <3>1, <3>4, <3>8 DEF RekeyInv
      <3> QED BY <2>1, <3>1, <3>3, <3>6, <3>7, <3>9, <3>10, <3>11, Zenon DEF RekeyInv, Running
    <2> QED BY <2>4, <2>5, Zenon
  <1>7. CASE Interrupted
    BY <1>7, <1>b, <1>c, Zenon DEF Interrupted, RekeyInv, RekeyTypeOK, Running, Readable
  <1>8. CASE StopMaster
    BY <1>8, <1>b, <1>c, Zenon DEF StopMaster, RekeyInv, RekeyTypeOK, Running, Readable
  <1>9. CASE Restore
    BY <1>9, Zenon DEF Restore, RekeyInv, RekeyTypeOK, Running, Readable
  <1>10. CASE StartAgain
    BY <1>10, Zenon DEF StartAgain, RekeyInv, RekeyTypeOK, Running, Readable
  <1>11. CASE UNCHANGED rekeyVars
    BY <1>11, Zenon DEF rekeyVars, RekeyInv, RekeyTypeOK, Running, Readable, Passed
  <1> QED BY <1>1, <1>2, <1>3, <1>4, <1>5, <1>6, <1>7, <1>8, <1>9, <1>10, <1>11, Zenon DEF RekeyNext

\* A secret survives its rotations, for every set of rows, keys and writes:
\* whatever the operator did before, a serving master opens every row, and the
\* row says what was stored, but for the writes reencrypt raced with
\* (rekey_secrets, reencrypt_secrets, docs/runbooks.md).
THEOREM RotationKeepsSecrets == RekeySpec => []SecretsSurvive
  <1>1. RekeyInv => SecretsSurvive
    BY Zenon DEF RekeyInv, SecretsSurvive, MasterReadsAll, OnlyRacedWritesLost, Readable
  <1> QED BY <1>1, RekeyInvInit, RekeyInvStep, PTL DEF RekeySpec

-----------------------------------------------------------------------------
(* Nobody is cut before the quota is spent. *)

\* The counters, and what is on its way to the agent.
QuotaTypeOK ==
    /\ carried \in 0 .. Limit /\ used \in 0 .. carried
    /\ total \in Nat /\ quota \in Nat /\ baseline \in Nat
    /\ push \in [sent : BOOLEAN, active : BOOLEAN, left : 0 .. Limit, old : BOOLEAN]
    /\ suppressed \in BOOLEAN /\ old \in BOOLEAN

\* The inductive invariant: a pushed remainder never falls short of what the
\* window has left, on its way and as the agent counts it down.
QuotaInv ==
    /\ QuotaTypeOK
    /\ push.sent /\ push.active /\ ~push.old => push.left + carried >= Limit
    /\ quota # 0 => total >= baseline
    /\ quota # 0 /\ ~old => carried = Limit \/ carried + quota >= Limit + (total - baseline)
    /\ CutMeansSpent

\* Nothing is carried, pushed or counted at the start.
LEMMA QuotaInvInit == QuotaInit => QuotaInv
  <1> SUFFICES ASSUME QuotaInit PROVE QuotaInv
    BY Zenon
  <1>1. NoPush \in [sent : BOOLEAN, active : BOOLEAN, left : 0 .. Limit, old : BOOLEAN]
    BY LimitAssumption DEF NoPush
  <1>2. QuotaTypeOK
    <2>1. suppressed \in BOOLEAN /\ old \in BOOLEAN
      BY Zenon DEF QuotaInit
    <2>2. /\ push = NoPush /\ used = 0 /\ carried = 0
          /\ total = 0 /\ quota = 0 /\ baseline = 0
      BY Zenon DEF QuotaInit
    <2> QED BY <1>1, <2>1, <2>2, LimitAssumption DEF QuotaTypeOK
  <1> QED BY <1>2, Zenon DEF QuotaInit, QuotaInv, CutMeansSpent, NoPush

\* Traffic, samples, pushes, resets and restarts keep it.
LEMMA QuotaInvStep == QuotaInv /\ [QuotaNext]_quotaVars => QuotaInv'
  <1> SUFFICES ASSUME QuotaInv, [QuotaNext]_quotaVars PROVE QuotaInv'
    BY Zenon
  <1> USE LimitAssumption DEF QuotaInv, QuotaTypeOK, CutMeansSpent, windowVars, agentVars
  <1>1. CASE Clock \/ LoopScan \/ LoopAdvance \/ LoopFails \/ LoopSkipsPush
    BY <1>1 DEF Clock, LoopScan, LoopAdvance, LoopFails, LoopSkipsPush
  <1>2. CASE \E i \in Intervals : set_quota_interval(i)
    BY <1>2 DEF set_quota_interval
  <1>3. CASE ResetByAdmin \/ LoopReset
    <2>1. /\ used' = 0 /\ carried' = 0 /\ old' = TRUE
          /\ push' = [push EXCEPT !.old = push.sent]
          /\ total' = total /\ quota' = quota /\ baseline' = baseline /\ suppressed' = suppressed
      BY <1>3, Zenon DEF ResetByAdmin, LoopReset, reset_user_traffic
    <2>2. push' \in [sent : BOOLEAN, active : BOOLEAN, left : 0 .. Limit, old : BOOLEAN]
      BY <2>1, Zenon
    <2>3. push'.sent => push'.old
      BY <2>1, Zenon
    <2> QED BY <2>1, <2>2, <2>3
  <1>4. CASE Recorded
    BY <1>4 DEF Recorded
  <1>5. CASE PushBuild
    BY <1>5 DEF PushBuild
  <1>6. CASE PushFails
    BY <1>6 DEF PushFails, NoPush
  <1>7. CASE PushApply
    <2>1. NoPush \in [sent : BOOLEAN, active : BOOLEAN, left : 0 .. Limit, old : BOOLEAN]
      BY DEF NoPush
    <2>2. ~NoPush.sent
      BY Zenon DEF NoPush
    <2>3. /\ push' = NoPush /\ old' = push.old /\ ~suppressed' /\ suppressed' \in BOOLEAN
          /\ UNCHANGED <<used, carried, total>>
      BY <1>7, Zenon DEF PushApply
    <2>4. push.sent /\ baseline' = (IF push.active THEN total ELSE 0)
           /\ quota' = (IF push.active THEN push.left ELSE 0)
      BY <1>7, Zenon DEF PushApply, captureQuota
    <2>5. QuotaTypeOK'
      BY <2>1, <2>3, <2>4
    <2>6. old' <=> push.old
      BY <2>3, Zenon
    <2> QED BY <2>2, <2>3, <2>4, <2>5, <2>6
  <1>8. CASE Connect
    BY <1>8, Zenon DEF Connect
  <1>9. CASE Poll
    BY <1>9 DEF Poll
  <1>10. CASE EnforceQuota \/ EnforceFails
    <2>1. (suppressed' <=> Decide) /\ suppressed' \in BOOLEAN
      BY <1>10, Zenon DEF EnforceQuota, EnforceFails, Decide
    <2>2. Decide /\ ~old => carried >= Limit
      BY DEF Decide
    <2>3. UNCHANGED <<used, carried, total, quota, baseline, push, old>>
      BY <1>10, Zenon DEF EnforceQuota, EnforceFails
    <2> QED BY <2>1, <2>2, <2>3, Zenon
  <1>11. CASE AgentForgets
    <2>1. /\ total' \in 0 .. total /\ quota' = 0 /\ baseline' = 0
          /\ ~suppressed' /\ suppressed' \in BOOLEAN
          /\ UNCHANGED <<used, carried, push, old>>
      BY <1>11, Zenon DEF AgentForgets
    <2> QED BY <2>1
  <1>12. CASE UNCHANGED quotaVars
    BY <1>12, Zenon DEF quotaVars
  <1> QED BY <1>1, <1>2, <1>3, <1>4, <1>5, <1>6, <1>7, <1>8, <1>9, <1>10, <1>11, <1>12, Zenon DEF QuotaNext

\* The agent cuts nobody early, for every limit and every interleaving of
\* traffic, recording, resets, pushes and agent restarts.
THEOREM NobodyIsCutEarly == QuotaSpec => []CutMeansSpent
  <1>1. QuotaInv => CutMeansSpent
    BY Zenon DEF QuotaInv
  <1> QED BY <1>1, QuotaInvInit, QuotaInvStep, PTL DEF QuotaSpec

(* The bot: no update is dropped by Telegram before it was answered, for
   every number of instances, updates, crashes and changes of the leader. *)

AllBefore(k, H) == \A l \in 1 .. k - 1 : l \in H

\* Where an instance stands: what is before the update in hand is handled,
\* and between polls so is everything before the offset.
BotPlace(b, H) ==
    /\ b.offset \in Nat /\ b.at \in Nat
    /\ b = [pc |-> b.pc, offset |-> b.offset, at |-> b.at, last |-> b.last,
            id |-> b.id, found |-> b.found]
    /\ b.pc \in Working => b.offset = b.at + 1 /\ AllBefore(b.at, H)
    /\ b.pc \notin Working => AllBefore(b.offset, H)

\* The inductive invariant of the bot.
BotInv ==
    /\ confirmed \in Nat /\ AllBefore(confirmed, handled)
    /\ bot = [i \in BotHosts |-> bot[i]]
    /\ \A i \in BotHosts : BotPlace(bot[i], handled)

\* A step of one instance that handles more and confirms what is handled.
LEMMA OneBotMoves ==
    ASSUME BotInv, NEW i \in BotHosts, NEW b, BotPlace(b, handled'),
           bot' = [bot EXCEPT ![i] = b], handled \subseteq handled',
           confirmed' \in Nat, AllBefore(confirmed', handled')
    PROVE  BotInv'
  <1>1. ASSUME NEW j \in BotHosts PROVE BotPlace(bot'[j], handled')
    <2>1. CASE j = i
      <3>1. bot'[j] = b
        BY <2>1, Zenon DEF BotInv
      <3> QED BY <3>1, Zenon
    <2>2. CASE j # i
      <3>1. bot'[j] = bot[j] /\ BotPlace(bot[j], handled)
        BY <2>2, Zenon DEF BotInv
      <3>2. \A n : AllBefore(n, handled) => AllBefore(n, handled')
        BY Zenon DEF AllBefore
      <3>3. BotPlace(bot[j], handled')
        BY <3>1, <3>2, Zenon DEF BotPlace
      <3> QED BY <3>1, <3>3, Zenon
    <2> QED BY <2>1, <2>2, Zenon
  <1>2. bot' = [j \in BotHosts |-> bot'[j]]
    BY Zenon DEF BotInv
  <1> QED BY <1>1, <1>2, Zenon DEF BotInv

\* The two places of the loop.
LEMMA BotAtUpdate ==
    \A H : \A k \in Nat : \A end : AllBefore(k, H) => BotPlace(AtUpdate(k, end), H)
  <1> SUFFICES ASSUME NEW H, NEW k \in Nat, NEW end, AllBefore(k, H)
               PROVE  BotPlace(AtUpdate(k, end), H)
    BY Zenon
  <1> DEFINE b == AtUpdate(k, end)
  <1>1. /\ b.pc = "role" /\ b.at = k /\ b.offset = k + 1 /\ b.last = end
        /\ b.id = 0 /\ b.found = NoUser
    BY Zenon DEF AtUpdate
  <1>2. b = [pc |-> b.pc, offset |-> b.offset, at |-> b.at, last |-> b.last,
             id |-> b.id, found |-> b.found]
    BY <1>1, Zenon DEF AtUpdate
  <1>3. k + 1 \in Nat
    BY SMT
  <1> HIDE DEF b
  <1>4. b.pc \in Working
    BY <1>1, Zenon DEF Working
  <1>5. BotPlace(b, H)
    BY <1>1, <1>2, <1>3, <1>4, Zenon DEF BotPlace
  <1> QED BY <1>5, Zenon DEF b

LEMMA BotAtRest ==
    \A H : \A n \in Nat : AllBefore(n, H) => BotPlace(AtRest(n), H)
  <1> SUFFICES ASSUME NEW H, NEW n \in Nat, AllBefore(n, H) PROVE BotPlace(AtRest(n), H)
    BY Zenon
  <1> DEFINE b == AtRest(n)
  <1>1. /\ b.pc = "rest" /\ b.at = 0 /\ b.offset = n /\ b.last = 0
        /\ b.id = 0 /\ b.found = NoUser
    BY Zenon DEF AtRest
  <1>2. b = [pc |-> b.pc, offset |-> b.offset, at |-> b.at, last |-> b.last,
             id |-> b.id, found |-> b.found]
    BY <1>1, Zenon DEF AtRest
  <1>3. 0 \in Nat
    BY SMT
  <1> HIDE DEF b
  <1>4. b.pc \notin Working
    BY <1>1, Zenon DEF Working
  <1>5. BotPlace(b, H)
    BY <1>1, <1>2, <1>3, <1>4, Zenon DEF BotPlace
  <1> QED BY <1>5, Zenon DEF b

\* A step inside the handling of an update.
LEMMA BotHandles ==
    ASSUME BotInv, NEW i \in BotHosts, bot[i].pc \in Working, NEW l \in Working,
           NEW d, NEW f,
           bot' = [bot EXCEPT ![i] = [pc |-> l, offset |-> bot[i].offset, at |-> bot[i].at,
                                      last |-> bot[i].last, id |-> d, found |-> f]],
           UNCHANGED <<handled, confirmed>>
    PROVE  BotInv'
  <1> DEFINE b == [pc |-> l, offset |-> bot[i].offset, at |-> bot[i].at,
                   last |-> bot[i].last, id |-> d, found |-> f]
  <1>1. BotPlace(bot[i], handled) /\ confirmed \in Nat /\ AllBefore(confirmed, handled)
    BY Zenon DEF BotInv
  <1>2. /\ b.pc = l /\ b.offset = bot[i].offset /\ b.at = bot[i].at
        /\ b.last = bot[i].last /\ b.id = d /\ b.found = f
    BY Zenon
  <1>3. b = [pc |-> b.pc, offset |-> b.offset, at |-> b.at, last |-> b.last,
             id |-> b.id, found |-> b.found]
    BY <1>2, Zenon
  <1> HIDE DEF b
  <1>4. BotPlace(b, handled)
    BY <1>1, <1>2, <1>3, Zenon DEF BotPlace
  <1>5. handled' = handled /\ confirmed' = confirmed
    BY Zenon
  <1>6. bot' = [bot EXCEPT ![i] = b]
    BY Zenon DEF b
  <1> QED BY <1>1, <1>4, <1>5, <1>6, OneBotMoves, ZenonT(60)

\* The program counter alone moves.
LEMMA BotGoes ==
    ASSUME BotInv, NEW i \in BotHosts, NEW l, bot' = [bot EXCEPT ![i].pc = l]
    PROVE  bot' = [bot EXCEPT ![i] = [pc |-> l, offset |-> bot[i].offset, at |-> bot[i].at,
                       last |-> bot[i].last, id |-> bot[i].id, found |-> bot[i].found]]
  <1>1. bot[i] = [pc |-> bot[i].pc, offset |-> bot[i].offset, at |-> bot[i].at,
                  last |-> bot[i].last, id |-> bot[i].id, found |-> bot[i].found]
    BY Zenon DEF BotInv, BotPlace
  <1>2. [bot[i] EXCEPT !.pc = l] =
            [pc |-> l, offset |-> bot[i].offset, at |-> bot[i].at,
             last |-> bot[i].last, id |-> bot[i].id, found |-> bot[i].found]
    BY <1>1
  <1>3. bot' = [bot EXCEPT ![i] = [bot[i] EXCEPT !.pc = l]]
    BY Zenon
  <1> QED BY <1>2, <1>3, Zenon

\* One more update is handled.
LEMMA OneMore ==
    ASSUME NEW n \in Nat, NEW H, AllBefore(n, H)
    PROVE  n + 1 \in Nat /\ AllBefore(n + 1, H \union {n})
  BY DEF AllBefore

\* An update comes to its end: it is handled, and the loop goes to the next.
LEMMA BotNextUpdate ==
    ASSUME BotInv, NEW i \in BotHosts, bot[i].pc \in Working, NextUpdate(i),
           UNCHANGED confirmed
    PROVE  BotInv'
  <1>1. BotPlace(bot[i], handled) /\ confirmed \in Nat /\ AllBefore(confirmed, handled)
    BY Zenon DEF BotInv
  <1>2. /\ bot[i].offset \in Nat /\ bot[i].at \in Nat /\ bot[i].offset = bot[i].at + 1
        /\ AllBefore(bot[i].at, handled)
        /\ bot[i] = [pc |-> bot[i].pc, offset |-> bot[i].offset, at |-> bot[i].at,
                     last |-> bot[i].last, id |-> bot[i].id, found |-> bot[i].found]
    BY <1>1, Zenon DEF BotPlace
  <1>3. handled' = handled \union {bot[i].at} /\ handled \subseteq handled'
    BY Zenon DEF NextUpdate
  <1>4. AllBefore(bot[i].at + 1, handled')
    BY <1>2, <1>3, OneMore, Zenon
  <1>5. AllBefore(confirmed', handled') /\ confirmed' \in Nat
    BY <1>1, <1>3, Zenon DEF AllBefore
  <1> DEFINE more == AtUpdate(bot[i].at + 1, bot[i].last)
             rest == AtRest(bot[i].offset)
  <1>6. bot' = [bot EXCEPT ![i] = more] \/ bot' = [bot EXCEPT ![i] = rest]
    BY Zenon DEF NextUpdate
  <1>7. BotPlace(more, handled')
    <2>1. bot[i].at + 1 \in Nat
      BY <1>2, OneMore, Zenon
    <2> QED BY <1>4, <2>1, BotAtUpdate, Zenon
  <1>8. BotPlace(rest, handled')
    BY <1>2, <1>4, BotAtRest, Zenon
  <1> HIDE DEF more, rest
  <1> QED BY <1>3, <1>5, <1>6, <1>7, <1>8, OneBotMoves, Zenon

\* An answer of Telegram, or none: what is confirmed is before an offset that
\* was sent after everything before it had been handled.
LEMMA BotPolls ==
    ASSUME BotInv, NEW i \in BotHosts, get_updates(i)
    PROVE  BotInv'
  <1> DEFINE from == Larger(confirmed, bot[i].offset)
             new == AtUpdate(from, Smaller(Len(updates), from + PollLimit - 1))
             rest == AtRest(bot[i].offset)
             kept == [pc |-> "rest", offset |-> bot[i].offset, at |-> bot[i].at,
                      last |-> bot[i].last, id |-> bot[i].id, found |-> bot[i].found]
  <1>1. BotPlace(bot[i], handled) /\ confirmed \in Nat /\ AllBefore(confirmed, handled)
    BY Zenon DEF BotInv
  <1>2. bot[i].pc = "poll" /\ bot[i].pc \notin Working
    BY Zenon DEF get_updates, Working
  <1>3. /\ bot[i].offset \in Nat /\ bot[i].at \in Nat /\ AllBefore(bot[i].offset, handled)
        /\ bot[i] = [pc |-> bot[i].pc, offset |-> bot[i].offset, at |-> bot[i].at,
                     last |-> bot[i].last, id |-> bot[i].id, found |-> bot[i].found]
    BY <1>1, <1>2, Zenon DEF BotPlace
  <1>4. from \in Nat /\ AllBefore(from, handled)
    BY <1>1, <1>3, Zenon DEF Larger
  <1>5. handled' = handled /\ confirmed' \in {confirmed, from}
    BY Zenon DEF get_updates, PollFails
  <1>6. \/ bot' = [bot EXCEPT ![i] = new] \/ bot' = [bot EXCEPT ![i] = rest]
        \/ bot' = [bot EXCEPT ![i] = kept]
    <2>1. CASE bot' = [bot EXCEPT ![i] = Received(bot[i], from)]
      BY <2>1, Zenon DEF Received
    <2>2. CASE bot' = [bot EXCEPT ![i].pc = "rest"]
      BY <2>2, BotGoes, Zenon
    <2>3. \/ bot' = [bot EXCEPT ![i] = Received(bot[i], from)]
          \/ bot' = [bot EXCEPT ![i].pc = "rest"]
      BY Zenon DEF get_updates, PollFails
    <2> QED BY <2>1, <2>2, <2>3, Zenon
  <1>7. BotPlace(new, handled') /\ BotPlace(rest, handled')
    BY <1>3, <1>4, <1>5, BotAtUpdate, BotAtRest, Zenon
  <1>8. BotPlace(kept, handled')
    <2>1. /\ kept.offset = bot[i].offset /\ kept.at = bot[i].at /\ kept.pc \notin Working
          /\ kept = [pc |-> kept.pc, offset |-> kept.offset, at |-> kept.at,
                     last |-> kept.last, id |-> kept.id, found |-> kept.found]
      BY Zenon DEF Working
    <2> HIDE DEF kept
    <2> QED BY <1>3, <1>5, <2>1, Zenon DEF BotPlace
  <1>9. confirmed' \in Nat /\ AllBefore(confirmed', handled')
    BY <1>1, <1>4, <1>5, Zenon
  <1> HIDE DEF new, rest, kept, from
  <1> QED BY <1>5, <1>6, <1>7, <1>8, <1>9, OneBotMoves, Zenon

\* Every step of the bot keeps the invariant.
LEMMA BotInvStep == BotInv /\ [BotNext]_botVars => BotInv'
  <1> SUFFICES ASSUME BotInv, [BotNext]_botVars PROVE BotInv'
    BY Zenon
  <1>1. ASSUME UNCHANGED <<confirmed, handled, bot>> PROVE BotInv'
    BY <1>1, Zenon DEF BotInv
  <1>2. ASSUME NEW c \in Orders, Tell(c) PROVE BotInv'
    BY <1>1, <1>2, Zenon DEF Tell
  <1>3. ASSUME NEW i \in BotHosts, Takeover(i) PROVE BotInv'
    BY <1>1, <1>3, Zenon DEF Takeover
  <1>4. ASSUME NEW i \in BotHosts, BotCrash(i) PROVE BotInv'
    <2>1. AllBefore(0, handled) /\ 0 \in Nat
      BY SMT DEF AllBefore
    <2>2. /\ bot' = [bot EXCEPT ![i] = AtRest(0)]
          /\ handled' = handled /\ confirmed' = confirmed
      BY <1>4, Zenon DEF BotCrash
    <2>3. BotPlace(AtRest(0), handled')
      BY <2>1, <2>2, BotAtRest, Zenon
    <2>4. confirmed' \in Nat /\ AllBefore(confirmed', handled')
      BY <2>2, Zenon DEF BotInv
    <2>5. handled \subseteq handled'
      BY <2>2, Zenon
    <2> QED BY <2>2, <2>3, <2>4, <2>5, OneBotMoves, Zenon
  <1>5. ASSUME NEW i \in BotHosts, run(i) PROVE BotInv'
    <2> DEFINE b == [pc |-> "poll", offset |-> bot[i].offset, at |-> bot[i].at,
                     last |-> bot[i].last, id |-> bot[i].id, found |-> bot[i].found]
    <2>1. bot' = [bot EXCEPT ![i] = b] /\ handled' = handled /\ confirmed' = confirmed
      BY <1>5, BotGoes, Zenon DEF run
    <2>2. bot[i].pc \notin Working
      BY <1>5, Zenon DEF run, Working
    <2>3. BotPlace(bot[i], handled) /\ confirmed \in Nat /\ AllBefore(confirmed, handled)
      BY Zenon DEF BotInv
    <2>4. /\ b.offset = bot[i].offset /\ b.at = bot[i].at /\ b.pc \notin Working
          /\ b = [pc |-> b.pc, offset |-> b.offset, at |-> b.at, last |-> b.last,
                  id |-> b.id, found |-> b.found]
      BY Zenon DEF Working
    <2> HIDE DEF b
    <2>5. BotPlace(b, handled)
      BY <2>2, <2>3, <2>4, Zenon DEF BotPlace
    <2> QED BY <2>1, <2>3, <2>5, OneBotMoves, Zenon
  <1>6. ASSUME NEW i \in BotHosts, NoText(i) \/ send_message(i) PROVE BotInv'
    <2>1. bot[i].pc \in Working
      BY <1>6, Zenon DEF NoText, send_message, Working
    <2>2. NextUpdate(i) /\ UNCHANGED confirmed
      BY <1>6, Zenon DEF NoText, send_message
    <2> QED BY <2>1, <2>2, BotNextUpdate, Zenon
  <1>7. ASSUME NEW i \in BotHosts, NEW l \in Working, bot[i].pc \in Working,
               BotAt(i, l), UNCHANGED <<handled, confirmed>>
        PROVE  BotInv'
    <2>1. bot' = [bot EXCEPT ![i] = [pc |-> l, offset |-> bot[i].offset, at |-> bot[i].at,
                       last |-> bot[i].last, id |-> bot[i].id, found |-> bot[i].found]]
      BY <1>7, BotGoes, Zenon DEF BotAt
    <2> QED BY <1>7, <2>1, BotHandles, Zenon
  <1>8. ASSUME NEW i \in BotHosts, reads_reply(i) \/ handle(i) PROVE BotInv'
    <2>1. bot[i].pc \in Working /\ UNCHANGED <<handled, confirmed>>
      BY <1>8, Zenon DEF reads_reply, handle, Working
    <2>2. \E l \in Working : BotAt(i, l)
      BY <1>8, Zenon DEF reads_reply, handle, Working
    <2> QED BY <1>7, <2>1, <2>2, Zenon
  <1>9. ASSUME NEW i \in BotHosts, get_user_by_name(i) PROVE BotInv'
    <2>1. bot[i].pc \in Working /\ UNCHANGED <<handled, confirmed>>
      BY <1>9, Zenon DEF get_user_by_name, Working
    <2>2. CASE BotAt(i, "reply")
      BY <1>7, <2>1, <2>2, Zenon DEF Working
    <2>3. CASE bot' = [bot EXCEPT ![i] = [pc |-> "write", offset |-> bot[i].offset,
                         at |-> bot[i].at, last |-> bot[i].last, id |-> rowid,
                         found |-> client]]
      <3>1. "write" \in Working
        BY Zenon DEF Working
      <3> QED BY <2>1, <2>3, <3>1, BotHandles, Zenon
    <2> QED BY <1>9, <2>2, <2>3, Zenon DEF get_user_by_name
  <1>10. ASSUME NEW i \in BotHosts, add_user_reply(i) PROVE BotInv'
    <2>1. bot[i].pc \in Working /\ UNCHANGED <<handled, confirmed>>
      BY <1>10, Zenon DEF add_user_reply, Working
    <2>2. \E l \in Working : BotAt(i, l)
      BY <1>10, Zenon DEF add_user_reply, Working, Effected, Refused
    <2> QED BY <1>7, <2>1, <2>2, Zenon
  <1>11. ASSUME NEW i \in BotHosts, update_reply(i) PROVE BotInv'
    <2>1. bot[i].pc \in Working /\ UNCHANGED <<handled, confirmed>>
      BY <1>11, Zenon DEF update_reply, Working
    <2>2. \E l \in Working : BotAt(i, l)
      BY <1>11, Zenon DEF update_reply, Working, Effected, Refused
    <2> QED BY <1>7, <2>1, <2>2, Zenon
  <1>12. ASSUME NEW i \in BotHosts, audit_bot(i) PROVE BotInv'
    <2>1. bot[i].pc \in Working /\ UNCHANGED <<handled, confirmed>> /\ BotAt(i, "reply")
      BY <1>12, Zenon DEF audit_bot, Working
    <2> QED BY <1>7, <2>1, Zenon DEF Working
  <1>13. ASSUME PanelEdit \/ add_tg_chat \/ delete_tg_chat PROVE BotInv'
    BY <1>1, <1>13, Zenon DEF PanelEdit, add_tg_chat, delete_tg_chat
  <1>14. CASE UNCHANGED botVars
    BY <1>1, <1>14, Zenon DEF botVars
  <1> QED
    BY <1>2, <1>3, <1>4, <1>5, <1>6, <1>8, <1>9, <1>10, <1>11, <1>12, <1>13, <1>14,
       BotPolls, Zenon DEF BotNext, BotStep

\* Telegram never drops an update that no instance of the bot came to the end
\* of, however many instances, crashes, lost answers and changes of the leader
\* there are (telegram.rs, run and get_updates).
THEOREM NoUpdateIsLost == BotSpec => []ConfirmedIsAnswered
  <1>1. BotInit => BotInv
    <2> SUFFICES ASSUME BotInit PROVE BotInv
      BY Zenon
    <2>1. AllBefore(1, handled) /\ AllBefore(0, handled) /\ 0 \in Nat /\ 1 \in Nat
      BY SMT DEF AllBefore
    <2>2. confirmed = 1 /\ bot = [i \in BotHosts |-> AtRest(0)]
      BY Zenon DEF BotInit
    <2>3. ASSUME NEW i \in BotHosts PROVE BotPlace(bot[i], handled)
      <3>1. bot[i] = AtRest(0)
        BY <2>2, Zenon
      <3> QED BY <2>1, <3>1, BotAtRest, Zenon
    <2>4. bot = [i \in BotHosts |-> bot[i]]
      BY <2>2, Zenon
    <2> QED BY <2>1, <2>2, <2>3, <2>4, Zenon DEF BotInv
  <1>2. BotInv => ConfirmedIsAnswered
    BY Zenon DEF BotInv, AllBefore, ConfirmedIsAnswered
  <1> QED BY <1>1, <1>2, BotInvStep, PTL DEF BotSpec
=============================================================================
