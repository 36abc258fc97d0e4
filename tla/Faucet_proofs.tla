---------------------------- MODULE Faucet_proofs ----------------------------
(***************************************************************************)
(* Proofs about Faucet, for any number of worker threads and addresses.    *)
(***************************************************************************)
EXTENDS Faucet, SetInduction, FiniteSetTheorems

Steps == {"idle", "lock", "check", "send", "record"}

FaucetTypeOK ==
  /\ requests \in [Addresses -> SUBSET Nat]
  /\ payments \in [Addresses -> Seq(Nat)]
  /\ lock \in Workers \cup {Nobody}
  /\ step \in [Workers -> Steps]
  /\ address \in [Workers -> Addresses \cup {Nobody}]
  /\ now \in Nat
  /\ faults \in Nat

\* One worker at most is beyond the lock; a worker that is not idle has an
\* address.
OneAtATime ==
  \A w \in Workers :
    /\ step[w] \in {"check", "send", "record"} <=> lock = w
    /\ step[w] # "idle" => address[w] \in Addresses

\* The latest second that a clock reading lies in or after.
SecondOf(time) == time \div Second

\* What is stored was stored in the past.
StoredInThePast ==
  \A a \in Addresses :
    /\ \A s \in requests[a] : s <= SecondOf(now)
    /\ \A i \in 1..Len(payments[a]) : payments[a][i] <= now

\* Nothing is recorded and no time goes back between the check and the payment.
CheckStillHolds ==
  \A w \in Workers : step[w] = "send" => ~check_last_request(address[w])

\* The addresses just paid whose payment is about to be recorded.
Pending == {address[w] : w \in {v \in Workers : step[v] = "record"}}

\* There is a payment for each record and one more for a pending one.
PaidFirst ==
  \A a \in Addresses :
    Cardinality(requests[a]) + (IF a \in Pending THEN 1 ELSE 0) <= Len(payments[a])

\* The last payment was recorded when it was made, or later.
LastIsRecorded(a) ==
  \E s \in requests[a] : SecondOf(payments[a][Len(payments[a])]) <= s

\* The addresses whose last payment is not recorded and will not be.
Unrecorded ==
  {a \in Addresses : /\ Len(payments[a]) > 0
                     /\ ~LastIsRecorded(a)
                     /\ a \notin Pending}

\* Each payment that was not recorded has led to one that came too soon, or may
\* still lead to one.
FaultsAreCounted ==
  /\ IsFiniteSet(PaidTooSoon) /\ IsFiniteSet(Unrecorded)
  /\ Cardinality(PaidTooSoon) + Cardinality(Unrecorded) <= faults

\* The inductive invariant.
FaucetInvariant ==
  /\ FaucetTypeOK
  /\ OneAtATime
  /\ StoredInThePast
  /\ CheckStillHolds
  /\ PaidFirst
  /\ RecordsAreBacked
  /\ FaultsAreCounted

-----------------------------------------------------------------------------
(* Seconds, and the latest of the records. *)

LEMMA ConstantTypes ==
  /\ Second \in Nat \ {0} /\ Day \in Nat
  /\ Nobody \notin Workers /\ Nobody \notin Addresses
  BY FaucetAssumption

LEMMA SecondsOf ==
  ASSUME NEW t \in Nat
  PROVE  /\ SecondOf(t) \in Nat
         /\ SecondOf(t) * Second <= t
         /\ t < SecondOf(t) * Second + Second
  BY ConstantTypes DEF SecondOf

LEMMA SecondsGoOn ==
  ASSUME NEW t \in Nat, NEW u \in Nat, t <= u
  PROVE  SecondOf(t) <= SecondOf(u)
  BY ConstantTypes DEF SecondOf

LEMMA SecondsAreOrdered ==
  ASSUME NEW s \in Nat, NEW t \in Nat, s <= t
  PROVE  s * Second <= t * Second
<1>1. Second \in Nat
  BY ConstantTypes
<1>2. (t - s) * Second >= 0
  BY <1>1
<1>3. (t - s) * Second = t * Second - s * Second
  BY <1>1
<1>4. s * Second \in Nat /\ t * Second \in Nat
  BY <1>1
<1>5. QED
  BY <1>2, <1>3, <1>4

\* A set of naturals with a bound has a maximum.
LEMMA BoundedHasMax ==
  ASSUME NEW S \in SUBSET Nat, S # {}, NEW n \in Nat, \A s \in S : s <= n
  PROVE  Max(S) \in S /\ \A s \in S : s <= Max(S)
<1> DEFINE HasMax(R) == \E m \in R : \A s \in R : m >= s
           T == {k \in Nat : \A R \in SUBSET (0..k) : R # {} => HasMax(R)}
<1>1. 0 \in T
  <2>1. ASSUME NEW R \in SUBSET (0..0), R # {} PROVE HasMax(R)
    <3>1. \A s \in R : s = 0
      BY <2>1
    <3>2. 0 \in R
      BY <2>1, <3>1
    <3>3. QED
      BY <3>1, <3>2
  <2>2. QED
    BY <2>1
<1>2. ASSUME NEW k \in Nat, k \in T PROVE k + 1 \in T
  <2>1. ASSUME NEW R \in SUBSET (0..(k + 1)), R # {} PROVE HasMax(R)
    <3>1. CASE k + 1 \in R
      <4>1. \A s \in R : k + 1 >= s
        OBVIOUS
      <4>2. QED
        BY <3>1, <4>1
    <3>2. CASE k + 1 \notin R
      <4>1. R \in SUBSET (0..k)
        BY <3>2
      <4>2. QED
        BY <1>2, <2>1, <4>1
    <3>3. QED
      BY <3>1, <3>2
  <2>2. QED
    BY <2>1
<1>3. n \in T
  <2> HIDE DEF T
  <2>1. QED
    BY <1>1, <1>2, SetInductionOnNat
<1>4. S \in SUBSET (0..n)
  OBVIOUS
<1>5. HasMax(S)
  BY <1>3, <1>4
<1>6. PICK m \in S : \A s \in S : m >= s
  BY <1>5
<1>7. Max(S) \in S /\ \A s \in S : Max(S) >= s
  BY <1>6 DEF Max
<1>8. Max(S) \in Nat
  BY <1>7
<1>9. QED
  BY <1>7, <1>8

\* The table of an address is finite, and its latest record is a number.
LEMMA RecordsOfAddress ==
  ASSUME FaucetTypeOK, StoredInThePast, NEW a \in Addresses
  PROVE  /\ requests[a] \in SUBSET Nat
         /\ SecondOf(now) \in Nat
         /\ IsFiniteSet(requests[a]) /\ Cardinality(requests[a]) \in Nat
         /\ requests[a] # {} =>
              /\ Max(requests[a]) \in requests[a]
              /\ \A s \in requests[a] : s <= Max(requests[a])
<1>1. requests[a] \in SUBSET Nat /\ SecondOf(now) \in Nat
  BY SecondsOf DEF FaucetTypeOK
<1>2. \A s \in requests[a] : s <= SecondOf(now)
  BY DEF StoredInThePast
<1>3. IsFiniteSet(requests[a])
  BY <1>1, <1>2, FS_BoundedSetOfNaturals
<1>4. QED
  BY <1>1, <1>2, <1>3, FS_CardinalityType, BoundedHasMax

LEMMA PaymentsOfAddress ==
  ASSUME FaucetTypeOK, NEW a \in Addresses
  PROVE  /\ payments[a] \in Seq(Nat) /\ Len(payments[a]) \in Nat
         /\ \A i \in 1..Len(payments[a]) : payments[a][i] \in Nat
         /\ DOMAIN payments[a] = 1..Len(payments[a])
  BY DEF FaucetTypeOK

\* One payment more.
LEMMA AppendPayment ==
  ASSUME NEW p \in Seq(Nat), NEW t \in Nat
  PROVE  /\ Append(p, t) \in Seq(Nat)
         /\ Len(p) \in Nat
         /\ Len(Append(p, t)) = Len(p) + 1
         /\ DOMAIN p = 1..Len(p) /\ DOMAIN Append(p, t) = 1..(Len(p) + 1)
         /\ Append(p, t)[Len(p) + 1] = t
         /\ \A i \in 1..Len(p) : Append(p, t)[i] = p[i]
  OBVIOUS

-----------------------------------------------------------------------------
(* The steps, by what they do to what is stored. *)

\* The coins are paid to a.
Pays(a) ==
  /\ payments' = [payments EXCEPT ![a] = Append(@, now)]
  /\ UNCHANGED <<requests, now>>

\* Nothing that is stored changes, nor what is pending.
Leaves ==
  /\ UNCHANGED <<requests, payments, faults>>
  /\ Pending' = Pending
  /\ now' \in Nat /\ now <= now'

\* A payment that is going to be recorded, or one whose answer is lost.
Sends(a) ==
  /\ Pays(a) /\ ~check_last_request(a)
  /\ Pending = {} /\ Pending' = {a}
  /\ UNCHANGED faults

Loses(a) ==
  /\ Pays(a) /\ ~check_last_request(a)
  /\ Pending = {} /\ Pending' = {}
  /\ faults' = faults + 1

\* The pending payment is recorded, or its record is lost.
Records(a) ==
  /\ requests' = [requests EXCEPT ![a] = @ \cup {SecondOf(now)}]
  /\ UNCHANGED <<payments, faults, now>>
  /\ Pending = {a} /\ Pending' = {}

Misses(a) ==
  /\ UNCHANGED <<requests, payments, now>>
  /\ Pending = {a} /\ Pending' = {}
  /\ faults' = faults + 1

StoreSteps ==
  \/ Leaves
  \/ \E a \in Addresses : Sends(a) \/ Loses(a) \/ Records(a) \/ Misses(a)

\* The part of the invariant that is about the workers.
Control == FaucetTypeOK /\ OneAtATime /\ CheckStillHolds

LEMMA PendingIsOne ==
  ASSUME FaucetTypeOK, OneAtATime, NEW w \in Workers,
         step[w] \in {"check", "send", "record"}
  PROVE  /\ lock = w /\ address[w] \in Addresses
         /\ \A v \in Workers : v # w => step[v] \notin {"check", "send", "record"}
         /\ Pending = IF step[w] = "record" THEN {address[w]} ELSE {}
  BY DEF OneAtATime, Pending

\* Who passed the check goes on passing it.
LEMMA CheckGoesOn ==
  ASSUME FaucetTypeOK, StoredInThePast, NEW a \in Addresses,
         ~check_last_request(a),
         requests'[a] = requests[a], now' \in Nat, now <= now'
  PROVE  ~check_last_request(a)'
<1>1. CASE requests[a] = {}
  BY <1>1 DEF check_last_request
<1>2. CASE requests[a] # {}
  <2>1. Max(requests[a]) \in Nat /\ Second \in Nat /\ now \in Nat /\ Day \in Nat
    BY <1>2, RecordsOfAddress, ConstantTypes DEF FaucetTypeOK
  <2>2. Max(requests[a]) * Second \in Nat
    BY <2>1
  <2>3. ~(now - Max(requests[a]) * Second < Day)
    BY <1>2 DEF check_last_request
  <2> DEFINE since == Max(requests[a]) * Second
  <2> HIDE DEF since
  <2>4. ~(now' - since < Day)
    BY <2>1, <2>2, <2>3 DEF since
  <2>5. QED
    BY <2>4 DEF check_last_request, since
<1>3. QED
  BY <1>1, <1>2

\* Workers that are not beyond the lock may move without any effect.
LEMMA OutsideSteps ==
  ASSUME Control, StoredInThePast, NEW w \in Workers,
         \/ \E a \in Addresses : Receive(w, a)
         \/ Lock(w)
  PROVE  Control' /\ Leaves
<1>1. CASE \E a \in Addresses : Receive(w, a)
  <2>1. PICK a \in Addresses : Receive(w, a)
    BY <1>1
  <2>2. /\ UNCHANGED <<requests, payments, faults, lock, now>>
        /\ step[w] = "idle" /\ step' = [step EXCEPT ![w] = "lock"]
        /\ address' = [address EXCEPT ![w] = a]
    BY <2>1 DEF Receive, store
  <2>3. FaucetTypeOK'
    BY <2>2 DEF Control, FaucetTypeOK, Steps
  <2>4. \A v \in Workers : v # w => step'[v] = step[v] /\ address'[v] = address[v]
    BY <2>2 DEF Control, FaucetTypeOK
  <2>5. step'[w] = "lock" /\ address'[w] = a /\ lock # w
    BY <2>2 DEF Control, FaucetTypeOK, OneAtATime
  <2>6. OneAtATime'
    BY <2>2, <2>4, <2>5 DEF Control, OneAtATime
  <2>7. CheckStillHolds'
    BY <2>2, <2>4, <2>5 DEF Control, CheckStillHolds, check_last_request
  <2>8. Pending' = Pending
    BY <2>2, <2>4, <2>5 DEF Pending
  <2>9. QED
    BY <2>2, <2>3, <2>6, <2>7, <2>8 DEF Control, Leaves, FaucetTypeOK
<1>2. CASE Lock(w)
  <2>2. /\ UNCHANGED <<requests, payments, faults, address, now>>
        /\ lock = Nobody /\ lock' = w
        /\ step[w] = "lock" /\ step' = [step EXCEPT ![w] = "check"]
    BY <1>2 DEF Lock, IsFree, store
  <2>3. FaucetTypeOK'
    BY <2>2 DEF Control, FaucetTypeOK, Steps
  <2>4. \A v \in Workers : v # w => step'[v] = step[v]
    BY <2>2 DEF Control, FaucetTypeOK
  <2>5. step'[w] = "check"
    BY <2>2 DEF Control, FaucetTypeOK
  <2>6. \A v \in Workers : step[v] \notin {"check", "send", "record"}
    BY <2>2, ConstantTypes DEF Control, OneAtATime
  <2>7. OneAtATime'
    BY <2>2, <2>4, <2>5, <2>6 DEF Control, OneAtATime
  <2>8. CheckStillHolds'
    BY <2>4, <2>5, <2>6 DEF CheckStillHolds
  <2>9. Pending' = Pending
    BY <2>2, <2>4, <2>5 DEF Pending
  <2>10. QED
    BY <2>2, <2>3, <2>7, <2>8, <2>9 DEF Control, Leaves, FaucetTypeOK
<1>3. QED
  BY <1>1, <1>2

\* The worker that holds the lock returns.
LEMMA ReturnStep ==
  ASSUME Control, NEW w \in Workers, step[w] \in {"check", "send", "record"},
         Return(w), requests' \in [Addresses -> SUBSET Nat],
         payments' \in [Addresses -> Seq(Nat)], now' \in Nat, faults' \in Nat
  PROVE  Control' /\ Pending' = {}
<1>1. /\ lock' = Nobody
      /\ step' = [step EXCEPT ![w] = "idle"]
      /\ address' = [address EXCEPT ![w] = Nobody]
  BY DEF Return
<1>2. FaucetTypeOK'
  BY <1>1 DEF Control, FaucetTypeOK, Steps
<1>3. \A v \in Workers : v # w =>
        /\ step'[v] = step[v] /\ address'[v] = address[v]
        /\ step[v] \notin {"check", "send", "record"}
  BY <1>1, PendingIsOne DEF Control, FaucetTypeOK
<1>4. step'[w] = "idle"
  BY <1>1 DEF Control, FaucetTypeOK
<1>5. OneAtATime'
  BY <1>1, <1>3, <1>4, ConstantTypes DEF Control, OneAtATime
<1>6. CheckStillHolds'
  BY <1>3, <1>4 DEF CheckStillHolds
<1>7. Pending' = {}
  BY <1>3, <1>4 DEF Pending
<1>8. QED
  BY <1>2, <1>5, <1>6, <1>7 DEF Control

\* The worker that holds the lock goes on.
LEMMA OnwardStep ==
  ASSUME Control, NEW w \in Workers, step[w] \in {"check", "send", "record"},
         NEW s \in {"send", "record"}, step' = [step EXCEPT ![w] = s],
         s = "send" => ~check_last_request(address[w])',
         UNCHANGED <<lock, address, requests, now, faults>>,
         payments' \in [Addresses -> Seq(Nat)]
  PROVE  Control' /\ Pending' = IF s = "record" THEN {address[w]} ELSE {}
<1>1. FaucetTypeOK'
  BY DEF Control, FaucetTypeOK, Steps
<1>2. \A v \in Workers : v # w => step'[v] = step[v]
                                /\ step[v] \notin {"check", "send", "record"}
  BY PendingIsOne DEF Control, FaucetTypeOK
<1>3. step'[w] = s /\ lock = w /\ address[w] \in Addresses
  BY PendingIsOne DEF Control, FaucetTypeOK
<1>4. OneAtATime'
  BY <1>2, <1>3 DEF Control, OneAtATime
<1>5. CheckStillHolds'
  BY <1>2, <1>3 DEF CheckStillHolds, check_last_request
<1>6. Pending' = IF s = "record" THEN {address[w]} ELSE {}
  BY <1>2, <1>3 DEF Pending
<1>7. QED
  BY <1>1, <1>4, <1>5, <1>6 DEF Control

LEMMA StepEffects ==
  ASSUME Control, StoredInThePast, [Next]_vars
  PROVE  Control' /\ StoreSteps
<1>1. /\ requests \in [Addresses -> SUBSET Nat]
      /\ payments \in [Addresses -> Seq(Nat)]
      /\ now \in Nat /\ faults \in Nat /\ SecondOf(now) \in Nat
      /\ FaucetTypeOK /\ OneAtATime
  BY SecondsOf DEF Control, FaucetTypeOK
<1>2. CASE UNCHANGED vars
  <2>1. FaucetTypeOK' /\ OneAtATime' /\ CheckStillHolds'
    BY <1>2 DEF vars, Control, FaucetTypeOK, OneAtATime, CheckStillHolds,
                check_last_request
  <2>2. Leaves
    BY <1>1, <1>2 DEF vars, Leaves, Pending
  <2>3. QED
    BY <2>1, <2>2 DEF Control, StoreSteps
<1>3. CASE Tick
  <2>1. /\ UNCHANGED <<requests, payments, faults, lock, step, address>>
        /\ now' \in Nat /\ now <= now'
    BY <1>1, <1>3 DEF Tick, store
  <2>2. FaucetTypeOK' /\ OneAtATime'
    BY <1>1, <2>1 DEF FaucetTypeOK, OneAtATime
  <2>3. CheckStillHolds'
    <3>1. ASSUME NEW w \in Workers, step'[w] = "send"
          PROVE  ~check_last_request(address[w])'
      <4>1. step[w] = "send" /\ address[w] \in Addresses /\ address'[w] = address[w]
        BY <1>1, <2>1, <3>1 DEF OneAtATime
      <4>2. ~check_last_request(address[w])
        BY <4>1 DEF Control, CheckStillHolds
      <4>3. QED
        BY <1>1, <2>1, <4>1, <4>2, CheckGoesOn DEF check_last_request
    <3>2. QED
      BY <3>1 DEF CheckStillHolds
  <2>4. Leaves
    BY <2>1 DEF Leaves, Pending
  <2>5. QED
    BY <2>2, <2>3, <2>4 DEF Control, StoreSteps
<1>4. CASE Restart
  <2> DEFINE recording == {w \in Workers : step[w] = "record"}
  <2>1. /\ UNCHANGED <<requests, payments, now>>
        /\ lock' = Nobody
        /\ step' = [w \in Workers |-> "idle"]
        /\ address' = [w \in Workers |-> Nobody]
        /\ faults' = faults + Cardinality(recording)
    BY <1>4 DEF Restart
  <2>2. Pending' = {} /\ OneAtATime' /\ CheckStillHolds'
    BY <2>1, ConstantTypes DEF Pending, OneAtATime, CheckStillHolds
  <2>3. CASE recording = {}
    <3>1. Cardinality(recording) = 0 /\ Pending = {}
      BY <2>3, FS_EmptySet DEF Pending
    <3>2. faults' = faults
      BY <1>1, <2>1, <3>1
    <3>3. FaucetTypeOK'
      BY <1>1, <2>1, <3>2 DEF FaucetTypeOK, Steps
    <3>4. Leaves
      BY <1>1, <2>1, <2>2, <3>1, <3>2 DEF Leaves
    <3>5. QED
      BY <2>2, <3>3, <3>4 DEF Control, StoreSteps
  <2>4. CASE recording # {}
    <3>1. PICK w \in Workers : step[w] = "record"
      BY <2>4
    <3>2. recording = {w} /\ Pending = {address[w]} /\ address[w] \in Addresses
      BY <1>1, <3>1, PendingIsOne
    <3>3. faults' = faults + 1
      BY <2>1, <3>2, FS_Singleton
    <3>4. FaucetTypeOK'
      BY <1>1, <2>1, <3>3 DEF FaucetTypeOK, Steps
    <3>5. Misses(address[w])
      BY <2>1, <2>2, <3>2, <3>3 DEF Misses
    <3>6. QED
      BY <2>2, <3>2, <3>4, <3>5 DEF Control, StoreSteps
  <2>5. QED
    BY <2>3, <2>4
<1>5. ASSUME NEW w \in Workers,
             (\E a \in Addresses : Receive(w, a)) \/ Lock(w)
      PROVE  Control' /\ StoreSteps
  BY <1>5, OutsideSteps DEF StoreSteps
<1>6. ASSUME NEW w \in Workers, Refuse(w) \/ Fail(w)
      PROVE  Control' /\ StoreSteps
  <2>1. /\ step[w] \in {"check", "send"} /\ Return(w)
        /\ UNCHANGED <<requests, payments, faults, now>>
    BY <1>6 DEF Refuse, Fail, store
  <2>2. Control' /\ Pending' = {}
    BY <1>1, <2>1, ReturnStep
  <2>3. Pending = {}
    BY <1>1, <2>1, PendingIsOne
  <2>4. QED
    BY <1>1, <2>1, <2>2, <2>3 DEF Leaves, StoreSteps
<1>7. ASSUME NEW w \in Workers, PassCheck(w)
      PROVE  Control' /\ StoreSteps
  <2>1. /\ step[w] = "check" /\ step' = [step EXCEPT ![w] = "send"]
        /\ UNCHANGED <<requests, payments, faults, lock, address, now>>
        /\ ~check_last_request(address[w])
    BY <1>7 DEF PassCheck, store
  <2>2. ~check_last_request(address[w])'
    BY <2>1 DEF check_last_request
  <2>3. Control' /\ Pending' = {}
    BY <1>1, <2>1, <2>2, OnwardStep
  <2>4. Pending = {}
    BY <1>1, <2>1, PendingIsOne
  <2>5. QED
    BY <1>1, <2>1, <2>3, <2>4 DEF Leaves, StoreSteps
<1>8. ASSUME NEW w \in Workers, step[w] = "send", Pay(address[w])
      PROVE  /\ address[w] \in Addresses /\ Pending = {}
             /\ payments' = [payments EXCEPT ![address[w]] = Append(@, now)]
             /\ payments' \in [Addresses -> Seq(Nat)]
             /\ ~check_last_request(address[w])
  <2>1. address[w] \in Addresses /\ Pending = {}
    BY <1>1, <1>8, PendingIsOne
  <2>2. payments' = [payments EXCEPT ![address[w]] = Append(@, now)]
    BY <1>8 DEF Pay
  <2>3. Append(payments[address[w]], now) \in Seq(Nat)
    BY <1>1, <2>1, AppendPayment
  <2>4. payments' \in [Addresses -> Seq(Nat)]
    BY <1>1, <2>1, <2>2, <2>3
  <2>5. QED
    BY <1>8, <2>1, <2>2, <2>4 DEF Control, CheckStillHolds
<1>9. ASSUME NEW w \in Workers, send_funds(w)
      PROVE  Control' /\ StoreSteps
  <2>1. /\ step[w] = "send" /\ Pay(address[w])
        /\ step' = [step EXCEPT ![w] = "record"]
        /\ UNCHANGED <<requests, lock, address, now, faults>>
    BY <1>9 DEF send_funds
  <2>2. Control' /\ Pending' = {address[w]}
    BY <1>1, <1>8, <2>1, OnwardStep
  <2>3. Sends(address[w])
    BY <1>8, <2>1, <2>2 DEF Sends, Pays
  <2>4. QED
    BY <1>8, <2>1, <2>2, <2>3 DEF StoreSteps
<1>10. ASSUME NEW w \in Workers, LoseAnswer(w)
       PROVE  Control' /\ StoreSteps
  <2>1. /\ step[w] = "send" /\ Pay(address[w]) /\ Return(w)
        /\ UNCHANGED <<requests, now>> /\ faults' = faults + 1
    BY <1>10 DEF LoseAnswer
  <2>2. faults' \in Nat
    BY <1>1, <2>1
  <2>3. Control' /\ Pending' = {}
    BY <1>1, <1>8, <2>1, <2>2, ReturnStep
  <2>4. Loses(address[w])
    BY <1>8, <2>1, <2>3 DEF Loses, Pays
  <2>5. QED
    BY <1>8, <2>1, <2>3, <2>4 DEF StoreSteps
<1>11. ASSUME NEW w \in Workers, record_request(w)
       PROVE  Control' /\ StoreSteps
  <2>1. /\ step[w] = "record" /\ Return(w)
        /\ requests' = [requests EXCEPT ![address[w]] = @ \cup {SecondOf(now)}]
        /\ UNCHANGED <<payments, now, faults>>
    BY <1>11 DEF record_request, SecondOf
  <2>2. address[w] \in Addresses /\ Pending = {address[w]}
    BY <1>1, <2>1, PendingIsOne
  <2>3. requests' \in [Addresses -> SUBSET Nat]
    BY <1>1, <2>1, <2>2
  <2>4. Control' /\ Pending' = {}
    BY <1>1, <2>1, <2>3, ReturnStep
  <2>5. QED
    BY <2>1, <2>2, <2>4 DEF Records, StoreSteps
<1>12. ASSUME NEW w \in Workers, FailToRecord(w)
       PROVE  Control' /\ StoreSteps
  <2>1. /\ step[w] = "record" /\ Return(w)
        /\ UNCHANGED <<requests, payments, now>> /\ faults' = faults + 1
    BY <1>12 DEF FailToRecord
  <2>2. address[w] \in Addresses /\ Pending = {address[w]}
    BY <1>1, <2>1, PendingIsOne
  <2>3. faults' \in Nat
    BY <1>1, <2>1
  <2>4. Control' /\ Pending' = {}
    BY <1>1, <2>1, <2>3, ReturnStep
  <2>5. QED
    BY <2>1, <2>2, <2>4 DEF Misses, StoreSteps
<1>13. QED
  BY <1>2, <1>3, <1>4, <1>5, <1>6, <1>7, <1>9, <1>10, <1>11, <1>12 DEF Next

-----------------------------------------------------------------------------
(* What the steps preserve, part by part. *)

\* What happens to one address: nothing, unless the step is about it.
LEMMA StoreAtAddress ==
  ASSUME FaucetTypeOK, StoreSteps, NEW a \in Addresses
  PROVE  /\ \/ requests'[a] = requests[a]
            \/ Records(a) /\ requests'[a] = requests[a] \cup {SecondOf(now)}
         /\ \/ payments'[a] = payments[a]
            \/ /\ Sends(a) \/ Loses(a)
               /\ payments'[a] = Append(payments[a], now)
<1>1. requests \in [Addresses -> SUBSET Nat] /\ payments \in [Addresses -> Seq(Nat)]
  BY DEF FaucetTypeOK
<1>2. CASE Leaves
  BY <1>2 DEF Leaves
<1>3. ASSUME NEW b \in Addresses, Sends(b) \/ Loses(b) \/ Records(b) \/ Misses(b)
      PROVE  /\ \/ requests'[a] = requests[a]
                \/ Records(a) /\ requests'[a] = requests[a] \cup {SecondOf(now)}
             /\ \/ payments'[a] = payments[a]
                \/ /\ Sends(a) \/ Loses(a)
                   /\ payments'[a] = Append(payments[a], now)
  <2>1. CASE Sends(b) \/ Loses(b)
    <3>1. /\ requests' = requests
          /\ payments' = [payments EXCEPT ![b] = Append(@, now)]
      BY <2>1 DEF Sends, Loses, Pays
    <3>2. CASE a = b
      BY <1>1, <2>1, <3>1, <3>2
    <3>3. CASE a # b
      BY <1>1, <3>1, <3>3
    <3>4. QED
      BY <3>2, <3>3
  <2>2. CASE Records(b)
    <3>1. /\ requests' = [requests EXCEPT ![b] = @ \cup {SecondOf(now)}]
          /\ payments' = payments
      BY <2>2 DEF Records
    <3>2. CASE a = b
      BY <1>1, <2>2, <3>1, <3>2
    <3>3. CASE a # b
      BY <1>1, <3>1, <3>3
    <3>4. QED
      BY <3>2, <3>3
  <2>3. CASE Misses(b)
    BY <2>3 DEF Misses
  <2>4. QED
    BY <1>3, <2>1, <2>2, <2>3
<1>4. QED
  BY <1>2, <1>3 DEF StoreSteps

LEMMA PastStep ==
  ASSUME FaucetTypeOK, FaucetTypeOK', StoredInThePast, StoreSteps
  PROVE  StoredInThePast'
<1>1. now \in Nat /\ now' \in Nat /\ now <= now'
  BY DEF FaucetTypeOK, StoreSteps, Leaves, Sends, Loses, Pays, Records, Misses
<1>2. SecondOf(now) \in Nat /\ SecondOf(now') \in Nat /\ SecondOf(now) <= SecondOf(now')
  BY <1>1, SecondsOf, SecondsGoOn
<1>3. ASSUME NEW a \in Addresses
      PROVE  /\ \A s \in requests'[a] : s <= SecondOf(now')
             /\ \A i \in 1..Len(payments'[a]) : payments'[a][i] <= now'
  <2>1. /\ requests[a] \in SUBSET Nat
        /\ payments[a] \in Seq(Nat) /\ Len(payments[a]) \in Nat
        /\ \A i \in 1..Len(payments[a]) : payments[a][i] \in Nat
    BY PaymentsOfAddress DEF FaucetTypeOK
  <2>2. /\ \A s \in requests[a] : s <= SecondOf(now)
        /\ \A i \in 1..Len(payments[a]) : payments[a][i] <= now
    BY DEF StoredInThePast
  <2>3. \A s \in requests'[a] : s \in requests[a] \/ s = SecondOf(now)
    BY StoreAtAddress
  <2>4. payments'[a] = payments[a] \/ payments'[a] = Append(payments[a], now)
    BY StoreAtAddress
  <2>5. \A i \in 1..Len(payments'[a]) : payments'[a][i] <= now
    <3>1. CASE payments'[a] = Append(payments[a], now)
      <4>1. /\ Len(payments'[a]) = Len(payments[a]) + 1
            /\ payments'[a][Len(payments[a]) + 1] = now
            /\ \A i \in 1..Len(payments[a]) : payments'[a][i] = payments[a][i]
        BY <1>1, <2>1, <3>1, AppendPayment
      <4>2. \A i \in 1..Len(payments'[a]) :
              i \in 1..Len(payments[a]) \/ i = Len(payments[a]) + 1
        BY <2>1, <4>1
      <4>3. now <= now
        BY <1>1
      <4>4. QED
        BY <2>2, <4>1, <4>2, <4>3
    <3>2. QED
      BY <2>2, <2>4, <3>1
  <2>6. \A i \in 1..Len(payments'[a]) : payments'[a][i] \in Nat
    BY PaymentsOfAddress DEF FaucetTypeOK
  <2>7. QED
    BY <1>1, <1>2, <2>1, <2>2, <2>3, <2>5, <2>6
<1>4. QED
  BY <1>3 DEF StoredInThePast

LEMMA PaidFirstStep ==
  ASSUME FaucetTypeOK, FaucetTypeOK', StoredInThePast, PaidFirst, StoreSteps
  PROVE  PaidFirst'
<1>1. SUFFICES ASSUME NEW a \in Addresses
               PROVE  Cardinality(requests'[a]) + (IF a \in Pending' THEN 1 ELSE 0)
                        <= Len(payments'[a])
  BY DEF PaidFirst
<1>2. /\ IsFiniteSet(requests[a]) /\ Cardinality(requests[a]) \in Nat
      /\ payments[a] \in Seq(Nat) /\ Len(payments[a]) \in Nat /\ now \in Nat
  BY RecordsOfAddress, PaymentsOfAddress DEF FaucetTypeOK
<1>3. Cardinality(requests[a]) + (IF a \in Pending THEN 1 ELSE 0) <= Len(payments[a])
  BY DEF PaidFirst
<1>4. Len(Append(payments[a], now)) = Len(payments[a]) + 1
  BY <1>2, AppendPayment
<1>5. /\ Cardinality(requests[a] \cup {SecondOf(now)}) \in Nat
      /\ Cardinality(requests[a] \cup {SecondOf(now)}) <= Cardinality(requests[a]) + 1
  <2>1. Cardinality(requests[a] \cup {SecondOf(now)})
          \in {Cardinality(requests[a]), Cardinality(requests[a]) + 1}
    BY <1>2, FS_AddElement
  <2>2. QED
    BY <1>2, <2>1
<1>6. CASE Leaves
  BY <1>3, <1>6 DEF Leaves
<1>7. ASSUME NEW b \in Addresses, Sends(b) \/ Loses(b) \/ Records(b) \/ Misses(b)
      PROVE  Cardinality(requests'[a]) + (IF a \in Pending' THEN 1 ELSE 0)
               <= Len(payments'[a])
  <2>1. CASE a = b
    <3>1. CASE Sends(a) \/ Loses(a)
      <4>1. requests'[a] = requests[a] /\ payments'[a] = Append(payments[a], now)
        BY <3>1 DEF FaucetTypeOK, Sends, Loses, Pays
      <4>2. QED
        BY <1>2, <1>3, <1>4, <4>1
    <3>2. CASE Records(a)
      <4>1. /\ requests'[a] = requests[a] \cup {SecondOf(now)}
            /\ payments'[a] = payments[a]
            /\ a \in Pending /\ a \notin Pending'
        BY <3>2 DEF FaucetTypeOK, Records
      <4>2. QED
        BY <1>2, <1>3, <1>5, <4>1
    <3>3. CASE Misses(a)
      <4>1. /\ requests'[a] = requests[a] /\ payments'[a] = payments[a]
            /\ a \notin Pending'
        BY <3>3 DEF FaucetTypeOK, Misses
      <4>2. QED
        BY <1>2, <1>3, <4>1
    <3>4. QED
      BY <1>7, <2>1, <3>1, <3>2, <3>3
  <2>2. CASE a # b
    <3>1. requests'[a] = requests[a] /\ payments'[a] = payments[a] /\ a \notin Pending'
      BY <1>7, <2>2 DEF FaucetTypeOK, Sends, Loses, Pays, Records, Misses
    <3>2. QED
      BY <1>2, <1>3, <3>1
  <2>3. QED
    BY <2>1, <2>2
<1>8. QED
  BY <1>6, <1>7 DEF StoreSteps

LEMMA CardinalityOfPrefix ==
  ASSUME NEW n \in Nat
  PROVE  Cardinality(1..n) = n
<1>1. 1 \in Int /\ n \in Int
  OBVIOUS
<1>2. Cardinality(1..n) = IF 1 > n THEN 0 ELSE n - 1 + 1
  BY <1>1, FS_Interval
<1>3. QED
  BY <1>2

\* The records up to a second, and the payments.
RecordsUpTo(a, s) == {t \in requests[a] : t <= s}
PaymentsUpTo(a, s) == {i \in DOMAIN payments[a] : SecondOf(payments[a][i]) <= s}

LEMMA BackedStep ==
  ASSUME FaucetTypeOK, FaucetTypeOK', StoredInThePast, PaidFirst,
         RecordsAreBacked, StoreSteps
  PROVE  RecordsAreBacked'
<1>1. SUFFICES ASSUME NEW a \in Addresses, NEW s \in requests'[a]
               PROVE  Cardinality(RecordsUpTo(a, s)') <= Cardinality(PaymentsUpTo(a, s)')
  BY DEF RecordsAreBacked, RecordsUpTo, PaymentsUpTo, SecondOf
<1>2. /\ requests[a] \in SUBSET Nat /\ SecondOf(now) \in Nat
      /\ IsFiniteSet(requests[a]) /\ Cardinality(requests[a]) \in Nat
      /\ payments[a] \in Seq(Nat) /\ Len(payments[a]) \in Nat
      /\ DOMAIN payments[a] = 1..Len(payments[a])
      /\ \A i \in 1..Len(payments[a]) : payments[a][i] \in Nat /\ payments[a][i] <= now
      /\ \A t \in requests[a] : t <= SecondOf(now)
      /\ now \in Nat
  BY RecordsOfAddress, PaymentsOfAddress DEF FaucetTypeOK, StoredInThePast
<1>3. \A t \in requests[a] : Cardinality(RecordsUpTo(a, t)) <= Cardinality(PaymentsUpTo(a, t))
  BY DEF RecordsAreBacked, RecordsUpTo, PaymentsUpTo, SecondOf
<1>4. /\ \/ requests'[a] = requests[a]
         \/ Records(a) /\ requests'[a] = requests[a] \cup {SecondOf(now)}
      /\ \/ payments'[a] = payments[a]
         \/ /\ Sends(a) \/ Loses(a)
            /\ payments'[a] = Append(payments[a], now)
  BY StoreAtAddress
<1>5. IsFiniteSet(PaymentsUpTo(a, s)') /\ PaymentsUpTo(a, s) \subseteq PaymentsUpTo(a, s)'
  <2>1. PaymentsUpTo(a, s)' = {i \in DOMAIN payments'[a] : SecondOf(payments'[a][i]) <= s}
    BY DEF PaymentsUpTo, SecondOf
  <2>2. DOMAIN payments'[a] = 1..Len(payments'[a]) /\ Len(payments'[a]) \in Nat
    BY DEF FaucetTypeOK
  <2>3. PaymentsUpTo(a, s)' \in SUBSET (1..Len(payments'[a]))
    BY <2>1, <2>2
  <2>4. IsFiniteSet(1..Len(payments'[a]))
    BY <2>2, FS_Interval
  <2>5. \A i \in DOMAIN payments[a] : i \in DOMAIN payments'[a] /\ payments'[a][i] = payments[a][i]
    BY <1>2, <1>4, AppendPayment
  <2>6. PaymentsUpTo(a, s) \subseteq PaymentsUpTo(a, s)'
    BY <2>1, <2>5 DEF PaymentsUpTo
  <2>7. QED
    BY <2>3, <2>4, <2>6, FS_Subset
<1>6. /\ Cardinality(PaymentsUpTo(a, s)) \in Nat
      /\ Cardinality(PaymentsUpTo(a, s)') \in Nat
      /\ Cardinality(PaymentsUpTo(a, s)) <= Cardinality(PaymentsUpTo(a, s)')
  BY <1>5, FS_Subset, FS_CardinalityType
<1>7. CASE requests'[a] = requests[a]
  <2>1. RecordsUpTo(a, s)' = RecordsUpTo(a, s)
    BY <1>7 DEF RecordsUpTo
  <2>2. IsFiniteSet(RecordsUpTo(a, s)) /\ Cardinality(RecordsUpTo(a, s)) \in Nat
    <3>1. RecordsUpTo(a, s) \in SUBSET requests[a]
      BY DEF RecordsUpTo
    <3>2. QED
      BY <1>2, <3>1, FS_Subset, FS_CardinalityType
  <2>3. Cardinality(RecordsUpTo(a, s)) <= Cardinality(PaymentsUpTo(a, s))
    BY <1>1, <1>3, <1>7
  <2>4. QED
    BY <1>6, <2>1, <2>2, <2>3
<1>8. CASE Records(a) /\ requests'[a] = requests[a] \cup {SecondOf(now)}
  <2>1. PaymentsUpTo(a, s)' = PaymentsUpTo(a, s)
    BY <1>8 DEF Records, PaymentsUpTo, SecondOf
  <2>2. RecordsUpTo(a, s)' = {t \in requests[a] \cup {SecondOf(now)} : t <= s}
    BY <1>8 DEF RecordsUpTo
  <2>3. CASE s = SecondOf(now)
    <3>1. RecordsUpTo(a, s)' = requests[a] \cup {SecondOf(now)}
      BY <1>2, <2>2, <2>3
    <3>2. /\ Cardinality(requests[a] \cup {SecondOf(now)}) \in Nat
          /\ Cardinality(requests[a] \cup {SecondOf(now)}) <= Cardinality(requests[a]) + 1
      <4>1. Cardinality(requests[a] \cup {SecondOf(now)})
              \in {Cardinality(requests[a]), Cardinality(requests[a]) + 1}
        BY <1>2, FS_AddElement
      <4>2. QED
        BY <1>2, <4>1
    <3>3. Cardinality(requests[a]) + 1 <= Len(payments[a])
      BY <1>2, <1>8 DEF PaidFirst, Records
    <3>4. PaymentsUpTo(a, s) = 1..Len(payments[a])
      <4>1. \A i \in 1..Len(payments[a]) : SecondOf(payments[a][i]) <= s
        BY <1>2, <2>3, SecondsGoOn
      <4>2. QED
        BY <1>2, <4>1 DEF PaymentsUpTo
    <3>5. Cardinality(PaymentsUpTo(a, s)) = Len(payments[a])
      <4>1. Cardinality(1..Len(payments[a])) = Len(payments[a])
        BY <1>2, CardinalityOfPrefix
      <4>2. QED
        BY <3>4, <4>1
    <3>6. QED
      BY <1>2, <2>1, <3>1, <3>2, <3>3, <3>5
  <2>4. CASE s # SecondOf(now)
    <3>1. s \in requests[a] /\ s < SecondOf(now)
      BY <1>2, <1>8, <2>4
    <3>2. RecordsUpTo(a, s)' = RecordsUpTo(a, s)
      BY <1>2, <2>2, <3>1 DEF RecordsUpTo
    <3>3. QED
      BY <1>3, <2>1, <3>1, <3>2
  <2>5. QED
    BY <2>3, <2>4
<1>9. QED
  BY <1>4, <1>7, <1>8

-----------------------------------------------------------------------------
(* Payments that come too soon are accounted for. *)

LEMMA OneMoreOrLess ==
  ASSUME NEW S, IsFiniteSet(S), NEW T, NEW x
  PROVE  /\ Cardinality(S) \in Nat
         /\ T \subseteq S \cup {x} =>
              /\ IsFiniteSet(T) /\ Cardinality(T) \in Nat
              /\ Cardinality(T) <= Cardinality(S) + 1
         /\ T \subseteq S =>
              /\ IsFiniteSet(T) /\ Cardinality(T) \in Nat
              /\ Cardinality(T) <= Cardinality(S)
         /\ x \in S /\ T \subseteq S \ {x} =>
              Cardinality(T) + 1 <= Cardinality(S)
<1>1. Cardinality(S) \in Nat
  BY FS_CardinalityType
<1>2. ASSUME T \subseteq S \cup {x}
      PROVE  /\ IsFiniteSet(T) /\ Cardinality(T) \in Nat
             /\ Cardinality(T) <= Cardinality(S) + 1
  <2>1. /\ IsFiniteSet(S \cup {x})
        /\ Cardinality(S \cup {x}) \in {Cardinality(S), Cardinality(S) + 1}
    BY FS_AddElement
  <2>2. /\ IsFiniteSet(T) /\ Cardinality(T) \in Nat
        /\ Cardinality(T) <= Cardinality(S \cup {x})
    BY <1>2, <2>1, FS_Subset, FS_CardinalityType
  <2>3. QED
    BY <1>1, <2>1, <2>2
<1>3. ASSUME T \subseteq S
      PROVE  /\ IsFiniteSet(T) /\ Cardinality(T) \in Nat
             /\ Cardinality(T) <= Cardinality(S)
  BY <1>3, FS_Subset, FS_CardinalityType
<1>4. ASSUME x \in S, T \subseteq S \ {x}
      PROVE  Cardinality(T) + 1 <= Cardinality(S)
  <2>1. IsFiniteSet(S \ {x}) /\ Cardinality(S \ {x}) = Cardinality(S) - 1
    BY <1>4, FS_RemoveElement
  <2>2. Cardinality(T) \in Nat /\ Cardinality(T) <= Cardinality(S \ {x})
    BY <1>4, <2>1, FS_Subset, FS_CardinalityType
  <2>3. QED
    BY <1>1, <2>1, <2>2
<1>5. QED
  BY <1>1, <1>2, <1>3, <1>4

\* A payment that passed the check after a recorded one is not too soon: the
\* record is not older than the payment by a second or more.
LEMMA RecordedIsLongAgo ==
  ASSUME FaucetTypeOK, StoredInThePast, NEW a \in Addresses,
         Len(payments[a]) > 0, LastIsRecorded(a), ~check_last_request(a)
  PROVE  ~(now - payments[a][Len(payments[a])] <= Day - Second)
<1> DEFINE last == payments[a][Len(payments[a])]
           latest == Max(requests[a])
<1>1. PICK s \in requests[a] : SecondOf(last) <= s
  BY DEF LastIsRecorded
<1>2. /\ last \in Nat /\ now \in Nat /\ Day \in Nat /\ Second \in Nat \ {0}
  BY PaymentsOfAddress, ConstantTypes DEF FaucetTypeOK
<1>3. s \in Nat /\ latest \in Nat /\ s <= latest /\ requests[a] # {}
  BY <1>1, RecordsOfAddress
<1>4. ~(now - latest * Second < Day)
  BY <1>3 DEF check_last_request
<1> HIDE DEF last, latest
<1>5. /\ SecondOf(last) \in Nat
      /\ last < SecondOf(last) * Second + Second
  BY <1>2, SecondsOf
<1>6. SecondOf(last) <= latest
  BY <1>1, <1>3, <1>5
<1>7. SecondOf(last) * Second <= latest * Second
  BY <1>3, <1>5, <1>6, SecondsAreOrdered
<1>8. SecondOf(last) * Second \in Nat /\ latest * Second \in Nat
  BY <1>2, <1>3, <1>5
<1>9. ~(now - last <= Day - Second)
  BY <1>2, <1>4, <1>5, <1>7, <1>8
<1>10. QED
  BY <1>9 DEF last

\* Only the payment just made can have come too soon.
LEMMA NewPaymentTooSoon ==
  ASSUME FaucetTypeOK, StoredInThePast, NEW a \in Addresses,
         Sends(a) \/ Loses(a)
  PROVE  /\ PaidTooSoon' \subseteq PaidTooSoon \cup {<<a, Len(payments[a]) + 1>>}
         /\ a \notin Unrecorded => PaidTooSoon' \subseteq PaidTooSoon
<1> DEFINE n == Len(payments[a])
<1>1. /\ payments[a] \in Seq(Nat) /\ n \in Nat /\ now \in Nat
      /\ payments \in [Addresses -> Seq(Nat)]
  BY PaymentsOfAddress DEF FaucetTypeOK
<1>2. /\ payments' = [payments EXCEPT ![a] = Append(@, now)]
      /\ ~check_last_request(a) /\ Pending = {}
  BY DEF Sends, Loses, Pays
<1>3. /\ \A b \in Addresses : b # a => payments'[b] = payments[b]
      /\ payments'[a] = Append(payments[a], now)
  BY <1>1, <1>2
<1>4. /\ Len(payments'[a]) = n + 1
      /\ payments'[a][n + 1] = now
      /\ \A i \in 1..n : payments'[a][i] = payments[a][i]
  BY <1>1, <1>3, AppendPayment
<1>5. \A b \in Addresses : b # a => TooSoon(b)' = TooSoon(b)
  BY <1>3 DEF TooSoon
<1>6. ASSUME NEW i \in TooSoon(a)'
      PROVE  i \in TooSoon(a) \/ (i = n + 1 /\ n > 0 /\ now - payments[a][n] <= Day - Second)
  <2>1. i \in 2..(n + 1) /\ payments'[a][i] - payments'[a][i - 1] <= Day - Second
    BY <1>4 DEF TooSoon
  <2>2. CASE i = n + 1
    <3>1. n > 0 /\ i - 1 = n /\ n \in 1..n
      BY <1>1, <2>1, <2>2
    <3>2. QED
      BY <1>4, <2>1, <2>2, <3>1
  <2>3. CASE i # n + 1
    <3>1. i \in 2..n /\ i \in 1..n /\ i - 1 \in 1..n
      BY <1>1, <2>1, <2>3
    <3>2. QED
      BY <1>4, <2>1, <3>1 DEF TooSoon
  <2>4. QED
    BY <2>2, <2>3
<1>7. PaidTooSoon' = UNION {{b} \X TooSoon(b)' : b \in Addresses}
  BY DEF PaidTooSoon
<1>8. PaidTooSoon' \subseteq PaidTooSoon \cup {<<a, n + 1>>}
  <2>1. SUFFICES ASSUME NEW b \in Addresses, NEW i \in TooSoon(b)'
                 PROVE  <<b, i>> \in PaidTooSoon \cup {<<a, n + 1>>}
    BY <1>7
  <2>2. i \in TooSoon(b) \/ <<b, i>> = <<a, n + 1>>
    BY <1>5, <1>6, <2>1
  <2>3. QED
    BY <2>2 DEF PaidTooSoon
<1>9. ASSUME a \notin Unrecorded PROVE PaidTooSoon' \subseteq PaidTooSoon
  <2>1. n > 0 => ~(now - payments[a][n] <= Day - Second)
    BY <1>2, <1>9, RecordedIsLongAgo DEF Unrecorded
  <2>2. SUFFICES ASSUME NEW b \in Addresses, NEW i \in TooSoon(b)'
                 PROVE  <<b, i>> \in PaidTooSoon
    BY <1>7
  <2>3. i \in TooSoon(b)
    BY <1>5, <1>6, <2>1, <2>2
  <2>4. QED
    BY <2>3 DEF PaidTooSoon
<1>10. QED
  BY <1>8, <1>9

\* An address on which the step does nothing stays recorded or not.
LEMMA UnrecordedElsewhere ==
  ASSUME FaucetTypeOK, NEW a \in Addresses,
         Sends(a) \/ Loses(a) \/ Records(a) \/ Misses(a)
  PROVE  \A b \in Unrecorded' : b = a \/ b \in Unrecorded
<1>1. SUFFICES ASSUME NEW b \in Unrecorded', b # a PROVE b \in Unrecorded
  OBVIOUS
<1>2. /\ b \in Addresses /\ Len(payments'[b]) > 0
      /\ ~\E s \in requests'[b] : SecondOf(payments'[b][Len(payments'[b])]) <= s
  BY <1>1 DEF Unrecorded, LastIsRecorded, SecondOf
<1>3. requests'[b] = requests[b] /\ payments'[b] = payments[b]
  BY <1>1, <1>2 DEF FaucetTypeOK, Sends, Loses, Pays, Records, Misses
<1>4. b \notin Pending
  BY <1>1 DEF Sends, Loses, Records, Misses
<1>5. QED
  BY <1>2, <1>3, <1>4 DEF Unrecorded, LastIsRecorded

LEMMA FaultsStep ==
  ASSUME FaucetTypeOK, FaucetTypeOK', StoredInThePast, FaultsAreCounted, StoreSteps
  PROVE  FaultsAreCounted'
<1> DEFINE soon == Cardinality(PaidTooSoon)
           missing == Cardinality(Unrecorded)
<1>1. /\ IsFiniteSet(PaidTooSoon) /\ IsFiniteSet(Unrecorded)
      /\ soon \in Nat /\ missing \in Nat /\ faults \in Nat
      /\ soon + missing <= faults
  BY FS_CardinalityType DEF FaultsAreCounted, FaucetTypeOK
<1>2. CASE Leaves
  <2>1. PaidTooSoon' = PaidTooSoon
    BY <1>2 DEF Leaves, PaidTooSoon, TooSoon
  <2>2. Unrecorded' = Unrecorded
    BY <1>2 DEF Leaves, Unrecorded, LastIsRecorded, SecondOf
  <2>3. QED
    BY <1>1, <1>2, <2>1, <2>2 DEF Leaves, FaultsAreCounted
<1>3. ASSUME NEW a \in Addresses, Sends(a)
      PROVE  FaultsAreCounted'
  <2>1. /\ PaidTooSoon' \subseteq PaidTooSoon \cup {<<a, Len(payments[a]) + 1>>}
        /\ a \notin Unrecorded => PaidTooSoon' \subseteq PaidTooSoon
    BY <1>3, NewPaymentTooSoon
  <2>2. Unrecorded' \subseteq Unrecorded \ {a}
    <3>1. a \notin Unrecorded'
      BY <1>3 DEF Sends, Unrecorded
    <3>2. QED
      BY <1>3, <3>1, UnrecordedElsewhere
  <2>3. /\ IsFiniteSet(PaidTooSoon') /\ Cardinality(PaidTooSoon') \in Nat
        /\ Cardinality(PaidTooSoon') <= soon + 1
        /\ a \notin Unrecorded => Cardinality(PaidTooSoon') <= soon
    BY <1>1, <2>1, OneMoreOrLess
  <2>4. /\ IsFiniteSet(Unrecorded') /\ Cardinality(Unrecorded') \in Nat
        /\ Cardinality(Unrecorded') <= missing
        /\ a \in Unrecorded => Cardinality(Unrecorded') + 1 <= missing
    BY <1>1, <2>2, OneMoreOrLess
  <2>5. faults' = faults
    BY <1>3 DEF Sends
  <2> HIDE DEF soon, missing
  <2>6. Cardinality(PaidTooSoon') + Cardinality(Unrecorded') <= faults'
    BY <1>1, <2>3, <2>4, <2>5
  <2>7. QED
    BY <2>3, <2>4, <2>6 DEF FaultsAreCounted
<1>4. ASSUME NEW a \in Addresses, Loses(a)
      PROVE  FaultsAreCounted'
  <2>1. /\ PaidTooSoon' \subseteq PaidTooSoon \cup {<<a, Len(payments[a]) + 1>>}
        /\ a \notin Unrecorded => PaidTooSoon' \subseteq PaidTooSoon
    BY <1>4, NewPaymentTooSoon
  <2>2. /\ Unrecorded' \subseteq Unrecorded \cup {a}
        /\ a \in Unrecorded => Unrecorded' \subseteq Unrecorded
    BY <1>4, UnrecordedElsewhere
  <2>3. /\ IsFiniteSet(PaidTooSoon') /\ Cardinality(PaidTooSoon') \in Nat
        /\ Cardinality(PaidTooSoon') <= soon + 1
        /\ a \notin Unrecorded => Cardinality(PaidTooSoon') <= soon
    BY <1>1, <2>1, OneMoreOrLess
  <2>4. /\ IsFiniteSet(Unrecorded') /\ Cardinality(Unrecorded') \in Nat
        /\ Cardinality(Unrecorded') <= missing + 1
        /\ a \in Unrecorded => Cardinality(Unrecorded') <= missing
    BY <1>1, <2>2, OneMoreOrLess
  <2>5. faults' = faults + 1
    BY <1>4 DEF Loses
  <2> HIDE DEF soon, missing
  <2>6. Cardinality(PaidTooSoon') + Cardinality(Unrecorded') <= faults'
    BY <1>1, <2>3, <2>4, <2>5
  <2>7. QED
    BY <2>3, <2>4, <2>6 DEF FaultsAreCounted
<1>5. ASSUME NEW a \in Addresses, Records(a)
      PROVE  FaultsAreCounted'
  <2>1. PaidTooSoon' = PaidTooSoon /\ faults' = faults
    BY <1>5 DEF Records, PaidTooSoon, TooSoon
  <2>2. a \notin Unrecorded'
    <3>1. /\ payments[a] \in Seq(Nat) /\ Len(payments[a]) \in Nat
          /\ \A i \in 1..Len(payments[a]) : payments[a][i] \in Nat /\ payments[a][i] <= now
          /\ now \in Nat
      BY PaymentsOfAddress DEF FaucetTypeOK, StoredInThePast
    <3>2. payments' = payments /\ now' = now /\ SecondOf(now) \in requests'[a]
      BY <1>5 DEF FaucetTypeOK, Records
    <3>3. ASSUME Len(payments[a]) > 0
          PROVE  SecondOf(payments[a][Len(payments[a])]) <= SecondOf(now)
      <4>1. Len(payments[a]) \in 1..Len(payments[a])
        BY <3>1, <3>3
      <4>2. QED
        BY <3>1, <4>1, SecondsGoOn
    <3>4. ASSUME a \in Unrecorded' PROVE FALSE
      <4>1. /\ Len(payments'[a]) > 0
            /\ ~\E s \in requests'[a] : SecondOf(payments'[a][Len(payments'[a])]) <= s
        BY <3>4 DEF Unrecorded, LastIsRecorded, SecondOf
      <4>2. QED
        BY <3>2, <3>3, <4>1
    <3>5. QED
      BY <3>4
  <2>3. Unrecorded' \subseteq Unrecorded
    BY <1>5, <2>2, UnrecordedElsewhere
  <2>4. IsFiniteSet(Unrecorded') /\ Cardinality(Unrecorded') \in Nat
        /\ Cardinality(Unrecorded') <= missing
    BY <1>1, <2>3, OneMoreOrLess
  <2> HIDE DEF soon, missing
  <2>5. soon + Cardinality(Unrecorded') <= faults
    BY <1>1, <2>4
  <2>6. QED
    BY <1>1, <2>1, <2>4, <2>5 DEF FaultsAreCounted, soon
<1>6. ASSUME NEW a \in Addresses, Misses(a)
      PROVE  FaultsAreCounted'
  <2>1. PaidTooSoon' = PaidTooSoon /\ faults' = faults + 1
    BY <1>6 DEF Misses, PaidTooSoon, TooSoon
  <2>2. Unrecorded' \subseteq Unrecorded \cup {a}
    BY <1>6, UnrecordedElsewhere
  <2>3. IsFiniteSet(Unrecorded') /\ Cardinality(Unrecorded') \in Nat
        /\ Cardinality(Unrecorded') <= missing + 1
    BY <1>1, <2>2, OneMoreOrLess
  <2> HIDE DEF soon, missing
  <2>4. soon + Cardinality(Unrecorded') <= faults + 1
    BY <1>1, <2>3
  <2>5. QED
    BY <1>1, <2>1, <2>3, <2>4 DEF FaultsAreCounted, soon
<1>7. QED
  BY <1>2, <1>3, <1>4, <1>5, <1>6 DEF StoreSteps

-----------------------------------------------------------------------------

LEMMA InitFaucetInvariant == Init => FaucetInvariant
<1> SUFFICES ASSUME Init PROVE FaucetInvariant
  OBVIOUS
<1>1. /\ \A a \in Addresses : requests[a] = {} /\ payments[a] = <<>>
      /\ requests \in [Addresses -> SUBSET Nat]
      /\ payments \in [Addresses -> Seq(Nat)]
  BY DEF Init
<1>2. Pending = {}
  BY DEF Init, Pending
<1>3. FaucetTypeOK /\ OneAtATime /\ StoredInThePast /\ CheckStillHolds
  BY <1>1, ConstantTypes DEF Init, FaucetTypeOK, Steps, OneAtATime, StoredInThePast,
                             CheckStillHolds
<1>4. PaidFirst
  <2>1. Cardinality({}) = 0
    BY FS_EmptySet
  <2>2. \A a \in Addresses : Cardinality(requests[a]) = 0
    BY <1>1, <2>1, Zenon
  <2>3. \A a \in Addresses : Len(payments[a]) = 0
    BY <1>1
  <2>4. QED
    BY <1>2, <2>2, <2>3 DEF PaidFirst
<1>5. RecordsAreBacked
  BY <1>1 DEF RecordsAreBacked
<1>6. PaidTooSoon = {} /\ Unrecorded = {}
  BY <1>1 DEF PaidTooSoon, TooSoon, Unrecorded
<1>7. FaultsAreCounted
  BY <1>6, FS_EmptySet DEF Init, FaultsAreCounted
<1>8. QED
  BY <1>3, <1>4, <1>5, <1>7 DEF FaucetInvariant

LEMMA StepFaucetInvariant ==
  ASSUME FaucetInvariant, [Next]_vars
  PROVE  FaucetInvariant'
<1>1. Control' /\ StoreSteps
  BY StepEffects DEF FaucetInvariant, Control
<1>2. QED
  BY <1>1, PastStep, PaidFirstStep, BackedStep, FaultsStep
     DEF FaucetInvariant, Control

\* The faucet's locks, table and payments stay in step, for any number of
\* workers, addresses and failures.
THEOREM FaucetInvariantHolds == Spec => []FaucetInvariant
<1>1. Init => FaucetInvariant
  BY InitFaucetInvariant
<1>2. FaucetInvariant /\ [Next]_vars => FaucetInvariant'
  BY StepFaucetInvariant
<1>3. QED
  BY <1>1, <1>2, PTL DEF Spec

\* Nobody is refused coins on account of a payment that was not made, although
\* the payment and its record are two steps that a failure can separate.
THEOREM NobodyIsRefusedUnpaid == Spec => []RecordsAreBacked
<1>1. FaucetInvariant => RecordsAreBacked
  BY DEF FaucetInvariant
<1>2. QED
  BY <1>1, FaucetInvariantHolds, PTL

\* Two payments to one address come within a day only on account of a payment
\* that was not recorded, and of each at most once, however requests overlap.
THEOREM FaultsBoundDoublePayments == Spec => []OnlyFaultsPayTwice
<1>1. FaucetInvariant => OnlyFaultsPayTwice
  <2>1. SUFFICES ASSUME FaucetInvariant PROVE OnlyFaultsPayTwice
    OBVIOUS
  <2>2. /\ IsFiniteSet(PaidTooSoon) /\ IsFiniteSet(Unrecorded)
        /\ Cardinality(PaidTooSoon) + Cardinality(Unrecorded) <= faults
    BY <2>1 DEF FaucetInvariant, FaultsAreCounted
  <2>3. Cardinality(PaidTooSoon) \in Nat /\ Cardinality(Unrecorded) \in Nat
    BY <2>2, FS_CardinalityType
  <2>4. faults \in Nat
    BY <2>1 DEF FaucetInvariant, FaucetTypeOK
  <2>5. QED
    BY <2>2, <2>3, <2>4 DEF OnlyFaultsPayTwice
<1>2. QED
  BY <1>1, FaucetInvariantHolds, PTL

=============================================================================
