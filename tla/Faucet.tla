-------------------------------- MODULE Faucet --------------------------------
(***************************************************************************)
(* The faucet (btc_faucet/src/main.rs): worker threads that answer         *)
(* requests for coins from one SQLite connection and one RPC client, each  *)
(* behind a mutex. A handler takes the two, always in the same order, and  *)
(* keeps both until it returns, so they are one lock here. The table and   *)
(* bitcoind's wallet outlive the process.                                  *)
(***************************************************************************)
EXTENDS Integers, Sequences, FiniteSets, FiniteSetsExt

CONSTANTS
  Addresses,   \* the texts that requests give as an address
  Workers,     \* actix worker threads
  Second,      \* clock ticks in a second: the clock is finer than a timestamp
  Day,         \* clock ticks in 24 hours
  MaxTime,     \* bound on the clock
  MaxFaults,   \* bound on the payments that are not recorded
  Nobody       \* the lock is free; no address

ASSUME FaucetAssumption ==
  /\ Second \in Nat \ {0} /\ Day \in Nat /\ Day > Second
  /\ MaxTime \in Nat /\ MaxFaults \in Nat
  /\ Nobody \notin Workers \cup Addresses

VARIABLES
  requests,   \* the table: the timestamps, in seconds, for each address
  payments,   \* bitcoind: the times of the payments for each of them
  lock,       \* the worker that holds the mutexes
  step,       \* what a worker does next
  address,    \* the address of its request
  now,        \* the clock
  faults      \* payments made and not recorded

vars == <<requests, payments, lock, step, address, now, faults>>
store == <<requests, payments, faults>>

-----------------------------------------------------------------------------

\* main: the table is created if there is none.
Init ==
  /\ requests = [a \in Addresses |-> {}]
  /\ payments = [a \in Addresses |-> <<>>]
  /\ lock = Nobody
  /\ step = [w \in Workers |-> "idle"]
  /\ address = [w \in Workers |-> Nobody]
  /\ now = 0
  /\ faults = 0

Receive(w, a) ==
  /\ step[w] = "idle"
  /\ step' = [step EXCEPT ![w] = "lock"]
  /\ address' = [address EXCEPT ![w] = a]
  /\ UNCHANGED <<store, lock, now>>

\* Faulty variant: the connection is not locked for the whole request.
NeverWaits == TRUE

IsFree == lock = Nobody

Lock(w) ==
  /\ step[w] = "lock"
  /\ IsFree
  /\ lock' = w
  /\ step' = [step EXCEPT ![w] = "check"]
  /\ UNCHANGED <<store, address, now>>

\* The handler returns, with whatever status, and drops its guards.
Return(w) ==
  /\ lock' = Nobody
  /\ step' = [step EXCEPT ![w] = "idle"]
  /\ address' = [address EXCEPT ![w] = Nobody]

\* check_last_request: the latest timestamp against a clock with fractions.
check_last_request(a) ==
  requests[a] # {} /\ now - Max(requests[a]) * Second < Day

\* Too many requests.
Refuse(w) ==
  /\ step[w] = "check"
  /\ check_last_request(address[w])
  /\ Return(w)
  /\ UNCHANGED <<store, now>>

\* Faulty variant: the request is recorded before it is paid.
PassAndRecord(w) ==
  /\ step[w] = "check"
  /\ ~check_last_request(address[w])
  /\ requests' = [requests EXCEPT ![address[w]] = @ \cup {now \div Second}]
  /\ step' = [step EXCEPT ![w] = "send"]
  /\ UNCHANGED <<payments, faults, lock, address, now>>

PassCheck(w) ==
  /\ step[w] = "check"
  /\ ~check_last_request(address[w])
  /\ step' = [step EXCEPT ![w] = "send"]
  /\ UNCHANGED <<store, lock, address, now>>

\* The query fails, the address does not parse or is of another network, or
\* bitcoind refuses: nothing has been paid.
Fail(w) ==
  /\ step[w] \in {"check", "send"}
  /\ Return(w)
  /\ UNCHANGED <<store, now>>

Pay(a) == payments' = [payments EXCEPT ![a] = Append(@, now)]

send_funds(w) ==
  /\ step[w] = "send"
  /\ Pay(address[w])
  /\ step' = [step EXCEPT ![w] = "record"]
  /\ UNCHANGED <<requests, lock, address, now, faults>>

\* bitcoind pays and its answer is lost: an error to the handler.
LoseAnswer(w) ==
  /\ step[w] = "send"
  /\ faults < MaxFaults
  /\ Pay(address[w])
  /\ faults' = faults + 1
  /\ Return(w)
  /\ UNCHANGED <<requests, now>>

\* record_request
record_request(w) ==
  /\ step[w] = "record"
  /\ requests' = [requests EXCEPT ![address[w]] = @ \cup {now \div Second}]
  /\ Return(w)
  /\ UNCHANGED <<payments, now, faults>>

\* The insertion fails: the client is told that the request failed.
FailToRecord(w) ==
  /\ step[w] = "record"
  /\ faults < MaxFaults
  /\ faults' = faults + 1
  /\ Return(w)
  /\ UNCHANGED <<requests, payments, now>>

\* The process stops and is started again.
Restart ==
  LET unrecorded == Cardinality({w \in Workers : step[w] = "record"})
  IN  /\ faults + unrecorded <= MaxFaults
      /\ faults' = faults + unrecorded
      /\ lock' = Nobody
      /\ step' = [w \in Workers |-> "idle"]
      /\ address' = [w \in Workers |-> Nobody]
      /\ UNCHANGED <<requests, payments, now>>

Tick ==
  /\ now < MaxTime
  /\ now' = now + 1
  /\ UNCHANGED <<store, lock, step, address>>

Next ==
  \/ \E w \in Workers :
       \/ \E a \in Addresses : Receive(w, a)
       \/ Lock(w) \/ Refuse(w) \/ PassCheck(w) \/ Fail(w)
       \/ send_funds(w) \/ LoseAnswer(w)
       \/ record_request(w) \/ FailToRecord(w)
  \/ Restart
  \/ Tick

Spec == Init /\ [][Next]_vars

-----------------------------------------------------------------------------
(* Properties. *)

\* The second of two successive payments to one address less than a day apart:
\* a timestamp has no fraction, which makes the day up to a second shorter.
TooSoon(a) ==
  {i \in 2..Len(payments[a]) :
     payments[a][i] - payments[a][i - 1] <= Day - Second}

PaidTooSoon == UNION {{a} \X TooSoon(a) : a \in Addresses}

\* Payments to one address that are closer than a day are due to a payment that
\* was not recorded, one for each, however requests overlap.
OnlyFaultsPayTwice == Cardinality(PaidTooSoon) <= faults

\* Nobody is refused for coins that were not paid: there is a payment for each
\* record, no later than the record, whatever failed in between.
RecordsAreBacked ==
  \A a \in Addresses :
    \A s \in requests[a] :
      Cardinality({t \in requests[a] : t <= s})
        <= Cardinality({i \in DOMAIN payments[a] : payments[a][i] \div Second <= s})

=============================================================================
