-------------------------------- MODULE Timer --------------------------------
(***************************************************************************)
(* timeouts.rs: the Timer, a BTreeSet of absolute timestamps, as operators *)
(* on the set `timeouts`.  A Timestamp is a u128 number of milliseconds,   *)
(* which no clock or Duration overflows: a natural number here.  as_millis *)
(* truncates it to u64: modulo the constant U64.                           *)
(***************************************************************************)
EXTENDS Integers, FiniteSetsExt

CONSTANTS
  U64,            \* 2^64 in the code, small here
  OverflowChecks  \* is the crate built with overflow checks (a debug build)?

ASSUME TimerAssumption == U64 \in Nat \ {0} /\ OverflowChecks \in BOOLEAN


NowFails(time) == time < 0

AsMillis(time) == time % U64

\* Timer::set_timeout: equal deadlines coincide in the set.
SetTimeout(timeouts, duration, after) == timeouts \cup {after + duration}

First(timeouts) == Min(timeouts)

\* The u64 subtraction of next_expiring_from goes below zero.
UnderflowsAtZero(timeouts, time) ==  \* mutant: nothing left is taken for too little
  /\ timeouts # {}
  /\ First(timeouts) >= time
  /\ AsMillis(First(timeouts)) <= AsMillis(time)

Underflows(timeouts, time) ==
  /\ timeouts # {}
  /\ First(timeouts) >= time
  /\ AsMillis(First(timeouts)) < AsMillis(time)

\* Timer::next_expiring_from, with unwrap_or(default) of its caller; the
\* subtraction wraps when the build does not check it.
NextExpiringIgnored(timeouts, time, default) == default  \* mutant

NextExpiringFrom(timeouts, time, default) ==
  IF timeouts = {} THEN default
  ELSE IF First(timeouts) >= time
       THEN (AsMillis(First(timeouts)) - AsMillis(time)) % U64
       ELSE 0

\* Timer::remove_expired_by: what is below the split point fires.
SplitPointLate(time) == time + 2  \* mutant

SplitPoint(time) == time + 1

ExpiredBefore(timeouts, time) == {t \in timeouts : t < time}  \* mutant

Expired(timeouts, time)   == {t \in timeouts : t < SplitPoint(time)}
Unexpired(timeouts, time) == {t \in timeouts : t >= SplitPoint(time)}
=============================================================================
