-------------------------- MODULE TimeLockStrategy --------------------------
(***************************************************************************)
(* DefaultTimeLockStrategy: how long a withdrawal or a borrow of an asset  *)
(* is held.  An amount waits the longer the larger it is; what goes out of *)
(* the Pool in a period is counted, and what exceeds the limit of the      *)
(* period waits longer still.  One strategy contract per asset.            *)
(***************************************************************************)
EXTENDS Integers, FiniteSetsExt

CONSTANTS
    Assets,     \* reserves with a time lock
    Strategy,   \* Strategy[a]: the immutables of the strategy of a
    Start,      \* time of deployment
    MaxTime     \* bound on time

StrategyData == [
    minThreshold : Nat, midThreshold : Nat,
    minWaitTime : Nat, midWaitTime : Nat, maxWaitTime : Nat,
    poolPeriodLimit : Nat, poolPeriodWaitTime : Nat, period : Nat]

\* What the constructor requires; the clock is beyond any period when the
\* contract is deployed, as block.timestamp is.
ASSUME StrategyAssumption ==
    /\ Start \in Nat /\ MaxTime \in Nat /\ Start <= MaxTime
    /\ Strategy \in [Assets -> StrategyData]
    /\ \A a \in Assets :
        /\ Strategy[a].minThreshold < Strategy[a].midThreshold
        /\ Strategy[a].minWaitTime < Strategy[a].midWaitTime
        /\ Strategy[a].midWaitTime < Strategy[a].maxWaitTime
        /\ Strategy[a].poolPeriodLimit > 0
        /\ Strategy[a].period <= Start

VARIABLES
    totalAmountInCurrentPeriod, \* by asset
    lastResetTimestamp,         \* by asset
    now

strategyVars == <<totalAmountInCurrentPeriod, lastResetTimestamp>>

Times == Start .. MaxTime

-----------------------------------------------------------------------------

PeriodOver(a) == now - lastResetTimestamp[a] >= Strategy[a].period

NewTotal(a, amount) ==
    (IF PeriodOver(a) THEN 0 ELSE totalAmountInCurrentPeriod[a]) + amount

ExtraDelay(a, amount) ==
    IF NewTotal(a, amount) > Strategy[a].poolPeriodLimit THEN Strategy[a].poolPeriodWaitTime ELSE 0

WaitTime(a, amount) ==
    CASE amount < Strategy[a].minThreshold -> Strategy[a].minWaitTime
      [] amount \in Strategy[a].minThreshold .. Strategy[a].midThreshold - 1 -> Strategy[a].midWaitTime
      [] amount >= Strategy[a].midThreshold -> Strategy[a].maxWaitTime

ReleaseTime(a, amount) == now + ExtraDelay(a, amount) + WaitTime(a, amount)

CountWithoutReset(a, amount) ==      \* mutant
    /\ totalAmountInCurrentPeriod' = [totalAmountInCurrentPeriod EXCEPT ![a] = NewTotal(a, amount)]
    /\ UNCHANGED lastResetTimestamp

\* _updatePeriodLimit
UpdatePeriodLimit(a, amount) ==
    /\ totalAmountInCurrentPeriod' = [totalAmountInCurrentPeriod EXCEPT ![a] = NewTotal(a, amount)]
    /\ lastResetTimestamp' = IF PeriodOver(a) THEN [lastResetTimestamp EXCEPT ![a] = now]
                                              ELSE lastResetTimestamp

Tick ==
    /\ now < MaxTime
    /\ now' = now + 1
    /\ UNCHANGED strategyVars

StrategyInit ==
    /\ totalAmountInCurrentPeriod = [a \in Assets |-> 0]
    /\ lastResetTimestamp = [a \in Assets |-> 0]
    /\ now = Start

-----------------------------------------------------------------------------

StrategyTypeOK ==
    /\ totalAmountInCurrentPeriod \in [Assets -> Nat]
    /\ lastResetTimestamp \in [Assets -> Nat]
    /\ now \in Times

=============================================================================
