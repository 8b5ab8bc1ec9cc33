----------------------------- MODULE TimeRanges -----------------------------
(***************************************************************************)
(* utils/timerange: when a date range or a cron range contains a moment.   *)
(* A cron spec names one minute and hour of the days it lists, so its      *)
(* firings repeat: it is the set of their places in a cycle of `period`    *)
(* ticks.                                                                  *)
(***************************************************************************)
EXTENDS Integers

\* Schedule.Next: the first firing after `when`.  The set has one element.
NextFiring(spec, period, when) ==
    LET delay(at) == period - ((when - at) % period)
    IN  {when + delay(at) : at \in {a \in spec : \A b \in spec : delay(a) <= delay(b)}}

\* Mutant: a firing at the time itself counts as the next one.
ContainsWithPresent(start, end, period, when) ==
    \E s \in NextFiring(start, period, when - 1), e \in NextFiring(end, period, when - 1) : e < s

\* CronScheduler.Contains: nextStart.After(nextEnd).  Its other two conditions always
\* hold, the last start being before `when` and the next end after it.
CronContains(start, end, period, when) ==
    \E s \in NextFiring(start, period, when), e \in NextFiring(end, period, when) : e < s

\* DateScheduler.Contains is closed at both ends.
DateContains(start, end, when) == start <= when /\ when <= end
=============================================================================
