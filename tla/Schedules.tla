----------------------------- MODULE Schedules -----------------------------
(***************************************************************************)
(* core/scheduling/settings.go: the settings of a target are a default and *)
(* a list of schedules; the settings of the moment are the default, or the *)
(* default with the fields of one schedule merged into it.                 *)
(***************************************************************************)
EXTENDS TimeRanges, Sequences

\* The form of a schedule says whether it makes a scheduler:
\*   cron     two standard cron specs, not the same text, and a timezone
\*   refused  no timezone, an unknown one, an end missing, both ends the same
\*            text, or an end that is no cron spec (a date is refused here)
ScheduleForms == {"cron", "refused"}

\* start and end are the places of their firings in the cycle; settings has the
\* fields the schedule overrides.
IsSchedule(s, period) ==
    /\ s.form \in ScheduleForms
    /\ s.start \subseteq 0..(period - 1) /\ s.end \subseteq 0..(period - 1)

IsScheduleList(list, period) ==
    /\ list \in Seq({list[i] : i \in DOMAIN list})
    /\ \A i \in DOMAIN list : IsSchedule(list[i], period)

\* GetScheduler fails.
Refused(s) == s.form = "refused"

\* jsonpatch.MergePatch on objects without null.
MergePatch(default, override) ==
    [f \in DOMAIN default \cup DOMAIN override |->
        IF f \in DOMAIN override THEN override[f] ELSE default[f]]

\* The settings there can be: the default, alone or with one schedule merged into it.
PossibleSettings(settings) ==
    {settings.default} \cup
    {MergePatch(settings.default, settings.schedules[i].settings) : i \in DOMAIN settings.schedules}

\* GetScheduledSettingsRaw: the loop ends at the first schedule that contains the
\* time, or with an error at one that is refused.  The set is empty on an error.
GetScheduledSettingsRaw(when, settings, period) ==
    LET list  == settings.schedules
        ends  == {i \in DOMAIN list : \/ Refused(list[i])
                                      \/ CronContains(list[i].start, list[i].end, period, when)}
        first == {i \in ends : \A j \in ends : i <= j}
    IN  IF ends = {} THEN {settings.default}
        ELSE {MergePatch(settings.default, list[i].settings) :
                 i \in {j \in first : ~Refused(list[j])}}

-----------------------------------------------------------------------------
(* What a schedule means, without reference to next firings                *)

\* Starts and ends take turns in the cycle.
Alternating(start, end, period) ==
    LET between(a, b) == {(a + d) % period : d \in 1..(((b - a - 1) % period))}
        apart(xs, ys) == \A a, b \in xs : between(a, b) \cap xs = {} => between(a, b) \cap ys # {}
    IN  /\ start # {} /\ end # {} /\ start \cap end = {}
        /\ apart(start, end) /\ apart(end, start)

\* The range was entered some time ago and has not been left since.
Entered(start, end, period, when) ==
    \E ago \in 0..(period - 1) :
        /\ (when - ago) % period \in start
        /\ \A d \in 0..(ago - 1) : (when - d) % period \notin end
=============================================================================
