---------------------------- MODULE DeveloperDay ----------------------------
(* A developer's day: developerDayWindow() and its copy in the interpreter.   *)
(* The day of an instant is the calendar day a time zone gives it; its bounds *)
(* are the instants of local midnight, found by correcting a guess three      *)
(* times. Instants and local times are in units of a zone's shift.            *)
EXTENDS Integers

CONSTANTS
    DayUnits,       \* units in a calendar day
    Zones,          \* time zones: an offset, and another from an instant on
    MaxNow          \* bound on time

ASSUME DayAssumption ==
    /\ DayUnits \in Nat \ {0} /\ MaxNow \in Nat
    /\ \A z \in Zones : /\ {z.before, z.after} \subseteq -DayUnits .. DayUnits
                         /\ z.after - z.before \in {-1, 0, 1}
                         /\ z.at \in Int

VARIABLES
    zone,           \* the project's time zone; it does not change
    now,
    today,          \* the window asked for last, with the instant of asking
    earlier         \* the one before

dayVars == <<zone, now, today, earlier>>

-----------------------------------------------------------------------------
(* The window of an instant *)

\* The local time of an instant.
Local(t) == t + IF t < zone.at THEN zone.before ELSE zone.after

\* parts(): the calendar day of an instant.
LocalDay(t) == Local(t) \div DayUnits

\* One iteration: the guess is moved by what it is off.
Corrected(target, guess) == guess + (target - Local(guess))

\* Slip: one correction is taken to be enough.
CorrectedOnce(day) == Corrected(day * DayUnits, day * DayUnits)

\* midnightUtc
MidnightUtc(day) ==
    LET target == day * DayUnits
    IN  Corrected(target, Corrected(target, Corrected(target, target)))

\* developerDayWindow: from midnight to the midnight of the next calendar day.
DayWindow(t) == [at |-> t, start |-> MidnightUtc(LocalDay(t)),
                 end |-> MidnightUtc(LocalDay(t) + 1)]

DayInit ==
    /\ zone \in Zones
    /\ now = 0
    /\ today = DayWindow(0)
    /\ earlier = DayWindow(0)

AskForDay ==
    /\ today' = DayWindow(now)
    /\ earlier' = today
    /\ UNCHANGED <<zone, now>>

TimePasses ==
    /\ now < MaxNow
    /\ now' = now + 1
    /\ UNCHANGED <<zone, today, earlier>>

DayNext == AskForDay \/ TimePasses

DaySpec == DayInit /\ [][DayNext]_dayVars

-----------------------------------------------------------------------------
(* Properties *)

\* Type correctness: a day is a shift longer or shorter than its units at most.
DayTypeOK ==
    /\ zone \in Zones
    /\ now \in 0 .. MaxNow
    /\ today.at \in earlier.at .. now
    /\ today.end - today.start \in DayUnits - 1 .. DayUnits + 1

\* The instants a zone calls the midnight of a day, which are reached by one of
\* its two offsets; a change of the clocks makes them none or two.
MidnightsOf(day) ==
    {t \in {day * DayUnits - zone.before, day * DayUnits - zone.after} :
        Local(t) = day * DayUnits}

\* A day begins at a midnight, when its calendar day has one.
StartsAtMidnight ==
    MidnightsOf(LocalDay(today.at)) # {} =>
        today.start \in MidnightsOf(LocalDay(today.at))

Once(day) == \E t \in MidnightsOf(day) : MidnightsOf(day) = {t}

\* The instant of asking is in its own day, unless the clocks change at one of
\* its midnights and skip or repeat it.
NowIsInItsDay ==
    (Once(LocalDay(today.at)) /\ Once(LocalDay(today.at) + 1)) =>
        today.at \in today.start .. today.end - 1

\* Days of two instants are one window or do not overlap, and those of
\* consecutive calendar days adjoin, also over a change of the clocks.
DaysPartitionTime ==
    LET days == LocalDay(today.at) - LocalDay(earlier.at) IN
    /\ days = 0 => [earlier EXCEPT !.at = 0] = [today EXCEPT !.at = 0]
    /\ days = 1 => earlier.end = today.start
    /\ days > 0 => earlier.end <= today.start
    /\ days < 0 => today.end <= earlier.start

\* Days are whole: every instant in its own, none in two, also when the clocks
\* change.
DaysAreWhole == StartsAtMidnight /\ NowIsInItsDay /\ DaysPartitionTime
=============================================================================
