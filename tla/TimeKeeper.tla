------------------------------ MODULE TimeKeeper ------------------------------
(***************************************************************************)
(* The clock of time.c: a counter of trimmed seconds driven by the 32-bit  *)
(* system timer, and the timer channels main_loop polls.  One step is one  *)
(* round of main_loop.  set_time has no caller and is no action.           *)
(***************************************************************************)
EXTENDS Integers

CONSTANTS
  CLOCK_16M_SYS_TIMER_CLK_1S,
  Trim,            \* what is written for time_trime, 5000
  TrimWrap,        \* 2^16, the width of time_trime
  ClockWrap,       \* 2^32, the width of clock_time()
  TimeWrap,        \* 2^32, the width of current_unix_time
  Channels,
  Period,          \* the seconds each channel is polled with
  Gaps,            \* ticks that may pass between two rounds
  MaxOwed          \* bound: how far late rounds may put the clock back

\* init_time
one_second_trimmed ==
  (CLOCK_16M_SYS_TIMER_CLK_1S + (Trim % TrimWrap)) % ClockWrap

ASSUME TimeAssumption ==
  /\ CLOCK_16M_SYS_TIMER_CLK_1S \in Nat /\ Trim \in Int
  /\ TrimWrap \in Nat \ {0} /\ ClockWrap \in Nat \ {0} /\ TimeWrap \in Nat \ {0}
  /\ one_second_trimmed > 0
  /\ MaxOwed \in Nat /\ 2 * one_second_trimmed + MaxOwed =< ClockWrap
  /\ Period \in [Channels -> Nat]
  /\ \A ch \in Channels : Period[ch] > 1 /\ Period[ch] < TimeWrap
  /\ Gaps \subseteq Nat \ {0}

VARIABLES
  clock_time,            \* the timer
  behind,                \* history: ticks that have passed and are not counted yet
  owed,                  \* history: what rounds of more than a second are late by
                         \* and shorter ones have not made up for
  last_clock_increase,
  current_unix_time,
  has_ever_reached,
  last_reached_period

vars == <<clock_time, behind, owed, last_clock_increase, current_unix_time,
          has_ever_reached, last_reached_period>>

TypeOK ==
  /\ clock_time \in 0..(ClockWrap - 1)
  /\ behind \in Nat /\ owed \in 0..MaxOwed
  /\ last_clock_increase \in 0..(ClockWrap - 1)
  /\ current_unix_time \in 0..(TimeWrap - 1)
  /\ has_ever_reached \in [Channels -> BOOLEAN]
  /\ last_reached_period \in [Channels -> 0..(TimeWrap - 1)]
-----------------------------------------------------------------------------
TimerRuns(gap) ==
  /\ clock_time' = (clock_time + gap) % ClockWrap
  /\ owed' = IF owed + gap > one_second_trimmed
             THEN owed + gap - one_second_trimmed ELSE 0
  /\ owed' =< MaxOwed

\* Mutant of handler_time: the second in progress is started over.
handler_time_afresh(gap) ==
  \/ /\ (clock_time' - last_clock_increase) % ClockWrap >= one_second_trimmed
     /\ last_clock_increase' = clock_time'
     /\ current_unix_time' = (current_unix_time + 1) % TimeWrap
     /\ behind' = behind + gap - one_second_trimmed
  \/ /\ (clock_time' - last_clock_increase) % ClockWrap < one_second_trimmed
     /\ behind' = behind + gap
     /\ UNCHANGED <<last_clock_increase, current_unix_time>>

\* Mutant of handler_time: the second is added without wrapping.
handler_time_wide(gap) ==
  \/ /\ (clock_time' - last_clock_increase) % ClockWrap >= one_second_trimmed
     /\ last_clock_increase' = last_clock_increase + one_second_trimmed
     /\ current_unix_time' = (current_unix_time + 1) % TimeWrap
     /\ behind' = behind + gap - one_second_trimmed
  \/ /\ (clock_time' - last_clock_increase) % ClockWrap < one_second_trimmed
     /\ behind' = behind + gap
     /\ UNCHANGED <<last_clock_increase, current_unix_time>>

\* At most one second is counted per round.
handler_time(gap) ==
  \/ /\ (clock_time' - last_clock_increase) % ClockWrap >= one_second_trimmed
     /\ last_clock_increase' = (last_clock_increase + one_second_trimmed) % ClockWrap
     /\ current_unix_time' = (current_unix_time + 1) % TimeWrap
     /\ behind' = behind + gap - one_second_trimmed
  \/ /\ (clock_time' - last_clock_increase) % ClockWrap < one_second_trimmed
     /\ behind' = behind + gap
     /\ UNCHANGED <<last_clock_increase, current_unix_time>>

\* Mutants of Due: one second late; the first call is recorded as well; the
\* difference is not wrapped.
DueLate(ch) ==
  /\ has_ever_reached[ch]
  /\ (current_unix_time' - last_reached_period[ch]) % TimeWrap > Period[ch]
DueAtFirst(ch) ==
  has_ever_reached[ch] =>
    (current_unix_time' - last_reached_period[ch]) % TimeWrap >= Period[ch]

DueUnwrapped(ch) ==
  /\ has_ever_reached[ch]
  /\ current_unix_time' - last_reached_period[ch] >= Period[ch]

\* The first call reports without recording the time.
Due(ch) ==
  /\ has_ever_reached[ch]
  /\ (current_unix_time' - last_reached_period[ch]) % TimeWrap >= Period[ch]

time_reached_period ==
  /\ has_ever_reached' = [ch \in Channels |-> TRUE]
  /\ last_reached_period' =
       [ch \in Channels |-> IF Due(ch) THEN current_unix_time'
                                       ELSE last_reached_period[ch]]

Round(gap) == TimerRuns(gap) /\ handler_time(gap) /\ time_reached_period
-----------------------------------------------------------------------------
\* The timer starts at zero with the chip and has run for less than a second.
Init ==
  /\ clock_time \in 0..(one_second_trimmed - 1)
  /\ behind = clock_time /\ owed = 0
  /\ last_clock_increase = 0
  /\ current_unix_time = 0
  /\ has_ever_reached = [ch \in Channels |-> FALSE]
  /\ last_reached_period = [ch \in Channels |-> 0]

Next == \E gap \in Gaps : Round(gap)

Spec == Init /\ [][Next]_vars
-----------------------------------------------------------------------------
(* Properties *)

\* No tick is lost across any number of wraps of the timer: all whole seconds have
\* been counted except those that late rounds owe, and as a round counts one
\* second at most, rounds shorter than that make up for late ones.
ClockExact ==
  /\ behind < one_second_trimmed + owed
  /\ (clock_time - last_clock_increase) % ClockWrap = behind

\* A channel is never overdue when a round ends, not even when the seconds wrap.
NeverOverdue ==
  \A ch \in Channels :
    (current_unix_time - last_reached_period[ch]) % TimeWrap < Period[ch]

\* Reports do not drift: each is recorded exactly one period after the last.
PeriodExact ==
  [][\A ch \in Channels :
       last_reached_period'[ch] # last_reached_period[ch] =>
         last_reached_period'[ch]
           = (last_reached_period[ch] + Period[ch]) % TimeWrap]_vars
=============================================================================
