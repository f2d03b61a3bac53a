----------------------------- MODULE BeaconProofs -----------------------------
(* Proofs about TimeKeeper and Beacon: no second is lost and no channel         *)
(* overdue, whatever the lengths of the second and the periods and however      *)
(* often timers wrap; a measurement survives two samples that read as anything, *)
(* and the reported level follows the voltage.                                  *)
EXTENDS Beacon, FiniteSetTheorems, WellFoundedInduction, TLAPS

(* Readings of a counter that wraps *)

\* Division with remainder.
LEMMA Division ==
  ASSUME NEW n \in Nat, NEW d \in Nat \ {0}
  PROVE  /\ n \div d \in Nat
         /\ n % d \in 0..(d - 1)
         /\ n = d * (n \div d) + (n % d)
  BY SMT

\* A sum of two readings wraps at most once, a difference likewise.
LEMMA WrappedSum ==
  ASSUME NEW d \in Nat \ {0}, NEW a \in 0..(d - 1), NEW b \in 0..(d - 1)
  PROVE  (a + b) % d = IF a + b >= d THEN (a + b) - d ELSE a + b
  BY SMT

LEMMA WrappedDifference ==
  ASSUME NEW d \in Nat \ {0}, NEW a \in 0..(d - 1), NEW b \in 0..(d - 1)
  PROVE  (a - b) % d = IF a >= b THEN a - b ELSE (a - b) + d
  BY SMT

LEMMA SelfDifference ==
  ASSUME NEW d \in Nat \ {0}, NEW a \in 0..(d - 1)
  PROVE  (a - a) % d = 0
<1>1. a - a = 0
  OBVIOUS
<1>2. 0 % d = 0
  BY SMT
<1>3. QED
  BY <1>1, <1>2

\* Moving the earlier of two readings on shortens the difference.
LEMMA ReadingMovesOn ==
  ASSUME NEW d \in Nat \ {0}, NEW later \in 0..(d - 1), NEW earlier \in 0..(d - 1),
         NEW step \in 0..(d - 1), (later - earlier) % d >= step
  PROVE  (later - ((earlier + step) % d)) % d = ((later - earlier) % d) - step
<1> DEFINE gap == (later - earlier) % d
           moved == (earlier + step) % d
           rest == (later - moved) % d
<1>1. gap = IF later >= earlier THEN later - earlier ELSE (later - earlier) + d
  BY WrappedDifference
<1>2. moved = IF earlier + step >= d THEN (earlier + step) - d ELSE earlier + step
  BY WrappedSum
<1>3. gap >= step
  OBVIOUS
<1> HIDE DEF gap, moved
<1>4. moved \in 0..(d - 1)
  BY <1>2
<1>5. rest = IF later >= moved THEN later - moved ELSE (later - moved) + d
  BY <1>4, WrappedDifference
<1> HIDE DEF rest
<1>6. rest = gap - step
  BY <1>1, <1>2, <1>3, <1>4, <1>5
<1>7. QED
  BY <1>6 DEF rest, gap, moved

\* A set of natural numbers has a least one.
LEMMA NatMinimum ==
  ASSUME NEW T \in SUBSET Nat, T # {}
  PROVE  \E x \in T : \A y \in T : x =< y
<1> DEFINE R == OpToRel(<, Nat)
<1>1. IsWellFoundedOn(R, Nat)
  BY NatLessThanWellFounded
<1>2. \A x, y \in Nat : <<y, x>> \in R <=> y < x
  BY DEF OpToRel
<1> HIDE DEF R
<1>3. \E x \in T : \A y \in T : ~(<<y, x>> \in R)
  BY <1>1, WFMin
<1>4. \A x, y \in T : x \in Nat /\ y \in Nat /\ (~(y < x) => x =< y)
  OBVIOUS
<1>5. QED
  BY <1>2, <1>3, <1>4
-----------------------------------------------------------------------------

(* The clock *)

LEMMA Ranges ==
  /\ one_second_trimmed \in Nat \ {0} /\ ClockWrap \in Nat \ {0}
  /\ one_second_trimmed \in 0..(ClockWrap - 1)
  /\ MaxOwed \in Nat /\ one_second_trimmed \in Nat
  /\ one_second_trimmed + (one_second_trimmed + MaxOwed) =< ClockWrap
  BY TimeAssumption, SMT DEF one_second_trimmed

\* Until its first report a channel's record is as old as the clock.
Unreached ==
  \A ch \in Channels :
    ~has_ever_reached[ch] => current_unix_time = last_reached_period[ch]

IInv == TypeOK /\ ClockExact /\ NeverOverdue /\ Unreached

\* What a round adds to what is not counted fits in the timer, and when a second
\* of it is counted, what is left is bounded as before.
LEMMA DebtBounded ==
  ASSUME NEW second \in Nat, NEW wrap \in Nat, NEW limit \in Nat, second > 0,
         second + (second + limit) =< wrap,
         NEW b \in Nat, NEW o \in Nat, NEW p \in Nat, NEW gap \in Nat, gap > 0,
         b < second + o, o =< limit, p =< limit, o + gap =< second + p
  PROVE  /\ b \in 0..(wrap - 1) /\ gap \in 0..(wrap - 1)
         /\ b + gap \in 1..(wrap - 1)
         /\ b + gap < second + (second + p)
  OBVIOUS

LEMMA SecondTaken ==
  ASSUME NEW second \in Nat, NEW p \in Nat, NEW total \in Nat, NEW left,
         total >= second, total < second + (second + p), left = total - second
  PROVE  left \in Nat /\ left < second + p
  OBVIOUS

\* A round moves the timer on by its gap; what is not counted yet grows by it.
LEMMA TimerAhead ==
  ASSUME TypeOK, ClockExact, NEW gap \in Gaps, TimerRuns(gap)
  PROVE  /\ clock_time' \in 0..(ClockWrap - 1)
         /\ owed' \in 0..MaxOwed
         /\ behind + gap < one_second_trimmed + (one_second_trimmed + owed')
         /\ behind + gap \in 1..(ClockWrap - 1)
         /\ (clock_time' - last_clock_increase) % ClockWrap = behind + gap
<1>1. /\ gap \in Nat \ {0} /\ owed' \in 0..MaxOwed
      /\ owed + gap =< one_second_trimmed + owed'
  BY Ranges, TimeAssumption, SMT DEF TypeOK, TimerRuns
<1>9. /\ behind \in Nat /\ owed \in Nat /\ owed' \in Nat /\ gap \in Nat
      /\ behind < one_second_trimmed + owed
      /\ owed =< MaxOwed /\ owed' =< MaxOwed
  BY <1>1, Ranges DEF TypeOK, ClockExact
<1>0. /\ gap \in 0..(ClockWrap - 1) /\ behind \in 0..(ClockWrap - 1)
      /\ behind + gap \in 1..(ClockWrap - 1)
      /\ behind + gap < one_second_trimmed + (one_second_trimmed + owed')
  <2>1. gap > 0 /\ one_second_trimmed > 0 /\ ClockWrap \in Nat
    BY <1>1, Ranges
  <2>2. QED
    BY <1>1, <1>9, <2>1, Ranges, DebtBounded
<1>2. clock_time' = IF clock_time + gap >= ClockWrap
                    THEN (clock_time + gap) - ClockWrap ELSE clock_time + gap
  BY <1>0, Ranges, WrappedSum DEF TypeOK, TimerRuns
<1>3. clock_time' \in 0..(ClockWrap - 1)
  BY <1>0, <1>2, Ranges, SMT DEF TypeOK
<1>4. behind = IF clock_time >= last_clock_increase
               THEN clock_time - last_clock_increase
               ELSE (clock_time - last_clock_increase) + ClockWrap
  BY Ranges, WrappedDifference DEF TypeOK, ClockExact
<1>5. (clock_time' - last_clock_increase) % ClockWrap
        = IF clock_time' >= last_clock_increase
          THEN clock_time' - last_clock_increase
          ELSE (clock_time' - last_clock_increase) + ClockWrap
  BY <1>3, Ranges, WrappedDifference DEF TypeOK
<1>6. /\ clock_time \in 0..(ClockWrap - 1)
      /\ last_clock_increase \in 0..(ClockWrap - 1)
  BY DEF TypeOK
<1>7. (clock_time' - last_clock_increase) % ClockWrap = behind + gap
  <2> DEFINE elapsed == (clock_time' - last_clock_increase) % ClockWrap
  <2>1. elapsed = IF clock_time' >= last_clock_increase
                  THEN clock_time' - last_clock_increase
                  ELSE (clock_time' - last_clock_increase) + ClockWrap
    BY <1>5
  <2> HIDE DEF elapsed
  <2>2. elapsed = behind + gap
    BY <1>0, <1>1, <1>2, <1>3, <1>4, <1>6, <2>1, Ranges
  <2>3. QED
    BY <2>2 DEF elapsed
<1>8. QED
  BY <1>0, <1>1, <1>3, <1>7

\* Counting a second takes it off what is not counted yet.
LEMMA HandlerKeepsExact ==
  ASSUME TypeOK, ClockExact, NEW gap \in Gaps, TimerRuns(gap), handler_time(gap)
  PROVE  /\ ClockExact'
         /\ behind' \in Nat /\ owed' \in 0..MaxOwed
         /\ last_clock_increase' \in 0..(ClockWrap - 1)
         /\ clock_time' \in 0..(ClockWrap - 1)
         /\ \/ current_unix_time' = current_unix_time
            \/ current_unix_time' = (current_unix_time + 1) % TimeWrap
<1> DEFINE elapsed == (clock_time' - last_clock_increase) % ClockWrap
<1>1. /\ clock_time' \in 0..(ClockWrap - 1)
      /\ owed' \in 0..MaxOwed
      /\ behind + gap < one_second_trimmed + (one_second_trimmed + owed')
      /\ behind + gap \in 1..(ClockWrap - 1)
      /\ elapsed = behind + gap
  BY TimerAhead
<1>2. CASE elapsed >= one_second_trimmed
  <2>1. /\ last_clock_increase'
             = (last_clock_increase + one_second_trimmed) % ClockWrap
        /\ current_unix_time' = (current_unix_time + 1) % TimeWrap
        /\ behind' = behind + gap - one_second_trimmed
    BY <1>1, <1>2, Ranges, SMT DEF handler_time
  <2>2. last_clock_increase' \in 0..(ClockWrap - 1)
    BY <2>1, Ranges, SMT DEF TypeOK
  <2>3. (clock_time' - last_clock_increase') % ClockWrap
          = elapsed - one_second_trimmed
    <3>1. /\ clock_time' \in 0..(ClockWrap - 1)
          /\ last_clock_increase \in 0..(ClockWrap - 1)
          /\ (clock_time' - last_clock_increase) % ClockWrap >= one_second_trimmed
      BY <1>1, <1>2 DEF TypeOK
    <3>2. QED
      BY <2>1, <3>1, Ranges, ReadingMovesOn
  <2> HIDE DEF elapsed
  <2>4. behind' < one_second_trimmed + owed' /\ behind' \in Nat
        /\ elapsed - one_second_trimmed = behind'
    <3>1. /\ behind + gap \in Nat /\ one_second_trimmed \in Nat /\ owed' \in Nat
          /\ behind + gap < one_second_trimmed + (one_second_trimmed + owed')
      BY <1>1, Ranges
    <3>2. elapsed = behind + gap
      BY <1>1
    <3>3. behind + gap >= one_second_trimmed
      BY <1>2, <3>2
    <3>4. behind' = (behind + gap) - one_second_trimmed
      <4>1. behind \in Nat /\ gap \in Nat /\ behind' = behind + gap - one_second_trimmed
        BY <2>1, TimeAssumption DEF TypeOK
      <4>2. QED
        BY <3>1, <4>1
    <3>5. QED
      BY <3>1, <3>2, <3>3, <3>4, SecondTaken
  <2>5. QED
    BY <1>1, <2>1, <2>2, <2>3, <2>4 DEF ClockExact
<1>3. CASE ~(elapsed >= one_second_trimmed)
  <2>1. /\ behind' = behind + gap
        /\ last_clock_increase' = last_clock_increase
        /\ current_unix_time' = current_unix_time
    BY <1>1, <1>3, Ranges DEF handler_time
  <2> HIDE DEF elapsed
  <2>2. behind' < one_second_trimmed + owed' /\ behind' \in Nat
    BY <1>1, <1>3, <2>1, Ranges
  <2>3. (clock_time' - last_clock_increase') % ClockWrap = behind'
    BY <1>1, <2>1 DEF elapsed
  <2>4. QED
    BY <1>1, <2>1, <2>2, <2>3 DEF ClockExact, TypeOK
<1>4. QED
  BY <1>2, <1>3

\* After one second at most a channel is due exactly when its period is over.
LEMMA OneSecondOn ==
  ASSUME TypeOK, NEW ch \in Channels, NEW now \in 0..(TimeWrap - 1),
         (current_unix_time - last_reached_period[ch]) % TimeWrap < Period[ch],
         \/ now = current_unix_time
         \/ now = (current_unix_time + 1) % TimeWrap
  PROVE  /\ (now - last_reached_period[ch]) % TimeWrap =< Period[ch]
         /\ (now - last_reached_period[ch]) % TimeWrap = Period[ch] =>
              now = (last_reached_period[ch] + Period[ch]) % TimeWrap
<1> DEFINE last == last_reached_period[ch]
           p == Period[ch]
<1>1. /\ TimeWrap \in Nat \ {0} /\ p \in 0..(TimeWrap - 1) /\ 1 \in 0..(TimeWrap - 1)
      /\ last \in 0..(TimeWrap - 1) /\ current_unix_time \in 0..(TimeWrap - 1)
  BY TimeAssumption, SMT DEF TypeOK
<1>2. (current_unix_time - last) % TimeWrap < p
  OBVIOUS
<1> HIDE DEF last, p
<1>3. (current_unix_time - last) % TimeWrap
        = IF current_unix_time >= last THEN current_unix_time - last
          ELSE (current_unix_time - last) + TimeWrap
  BY <1>1, WrappedDifference
<1>4. (now - last) % TimeWrap
        = IF now >= last THEN now - last ELSE (now - last) + TimeWrap
  BY <1>1, WrappedDifference
<1>5. (current_unix_time + 1) % TimeWrap
        = IF current_unix_time + 1 >= TimeWrap
          THEN (current_unix_time + 1) - TimeWrap ELSE current_unix_time + 1
  BY <1>1, WrappedSum
<1>6. (last + p) % TimeWrap
        = IF last + p >= TimeWrap THEN (last + p) - TimeWrap ELSE last + p
  BY <1>1, WrappedSum
<1>7. /\ (now - last) % TimeWrap =< p
      /\ (now - last) % TimeWrap = p => now = (last + p) % TimeWrap
  BY <1>1, <1>2, <1>3, <1>4, <1>5, <1>6, SMT
<1>8. QED
  BY <1>7 DEF last, p
-----------------------------------------------------------------------------
LEMMA InitIInv == Init => IInv
<1> SUFFICES ASSUME Init PROVE IInv
  OBVIOUS
<1>1. TypeOK
  BY Ranges, TimeAssumption, SMT DEF Init, TypeOK
<1>2. (clock_time - 0) % ClockWrap = clock_time
  BY <1>1, Ranges, WrappedDifference, SMT DEF TypeOK
<1>3. ClockExact
  BY <1>2, Ranges, SMT DEF Init, ClockExact
<1>4. ASSUME NEW ch \in Channels
      PROVE  (current_unix_time - last_reached_period[ch]) % TimeWrap < Period[ch]
  <2>1. (0 - 0) % TimeWrap = 0 /\ Period[ch] > 1 /\ Period[ch] \in Nat
    BY TimeAssumption, SMT
  <2>2. QED
    BY <2>1 DEF Init
<1>5. QED
  BY <1>1, <1>3, <1>4 DEF Init, IInv, NeverOverdue, Unreached

\* What one round does.
LEMMA RoundKeeps ==
  ASSUME IInv, NEW gap \in Gaps, Round(gap)
  PROVE  /\ IInv'
         /\ \A ch \in Channels :
              last_reached_period'[ch] # last_reached_period[ch] =>
                last_reached_period'[ch]
                  = (last_reached_period[ch] + Period[ch]) % TimeWrap
<1>1. /\ ClockExact'
      /\ behind' \in Nat /\ owed' \in 0..MaxOwed
      /\ last_clock_increase' \in 0..(ClockWrap - 1)
      /\ clock_time' \in 0..(ClockWrap - 1)
      /\ \/ current_unix_time' = current_unix_time
         \/ current_unix_time' = (current_unix_time + 1) % TimeWrap
  BY HandlerKeepsExact DEF IInv, Round
<1>2. current_unix_time' \in 0..(TimeWrap - 1)
  BY <1>1, TimeAssumption, SMT DEF IInv, TypeOK
<1>3. TypeOK'
  BY <1>1, <1>2 DEF IInv, TypeOK, Round, time_reached_period
<1>4. ASSUME NEW ch \in Channels
      PROVE  /\ (current_unix_time' - last_reached_period'[ch]) % TimeWrap < Period[ch]
             /\ last_reached_period'[ch] # last_reached_period[ch] =>
                  last_reached_period'[ch]
                    = (last_reached_period[ch] + Period[ch]) % TimeWrap
  <2>1. /\ (current_unix_time' - last_reached_period[ch]) % TimeWrap =< Period[ch]
        /\ (current_unix_time' - last_reached_period[ch]) % TimeWrap = Period[ch] =>
             current_unix_time' = (last_reached_period[ch] + Period[ch]) % TimeWrap
    BY <1>1, <1>2, OneSecondOn DEF IInv, NeverOverdue
  <2> DEFINE age == (current_unix_time' - last_reached_period[ch]) % TimeWrap
  <2>2. /\ Period[ch] \in Nat /\ Period[ch] > 1 /\ Period[ch] < TimeWrap
        /\ last_reached_period[ch] \in 0..(TimeWrap - 1)
    BY TimeAssumption DEF IInv, TypeOK
  <2>3. TimeWrap \in Nat \ {0} /\ TimeWrap > 1
    BY <2>2, TimeAssumption
  <2>4. age = IF current_unix_time' >= last_reached_period[ch]
              THEN current_unix_time' - last_reached_period[ch]
              ELSE (current_unix_time' - last_reached_period[ch]) + TimeWrap
    BY <1>2, <2>2, <2>3, WrappedDifference
  <2>5. /\ age =< Period[ch]
        /\ age = Period[ch] =>
             current_unix_time' = (last_reached_period[ch] + Period[ch]) % TimeWrap
    BY <2>1
  <2> HIDE DEF age
  <2>6. age \in Nat
    BY <1>2, <2>2, <2>3, <2>4
  <2>7. (current_unix_time' - current_unix_time') % TimeWrap = 0
    BY <1>2, <2>3, SelfDifference
  <2>8. CASE ~has_ever_reached[ch]
    <3>1. current_unix_time = last_reached_period[ch]
      BY <2>8 DEF IInv, Unreached
    <3>2. (current_unix_time + 1) % TimeWrap
            = IF current_unix_time + 1 >= TimeWrap
              THEN (current_unix_time + 1) - TimeWrap ELSE current_unix_time + 1
      <4>1. 1 \in 0..(TimeWrap - 1) /\ current_unix_time \in 0..(TimeWrap - 1)
        BY <2>2, <2>3, <3>1
      <4>2. QED
        BY <2>3, <4>1, WrappedSum
    <3>3. \/ current_unix_time' = last_reached_period[ch]
          \/ current_unix_time'
               = IF last_reached_period[ch] + 1 >= TimeWrap
                 THEN (last_reached_period[ch] + 1) - TimeWrap
                 ELSE last_reached_period[ch] + 1
      BY <1>1, <3>1, <3>2
    <3>4. age =< 1
      BY <2>2, <2>3, <2>4, <3>3
    <3>5. last_reached_period'[ch] = last_reached_period[ch]
      BY <2>8 DEF Round, time_reached_period, Due, age
    <3>6. QED
      BY <2>2, <2>6, <3>4, <3>5 DEF age
  <2>9. CASE has_ever_reached[ch] /\ age >= Period[ch]
    <3>1. last_reached_period'[ch] = current_unix_time'
      BY <2>9 DEF Round, time_reached_period, Due, age
    <3>2. age >= Period[ch]
      BY <2>9
    <3>3. age = Period[ch]
      BY <2>2, <2>5, <2>6, <3>2
    <3>4. QED
      BY <2>2, <2>5, <2>7, <3>1, <3>3
  <2>10. CASE has_ever_reached[ch] /\ ~(age >= Period[ch])
    <3>1. last_reached_period'[ch] = last_reached_period[ch]
      BY <2>10 DEF Round, time_reached_period, Due, age
    <3>2. QED
      BY <2>2, <2>10, <2>6, <3>1 DEF age
  <2>11. QED
    BY <2>8, <2>9, <2>10
<1>5. Unreached'
  BY DEF Unreached, Round, time_reached_period
<1>6. QED
  BY <1>1, <1>3, <1>4, <1>5 DEF IInv, NeverOverdue

LEMMA NextIInv == IInv /\ [Next]_vars => IInv'
<1> SUFFICES ASSUME IInv, [Next]_vars PROVE IInv'
  OBVIOUS
<1>1. CASE Next
  BY <1>1, RoundKeeps DEF Next
<1>2. CASE UNCHANGED vars
  BY <1>2 DEF vars, IInv, TypeOK, ClockExact, NeverOverdue, Unreached
<1>3. QED
  BY <1>1, <1>2

\* The variables of the clock keep their types.
THEOREM ClockTypeCorrect == Spec => []TypeOK
<1>1. IInv => TypeOK
  BY DEF IInv
<1>2. QED
  BY InitIInv, NextIInv, <1>1, PTL DEF Spec

\* Every whole second of the timer is counted, for every trim and every width of
\* the timer, as long as late rounds owe no more than MaxOwed ticks.
THEOREM NoSecondLost == Spec => []ClockExact
<1>1. IInv => ClockExact
  BY DEF IInv
<1>2. QED
  BY InitIInv, NextIInv, <1>1, PTL DEF Spec

\* No channel is overdue when a round ends, for every set of periods.
THEOREM ChannelsPunctual == Spec => []NeverOverdue
<1>1. IInv => NeverOverdue
  BY DEF IInv
<1>2. QED
  BY InitIInv, NextIInv, <1>1, PTL DEF Spec

\* Each report is recorded exactly one period after the last.
THEOREM ReportsDoNotDrift == Spec => PeriodExact
<1>1. IInv /\ [Next]_vars =>
        [\A ch \in Channels :
           last_reached_period'[ch] # last_reached_period[ch] =>
             last_reached_period'[ch]
               = (last_reached_period[ch] + Period[ch]) % TimeWrap]_vars
  BY RoundKeeps DEF Next
<1>2. QED
  BY InitIInv, NextIInv, <1>1, PTL DEF Spec, PeriodExact
-----------------------------------------------------------------------------
(* The insertion sort *)

Sorted(s) == \A i, j \in DOMAIN s : i =< j => s[i] =< s[j]

\* The elements of a sorted sequence up to a bound are its first ones.
LEMMA UpToBound ==
  ASSUME NEW s \in Seq(Nat), Sorted(s), NEW x \in Nat
  PROVE  \E n \in 0..Len(s) :
           /\ {j \in DOMAIN s : s[j] =< x} = 1..n
           /\ Cardinality({j \in DOMAIN s : s[j] =< x}) = n
           /\ \A i \in 1..n : s[i] =< x
           /\ \A i \in (n + 1)..Len(s) : x < s[i]
<1> DEFINE T == {k \in 0..Len(s) : \A i \in (k + 1)..Len(s) : x < s[i]}
<1>1. Len(s) \in Nat /\ DOMAIN s = 1..Len(s) /\ \A i \in 1..Len(s) : s[i] \in Nat
  OBVIOUS
<1>2. Len(s) \in T
  BY <1>1
<1>3. PICK n \in T : \A y \in T : n =< y
  <2>1. T \in SUBSET Nat /\ T # {}
    BY <1>1, <1>2
  <2> HIDE DEF T
  <2>2. QED
    BY <2>1, NatMinimum
<1>4. n \in 0..Len(s) /\ \A i \in (n + 1)..Len(s) : x < s[i]
  BY <1>3
<1>5. \A i \in 1..n : s[i] =< x
  <2> SUFFICES ASSUME NEW i \in 1..n, ~(s[i] =< x) PROVE FALSE
    OBVIOUS
  <2>1. \A j \in n..Len(s) : x < s[j]
    <3> SUFFICES ASSUME NEW j \in n..Len(s) PROVE x < s[j]
      OBVIOUS
    <3>1. i \in 1..Len(s) /\ j \in 1..Len(s) /\ i =< j
      BY <1>1, <1>4
    <3>2. s[i] =< s[j] /\ s[i] \in Nat /\ s[j] \in Nat
      BY <1>1, <3>1 DEF Sorted
    <3>3. QED
      BY <3>2
  <2>2. n - 1 \in 0..Len(s) /\ (n - 1) + 1 = n
    BY <1>1, <1>4
  <2>3. n - 1 \in T
    BY <2>1, <2>2
  <2> HIDE DEF T
  <2>4. QED
    BY <1>3, <1>4, <2>3
<1> HIDE DEF T
<1>6. {j \in DOMAIN s : s[j] =< x} = 1..n
  <2>1. ASSUME NEW j \in 1..Len(s), s[j] =< x PROVE j \in 1..n
    BY <1>1, <1>4, <2>1
  <2>2. ASSUME NEW j \in 1..n PROVE j \in 1..Len(s) /\ s[j] =< x
    BY <1>1, <1>4, <1>5, <2>2
  <2>3. QED
    BY <1>1, <2>1, <2>2
<1>7. Cardinality(1..n) = n
  <2>1. 1 \in Int /\ n \in Int /\ n >= 0
    BY <1>4, <1>1
  <2>2. Cardinality(1..n) = IF 1 > n THEN 0 ELSE n - 1 + 1
    BY <2>1, FS_Interval
  <2>3. QED
    BY <2>1, <2>2
<1>8. QED
  BY <1>4, <1>5, <1>6, <1>7

\* Insert opens a gap behind the elements up to x and puts x there.
LEMMA InsertShape ==
  ASSUME NEW s \in Seq(Nat), Sorted(s), NEW x \in Nat
  PROVE  \E n \in 0..Len(s) :
           /\ Insert(s, x) \in Seq(Nat) /\ Len(Insert(s, x)) = Len(s) + 1
           /\ \A i \in 1..(Len(s) + 1) :
                Insert(s, x)[i] = IF i =< n THEN s[i]
                                  ELSE IF i = n + 1 THEN x ELSE s[i - 1]
           /\ \A i \in 1..n : s[i] =< x
           /\ \A i \in (n + 1)..Len(s) : x < s[i]
<1>1. PICK n \in 0..Len(s) :
           /\ Cardinality({j \in DOMAIN s : s[j] =< x}) = n
           /\ \A i \in 1..n : s[i] =< x
           /\ \A i \in (n + 1)..Len(s) : x < s[i]
  BY UpToBound
<1> DEFINE front == SubSeq(s, 1, n)
           back == SubSeq(s, n + 1, Len(s))
<1>2. Insert(s, x) = (front \o <<x>>) \o back
  BY <1>1 DEF Insert
<1>3. /\ front \in Seq(Nat) /\ Len(front) = n
      /\ \A i \in 1..n : front[i] = s[i]
  OBVIOUS
<1>4. /\ back \in Seq(Nat) /\ Len(back) = Len(s) - n
      /\ \A i \in 1..(Len(s) - n) : back[i] = s[i + n]
  OBVIOUS
<1> HIDE DEF front, back
<1> DEFINE mid == front \o <<x>>
<1>5. /\ mid \in Seq(Nat) /\ Len(mid) = n + 1
      /\ \A i \in 1..(n + 1) : mid[i] = IF i =< n THEN s[i] ELSE x
  BY <1>3
<1> HIDE DEF mid
<1>6. Insert(s, x) = mid \o back
  BY <1>2 DEF mid
<1>7. /\ Insert(s, x) \in Seq(Nat) /\ Len(Insert(s, x)) = Len(s) + 1
      /\ \A i \in 1..(Len(s) + 1) :
           Insert(s, x)[i] = IF i =< n + 1 THEN mid[i] ELSE back[i - (n + 1)]
  <2>0. mid \in Seq(Nat) /\ back \in Seq(Nat)
    BY <1>4, <1>5
  <2>1. /\ mid \o back \in Seq(Nat) /\ Len(mid \o back) = Len(mid) + Len(back)
        /\ \A i \in 1..(Len(mid) + Len(back)) :
             (mid \o back)[i] = IF i =< Len(mid) THEN mid[i] ELSE back[i - Len(mid)]
    BY <2>0
  <2>2. Len(mid) = n + 1 /\ Len(mid) + Len(back) = Len(s) + 1
    BY <1>4, <1>5
  <2>3. QED
    BY <1>6, <2>1, <2>2
<1>8. ASSUME NEW i \in 1..(Len(s) + 1)
      PROVE  Insert(s, x)[i] = IF i =< n THEN s[i]
                               ELSE IF i = n + 1 THEN x ELSE s[i - 1]
  <2>1. CASE i =< n + 1
    BY <1>5, <1>7, <2>1
  <2>2. CASE ~(i =< n + 1)
    <3>1. i - (n + 1) \in 1..(Len(s) - n) /\ (i - (n + 1)) + n = i - 1
      BY <2>2
    <3>2. back[i - (n + 1)] = s[i - 1]
      BY <1>4, <3>1
    <3>3. Insert(s, x)[i] = back[i - (n + 1)]
      BY <1>7, <2>2
    <3>4. ~(i =< n) /\ i # n + 1
      BY <2>2
    <3>5. QED
      BY <3>2, <3>3, <3>4
  <2>3. QED
    BY <2>1, <2>2
<1>9. QED
  BY <1>1, <1>7, <1>8

LEMMA Widths == /\ SignBit \in Nat \ {0} /\ VoltageWrap \in Nat \ {0}
                /\ LevelWrap \in Nat \ {0} /\ LevelWrap = 256
  BY DEF SignBit, VoltageWrap, LevelWrap

Samples == 0..(SignBit - 1)

LEMMA SamplesAreNats ==
  ASSUME NEW s \in Seq(Samples)
  PROVE  s \in Seq(Nat) /\ \A i \in 1..Len(s) : s[i] \in Nat
<1>1. \A i \in 1..Len(s) : s[i] \in Samples
  OBVIOUS
<1>2. \A i \in 1..Len(s) : s[i] \in Nat
  <2>1. \A x \in Samples : x \in Nat
    BY Widths DEF Samples
  <2>2. QED
    BY <1>1, <2>1
<1>3. s \in [1..Len(s) -> Samples] /\ Len(s) \in Nat
  OBVIOUS
<1>4. s \in [1..Len(s) -> Nat]
  BY <1>2, <1>3
<1>5. QED
  BY <1>2, <1>3, <1>4

LEMMA InsertSorts ==
  ASSUME NEW s \in Seq(Samples), Sorted(s), NEW x \in Samples
  PROVE  /\ Insert(s, x) \in Seq(Samples) /\ Len(Insert(s, x)) = Len(s) + 1
         /\ Sorted(Insert(s, x))
<1>1. s \in Seq(Nat) /\ x \in Nat /\ Len(s) \in Nat /\ DOMAIN s = 1..Len(s)
  BY SamplesAreNats, Widths DEF Samples
<1>2. PICK n \in 0..Len(s) :
           /\ Insert(s, x) \in Seq(Nat) /\ Len(Insert(s, x)) = Len(s) + 1
           /\ \A i \in 1..(Len(s) + 1) :
                Insert(s, x)[i] = IF i =< n THEN s[i]
                                  ELSE IF i = n + 1 THEN x ELSE s[i - 1]
           /\ \A i \in 1..n : s[i] =< x
           /\ \A i \in (n + 1)..Len(s) : x < s[i]
  BY <1>1, InsertShape
<1> DEFINE r == Insert(s, x)
<1>3. /\ r \in Seq(Nat) /\ Len(r) = Len(s) + 1 /\ DOMAIN r = 1..(Len(s) + 1)
      /\ \A i \in 1..(Len(s) + 1) :
           r[i] = IF i =< n THEN s[i] ELSE IF i = n + 1 THEN x ELSE s[i - 1]
  BY <1>2
<1> HIDE DEF r
<1>4. \A i \in 1..Len(s) : s[i] \in Samples
  BY <1>1
<1>5. \A i \in 1..(Len(s) + 1) : r[i] \in Samples
  <2> SUFFICES ASSUME NEW i \in 1..(Len(s) + 1) PROVE r[i] \in Samples
    OBVIOUS
  <2>1. CASE i =< n
    BY <1>1, <1>3, <1>4, <2>1
  <2>2. CASE i = n + 1
    BY <1>3, <2>2
  <2>3. CASE i > n + 1
    <3>1. i - 1 \in 1..Len(s) /\ ~(i =< n) /\ i # n + 1
      BY <1>1, <2>3
    <3>2. QED
      BY <1>3, <1>4, <3>1
  <2>4. QED
    BY <1>1, <2>1, <2>2, <2>3
<1>6. r \in Seq(Samples)
  BY <1>3, <1>5
<1>7. ASSUME NEW i \in 1..(Len(s) + 1), NEW j \in 1..(Len(s) + 1), i =< j
      PROVE  r[i] =< r[j]
  <2>0. \A k, l \in 1..Len(s) : k =< l => s[k] =< s[l] /\ s[k] \in Nat /\ s[l] \in Nat
    <3>1. \A k \in 1..Len(s) : s[k] \in Nat
      BY <1>1
    <3>2. \A k, l \in 1..Len(s) : k =< l => s[k] =< s[l]
      BY <1>1 DEF Sorted
    <3>3. QED
      BY <3>1, <3>2
  <2>1. CASE j =< n
    <3>1. i \in 1..Len(s) /\ j \in 1..Len(s) /\ i =< n
      BY <1>1, <1>7, <2>1
    <3>2. QED
      BY <1>3, <1>7, <2>0, <2>1, <3>1
  <2>2. CASE i =< n /\ j = n + 1
    <3>1. i \in 1..n /\ ~(j =< n)
      BY <1>1, <2>2
    <3>2. r[i] = s[i] /\ r[j] = x
      BY <1>3, <2>2, <3>1
    <3>3. QED
      BY <1>2, <3>1, <3>2
  <2>3. CASE i =< n /\ j > n + 1
    <3>1. i \in 1..Len(s) /\ j - 1 \in 1..Len(s) /\ i =< j - 1
          /\ ~(j =< n) /\ j # n + 1
      BY <1>1, <2>3
    <3>2. r[i] = s[i] /\ r[j] = s[j - 1]
      BY <1>3, <2>3, <3>1
    <3>3. QED
      BY <2>0, <3>1, <3>2
  <2>4. CASE i = n + 1 /\ j = n + 1
    BY <1>1, <1>3, <2>4
  <2>5. CASE i = n + 1 /\ j > n + 1
    <3>1. j - 1 \in (n + 1)..Len(s) /\ j - 1 \in 1..Len(s) /\ ~(j =< n) /\ j # n + 1
          /\ ~(i =< n)
      BY <1>1, <2>5
    <3>2. r[i] = x /\ r[j] = s[j - 1]
      BY <1>3, <2>5, <3>1
    <3>3. x < s[j - 1] /\ s[j - 1] \in Nat
      BY <1>2, <2>0, <3>1
    <3>4. QED
      BY <1>1, <3>2, <3>3
  <2>6. CASE i > n + 1
    <3>1. i - 1 \in 1..Len(s) /\ j - 1 \in 1..Len(s) /\ i - 1 =< j - 1
          /\ ~(i =< n) /\ i # n + 1 /\ ~(j =< n) /\ j # n + 1
      BY <1>1, <1>7, <2>6
    <3>2. r[i] = s[i - 1] /\ r[j] = s[j - 1]
      BY <1>3, <3>1
    <3>3. QED
      BY <2>0, <3>1, <3>2
  <2>7. QED
    BY <1>1, <1>7, <2>1, <2>2, <2>3, <2>4, <2>5, <2>6
<1>8. QED
  BY <1>3, <1>6, <1>7 DEF Sorted, r

\* All elements but at most the given two positions are in a set.
Within(s, p, q, S) == \A i \in DOMAIN s : i \notin {p, q} => s[i] \in S

\* Inserting an element of the set leaves two positions, moved on, and another
\* element takes a position.
LEMMA InsertWithin ==
  ASSUME NEW s \in Seq(Samples), Sorted(s), NEW x \in Samples, NEW S,
         NEW p \in 0..Len(s), NEW q \in 0..Len(s), Within(s, p, q, S)
  PROVE  \E n \in 0..Len(s) :
           LET Moved(k) == IF k =< n THEN k ELSE k + 1
           IN /\ Within(Insert(s, x), Moved(p), Moved(q), S \union {x})
              /\ p = 0 => Within(Insert(s, x), n + 1, Moved(q), S)
              /\ q = 0 => Within(Insert(s, x), Moved(p), n + 1, S)
<1>1. s \in Seq(Nat) /\ x \in Nat /\ Len(s) \in Nat /\ DOMAIN s = 1..Len(s)
  BY SamplesAreNats, Widths DEF Samples
<1>2. PICK n \in 0..Len(s) :
           /\ Insert(s, x) \in Seq(Nat) /\ Len(Insert(s, x)) = Len(s) + 1
           /\ \A i \in 1..(Len(s) + 1) :
                Insert(s, x)[i] = IF i =< n THEN s[i]
                                  ELSE IF i = n + 1 THEN x ELSE s[i - 1]
           /\ \A i \in 1..n : s[i] =< x
           /\ \A i \in (n + 1)..Len(s) : x < s[i]
  BY <1>1, InsertShape
<1> DEFINE r == Insert(s, x)
           Moved(k) == IF k =< n THEN k ELSE k + 1
<1>3. /\ DOMAIN r = 1..(Len(s) + 1)
      /\ \A i \in 1..(Len(s) + 1) :
           r[i] = IF i =< n THEN s[i] ELSE IF i = n + 1 THEN x ELSE s[i - 1]
  BY <1>2
<1> HIDE DEF r
<1>4. ASSUME NEW i \in 1..(Len(s) + 1), i # n + 1,
             p # 0 => i # Moved(p), q # 0 => i # Moved(q)
      PROVE  r[i] \in S
  <2>1. CASE i =< n
    <3>1. i \in 1..Len(s) /\ i \notin {p, q}
      BY <1>1, <1>4, <2>1
    <3>2. QED
      BY <1>1, <1>3, <2>1, <3>1 DEF Within
  <2>2. CASE i > n + 1
    <3>1. i - 1 \in 1..Len(s) /\ i - 1 \notin {p, q} /\ ~(i =< n)
      BY <1>1, <1>4, <2>2
    <3>2. r[i] = s[i - 1]
      BY <1>3, <1>4, <3>1
    <3>3. QED
      BY <1>1, <3>1, <3>2 DEF Within
  <2>3. QED
    BY <1>1, <1>4, <2>1, <2>2
<1>5. r[n + 1] = x
  BY <1>1, <1>3
<1>6. Within(r, Moved(p), Moved(q), S \union {x})
  BY <1>3, <1>4, <1>5 DEF Within
<1>7. p = 0 => Within(r, n + 1, Moved(q), S)
  BY <1>3, <1>4 DEF Within
<1>8. q = 0 => Within(r, Moved(p), n + 1, S)
  BY <1>3, <1>4 DEF Within
<1>9. QED
  BY <1>6, <1>7, <1>8 DEF r
-----------------------------------------------------------------------------
(* The level *)

LEMMA LevelTyped ==
  ASSUME NEW mv \in Nat PROVE get_battery_level(mv) \in 0..100
  BY BeaconAssumption, SMT DEF get_battery_level, LevelWrap

\* As long as the quotient fits in eight bits.
LEMMA LevelMonotone ==
  ASSUME NEW lower \in Nat, NEW higher \in Nat, lower =< higher,
         higher < Level0 + 9 * LevelWrap
  PROVE  get_battery_level(lower) =< get_battery_level(higher)
<1>1. Level0 \in Nat
  BY BeaconAssumption
<1>2. CASE lower < Level0
  <2>1. get_battery_level(lower) = 0
    BY <1>2 DEF get_battery_level
  <2>2. get_battery_level(higher) \in 0..100
    BY LevelTyped
  <2>3. QED
    BY <2>1, <2>2
<1>3. CASE ~(lower < Level0)
  <2>1. \A mv \in Nat : mv >= Level0 /\ mv < Level0 + 9 * 256 =>
          ((mv - Level0) \div 9) % 256 = (mv - Level0) \div 9
    BY <1>1, SMT
  <2>2. (lower - Level0) \div 9 =< (higher - Level0) \div 9
        /\ (lower - Level0) \div 9 \in Nat /\ (higher - Level0) \div 9 \in Nat
    BY <1>1, <1>3, SMT
  <2> DEFINE l == (lower - Level0) \div 9
             h == (higher - Level0) \div 9
  <2>3. get_battery_level(lower) = IF l > 100 THEN 100 ELSE l
    BY <1>1, <1>3, <2>1 DEF get_battery_level, LevelWrap
  <2>4. get_battery_level(higher) = IF h > 100 THEN 100 ELSE h
    BY <1>1, <1>3, <2>1 DEF get_battery_level, LevelWrap
  <2>5. l \in Nat /\ h \in Nat /\ l =< h
    BY <2>2
  <2> HIDE DEF l, h
  <2>6. QED
    BY <2>3, <2>4, <2>5
<1>4. QED
  BY <1>2, <1>3
-----------------------------------------------------------------------------
(* The measurements *)

\* The samples are sorted, and each late one accounts for one position at most
\* that no sample in time does; the level is that of the voltage.
Strays(n, s, S) ==
  n =< 2 => \E p, q \in 0..Len(s) :
              /\ n = 0 => p = 0
              /\ n < 2 => q = 0
              /\ Within(s, p, q, S)
BeaconIInv ==
  /\ IInv /\ BeaconTypeOK
  /\ Sorted(adc_sample)
  /\ Strays(late, adc_sample, prompt)
  /\ battery_level = get_battery_level(battery_mv)

LEMMA InitBeaconIInv == BeaconInit => BeaconIInv
<1> SUFFICES ASSUME BeaconInit PROVE BeaconIInv
  OBVIOUS
<1>1. IInv
  BY InitIInv DEF BeaconInit
<1>2. adc_sample = <<>> /\ adc_sample \in Seq(0..(SignBit - 1)) /\ Len(adc_sample) = 0
      /\ DOMAIN adc_sample = {}
  BY SMT DEF BeaconInit
<1>3. BeaconTypeOK
  <2>1. 0 \in 0..(VoltageWrap - 1) /\ 0 \in 0..(CounterWrap - 1) /\ 0 \in 0..MaxLate
    BY Widths, BeaconAssumption
  <2>2. QED
    BY <1>1, <1>2, <2>1 DEF BeaconInit, BeaconTypeOK, IInv
<1>4. Sorted(adc_sample) /\ Strays(late, adc_sample, prompt)
  BY <1>2 DEF Sorted, Strays, Within
<1>5. battery_level = get_battery_level(battery_mv)
  <2>1. Level0 = 0 => ((0 - Level0) \div 9) % 256 = 0
    BY SMT
  <2>2. Level0 \in Nat
    BY BeaconAssumption
  <2>3. battery_mv = 0 /\ battery_level = 0
    BY DEF BeaconInit
  <2>4. QED
    BY <2>1, <2>2, <2>3 DEF get_battery_level, LevelWrap
<1>6. QED
  BY <1>1, <1>3, <1>4, <1>5 DEF BeaconIInv

LEMMA StrayInTime ==
  ASSUME NEW s \in Seq(Samples), Sorted(s), NEW x \in Samples, NEW S, NEW n \in Nat,
         Strays(n, s, S)
  PROVE  Strays(n, Insert(s, x), S \union {x})
<1> SUFFICES ASSUME n =< 2
             PROVE  \E p, q \in 0..Len(Insert(s, x)) :
                      /\ n = 0 => p = 0
                      /\ n < 2 => q = 0
                      /\ Within(Insert(s, x), p, q, S \union {x})
  BY DEF Strays
<1>1. PICK p \in 0..Len(s), q \in 0..Len(s) :
        /\ n = 0 => p = 0
        /\ n < 2 => q = 0
        /\ Within(s, p, q, S)
  BY DEF Strays
<1>2. PICK k \in 0..Len(s) :
        Within(Insert(s, x), IF p =< k THEN p ELSE p + 1,
               IF q =< k THEN q ELSE q + 1, S \union {x})
  BY <1>1, InsertWithin
<1> DEFINE pp == IF p =< k THEN p ELSE p + 1
           qq == IF q =< k THEN q ELSE q + 1
<1>3. pp \in 0..(Len(s) + 1) /\ qq \in 0..(Len(s) + 1)
      /\ (p = 0 => pp = 0) /\ (q = 0 => qq = 0)
  OBVIOUS
<1>4. Len(Insert(s, x)) = Len(s) + 1
  BY InsertSorts
<1>5. Within(Insert(s, x), pp, qq, S \union {x})
  BY <1>2
<1> HIDE DEF pp, qq
<1>6. QED
  BY <1>1, <1>3, <1>4, <1>5

LEMMA StrayLate ==
  ASSUME NEW s \in Seq(Samples), Sorted(s), NEW x \in Samples, NEW S, NEW n \in Nat,
         Strays(n, s, S)
  PROVE  Strays(n + 1, Insert(s, x), S)
<1> SUFFICES ASSUME n + 1 =< 2
             PROVE  \E p, q \in 0..Len(Insert(s, x)) :
                      /\ n + 1 = 0 => p = 0
                      /\ n + 1 < 2 => q = 0
                      /\ Within(Insert(s, x), p, q, S)
  BY DEF Strays
<1>1. PICK p \in 0..Len(s), q \in 0..Len(s) :
        /\ n = 0 => p = 0
        /\ n < 2 => q = 0
        /\ Within(s, p, q, S)
  BY DEF Strays
<1>2. PICK k \in 0..Len(s) :
        /\ p = 0 => Within(Insert(s, x), k + 1, IF q =< k THEN q ELSE q + 1, S)
        /\ q = 0 => Within(Insert(s, x), IF p =< k THEN p ELSE p + 1, k + 1, S)
  BY <1>1, InsertWithin
<1>3. Len(Insert(s, x)) = Len(s) + 1
  BY InsertSorts
<1>4. q = 0 /\ k + 1 \in 0..(Len(s) + 1) /\ 0 \in 0..(Len(s) + 1)
  BY <1>1
<1>5. CASE n = 0
  <2>1. Within(Insert(s, x), k + 1, 0, S)
    BY <1>1, <1>2, <1>4, <1>5
  <2>2. QED
    BY <1>3, <1>4, <1>5, <2>1
<1>6. CASE n = 1
  <2> DEFINE pp == IF p =< k THEN p ELSE p + 1
  <2>1. pp \in 0..(Len(s) + 1) /\ Within(Insert(s, x), pp, k + 1, S)
    BY <1>2, <1>4
  <2> HIDE DEF pp
  <2>2. QED
    BY <1>3, <1>4, <1>6, <2>1
<1>7. QED
  BY <1>5, <1>6

LEMMA LateReadingsTyped ==
  ASSUME NEW code \in Codes
  PROVE  Clipped(code) \in Samples /\ LateReadings(code) \subseteq Samples
<1>1. code \in (-SignBit)..(SignBit - 1)
  BY BeaconAssumption
<1>2. Clipped(code) \in Samples
  BY <1>1, Widths DEF Clipped, Samples
<1>3. code % SignBit \in Samples /\ 0 \in Samples
  BY <1>1, Widths, SMT DEF Samples
<1>4. QED
  BY <1>2, <1>3 DEF LateReadings

\* The mean lies between the third and the sixth sample.
LEMMA MeanBetween ==
  ASSUME NEW s \in Seq(Samples), Len(s) = 8, Sorted(s),
         NEW mean, mean = (s[3] + s[4] + s[5] + s[6]) \div 4
  PROVE  mean \in Nat /\ s[3] =< mean /\ mean =< s[6]
<1>1. s[3] \in Nat /\ s[4] \in Nat /\ s[5] \in Nat /\ s[6] \in Nat
  <2>1. \A i \in 1..Len(s) : s[i] \in Nat
    BY SamplesAreNats
  <2>2. 3 \in 1..Len(s) /\ 4 \in 1..Len(s) /\ 5 \in 1..Len(s) /\ 6 \in 1..Len(s)
    OBVIOUS
  <2>3. QED
    BY <2>1, <2>2
<1>2. s[3] =< s[4] /\ s[4] =< s[5] /\ s[5] =< s[6]
  <2>1. DOMAIN s = 1..8
    OBVIOUS
  <2>2. QED
    BY <2>1 DEF Sorted
<1>3. QED
  BY <1>1, <1>2, SMT

LEMMA MillivoltsTyped ==
  ASSUME adc_sample \in Seq(Samples), Len(adc_sample) = 8, Sorted(adc_sample)
  PROVE  Millivolts \in 0..(VoltageWrap - 1)
<1> DEFINE product == MiddleFour * adc_vref
           quotient == product \div 1024
<1>1. MiddleFour \in Nat
  BY MeanBetween DEF MiddleFour
<1>2. adc_vref \in Nat
  BY BeaconAssumption
<1>3. product \in Nat
  BY <1>1, <1>2, SMT
<1> HIDE DEF product
<1>4. quotient \in Nat
  BY <1>3, SMT
<1> HIDE DEF quotient
<1>5. quotient % VoltageWrap \in 0..(VoltageWrap - 1)
  BY <1>4, Widths, Division
<1>6. QED
  BY <1>5 DEF Millivolts, product, quotient

LEMMA NextBeaconIInv == BeaconIInv /\ [BeaconNext]_beacon_vars => BeaconIInv'
<1> SUFFICES ASSUME BeaconIInv, [BeaconNext]_beacon_vars PROVE BeaconIInv'
  OBVIOUS
<1>1. /\ IInv /\ BeaconTypeOK /\ adc_sample \in Seq(Samples) /\ late \in Nat
      /\ Sorted(adc_sample) /\ Strays(late, adc_sample, prompt)
  BY BeaconAssumption DEF BeaconIInv, BeaconTypeOK, Samples
<1>2. UNCHANGED vars => IInv'
  BY <1>1, NextIInv
<1>3. ASSUME NEW gap \in Gaps, LoopRound(gap) PROVE BeaconIInv'
  <2>1. IInv' /\ UNCHANGED <<series, report>> /\ stage' \in {"loop", "sample"}
    BY <1>1, <1>3, RoundKeeps DEF LoopRound
  <2>2. QED
    BY <1>1, <2>1 DEF BeaconIInv, BeaconTypeOK, IInv, series, report,
       Sorted, Strays, Within, get_battery_level
<1>4. ASSUME NEW code \in Codes, TakeSample(code) PROVE BeaconIInv'
  <2> DEFINE x == Clipped(code)
  <2>1. x \in Samples
    BY LateReadingsTyped
  <2>2. /\ Len(adc_sample) < 8 /\ UNCHANGED <<vars, stage, report, late>>
        /\ adc_sample' = Insert(adc_sample, x) /\ prompt' = prompt \union {x}
    BY <1>4 DEF TakeSample, Sampling, Undisturbed
  <2> HIDE DEF x
  <2>3. /\ adc_sample' \in Seq(Samples) /\ Len(adc_sample') = Len(adc_sample) + 1
        /\ Sorted(adc_sample')
    BY <1>1, <2>1, <2>2, InsertSorts
  <2>4. Strays(late', adc_sample', prompt')
    BY <1>1, <2>1, <2>2, StrayInTime
  <2>5. Len(adc_sample') =< 8 /\ prompt' \subseteq Samples
    <3>1. Len(adc_sample) \in Nat /\ prompt \subseteq Samples
      BY <1>1 DEF BeaconTypeOK, Samples
    <3>2. QED
      BY <2>1, <2>2, <2>3, <3>1
  <2>6. BeaconTypeOK'
    BY <1>1, <1>2, <2>2, <2>3, <2>5
    DEF BeaconTypeOK, IInv, Samples, series, report
  <2>7. QED
    BY <1>1, <1>2, <2>2, <2>3, <2>4, <2>6
    DEF BeaconIInv, get_battery_level, report
<1>5. ASSUME NEW code \in Codes, TakeLate(code) PROVE BeaconIInv'
  <2>1. PICK x \in LateReadings(code) : adc_sample' = Insert(adc_sample, x)
    BY <1>5 DEF TakeLate
  <2>2. /\ Len(adc_sample) < 8 /\ UNCHANGED <<vars, stage, report, prompt>>
        /\ late < MaxLate /\ late' = late + 1
    BY <1>5 DEF TakeLate, Sampling, Undisturbed
  <2>3. x \in Samples
    BY LateReadingsTyped
  <2>4. /\ adc_sample' \in Seq(Samples) /\ Len(adc_sample') = Len(adc_sample) + 1
        /\ Sorted(adc_sample')
    BY <1>1, <2>1, <2>3, InsertSorts
  <2>5. Strays(late + 1, adc_sample', prompt)
    BY <1>1, <2>1, <2>3, StrayLate
  <2>6. Len(adc_sample') =< 8 /\ late' \in 0..MaxLate
    <3>1. Len(adc_sample) \in Nat
      BY <1>1
    <3>2. MaxLate \in Nat
      BY BeaconAssumption
    <3>3. QED
      BY <1>1, <2>2, <2>4, <3>1, <3>2
  <2>7. BeaconTypeOK'
    BY <1>1, <1>2, <2>2, <2>4, <2>6
    DEF BeaconTypeOK, IInv, Samples, series, report
  <2>8. QED
    BY <1>1, <1>2, <2>2, <2>4, <2>5, <2>7
    DEF BeaconIInv, get_battery_level, report
<1>6. ASSUME NEW temp \in Temperatures, set_adv_data(temp) PROVE BeaconIInv'
  <2>1. /\ Len(adc_sample) = 8 /\ battery_mv' = Millivolts
        /\ battery_level' = get_battery_level(battery_mv')
        /\ advertising_data' =
             [temp |-> 10 * temp, level |-> battery_level', mv |-> battery_mv',
              counter |-> (advertising_data.counter + 1) % CounterWrap]
        /\ stage' = "loop" /\ adc_sample' = <<>> /\ prompt' = {} /\ late' = 0
        /\ UNCHANGED vars
    BY <1>6 DEF set_adv_data
  <2>2. battery_mv' \in 0..(VoltageWrap - 1)
    BY <1>1, <2>1, MillivoltsTyped
  <2>3. battery_level' \in 0..100
    <3>1. battery_mv' \in Nat
      BY <2>2, Widths
    <3>2. QED
      BY <2>1, <3>1, LevelTyped
  <2>4. (advertising_data.counter + 1) % CounterWrap \in 0..(CounterWrap - 1)
    <3>1. CounterWrap \in Nat \ {0} /\ advertising_data.counter + 1 \in Nat
      BY <1>1, BeaconAssumption DEF BeaconTypeOK
    <3>2. QED
      BY <3>1, Division
  <2>5. /\ adc_sample' \in Seq(0..(SignBit - 1)) /\ Len(adc_sample') = 0
        /\ DOMAIN adc_sample' = {}
    BY <2>1
  <2>6. late' \in 0..MaxLate
    BY <2>1, BeaconAssumption
  <2>7. BeaconTypeOK'
    BY <1>1, <1>2, <2>1, <2>2, <2>3, <2>4, <2>5, <2>6
    DEF BeaconTypeOK, IInv
  <2>8. Sorted(adc_sample') /\ Strays(late', adc_sample', prompt')
    BY <2>1, <2>5 DEF Sorted, Strays, Within
  <2>9. QED
    BY <1>1, <1>2, <2>1, <2>7, <2>8 DEF BeaconIInv, get_battery_level
<1>7. CASE UNCHANGED beacon_vars
  BY <1>1, <1>2, <1>7
  DEF BeaconIInv, BeaconTypeOK, IInv, beacon_vars, series, report, get_battery_level
<1>8. QED
  BY <1>3, <1>4, <1>5, <1>6, <1>7 DEF BeaconNext

LEMMA BeaconInvariant == BeaconSpec => []BeaconIInv
  BY InitBeaconIInv, NextBeaconIInv, PTL DEF BeaconSpec

\* The variables of the measurements keep their types, whatever the reference
\* voltage: the sixteen bits of get_battery_mv, the eight of the level.
THEOREM BeaconTypeCorrect == BeaconSpec => []BeaconTypeOK
<1>1. BeaconIInv => BeaconTypeOK
  BY DEF BeaconIInv
<1>2. QED
  BY BeaconInvariant, <1>1, PTL

\* No second is lost with the measurements between the rounds.
THEOREM BeaconLosesNoSecond == BeaconSpec => []ClockExact
<1>1. BeaconIInv => ClockExact
  BY DEF BeaconIInv, IInv
<1>2. QED
  BY BeaconInvariant, <1>1, PTL

\* No channel is overdue with the measurements between the rounds.
THEOREM BeaconChannelsPunctual == BeaconSpec => []NeverOverdue
<1>1. BeaconIInv => NeverOverdue
  BY DEF BeaconIInv, IInv
<1>2. QED
  BY BeaconInvariant, <1>1, PTL

\* Reports do not drift with the measurements between the rounds.
THEOREM BeaconReportsDoNotDrift == BeaconSpec => PeriodExact
<1>1. BeaconIInv /\ [BeaconNext]_beacon_vars =>
        [\A ch \in Channels :
           last_reached_period'[ch] # last_reached_period[ch] =>
             last_reached_period'[ch]
               = (last_reached_period[ch] + Period[ch]) % TimeWrap]_vars
  <2> SUFFICES ASSUME BeaconIInv, [BeaconNext]_beacon_vars, ~UNCHANGED vars
               PROVE  \A ch \in Channels :
                        last_reached_period'[ch] # last_reached_period[ch] =>
                          last_reached_period'[ch]
                            = (last_reached_period[ch] + Period[ch]) % TimeWrap
    OBVIOUS
  <2>1. PICK gap \in Gaps : Round(gap)
    BY DEF BeaconNext, LoopRound, TakeSample, TakeLate, set_adv_data, Undisturbed,
       beacon_vars
  <2>2. QED
    BY <2>1, RoundKeeps DEF BeaconIInv
<1>2. QED
  BY BeaconInvariant, <1>1, PTL DEF BeaconSpec, PeriodExact

\* Whatever two late samples read as, the mean of the middle four lies between
\* two samples that came in time, for every set of codes.
THEOREM TwoOutliersDropped == BeaconSpec => []OutliersDropped
<1>1. BeaconIInv => OutliersDropped
  <2> SUFFICES ASSUME BeaconIInv, Len(adc_sample) = 8, late =< 2
               PROVE  \E low, high \in prompt : low =< MiddleFour /\ MiddleFour =< high
    BY DEF OutliersDropped
  <2>1. /\ adc_sample \in Seq(Samples) /\ Sorted(adc_sample)
        /\ Strays(late, adc_sample, prompt)
    BY DEF BeaconIInv, BeaconTypeOK, Samples
  <2>2. PICK p \in 0..Len(adc_sample), q \in 0..Len(adc_sample) :
          Within(adc_sample, p, q, prompt)
    BY <2>1 DEF Strays
  <2>3. DOMAIN adc_sample = 1..8
    BY <2>1
  <2>4. PICK i \in {1, 2, 3} : i \notin {p, q}
    OBVIOUS
  <2>5. PICK j \in {6, 7, 8} : j \notin {p, q}
    OBVIOUS
  <2>6. i \in 1..8 /\ j \in 1..8 /\ i =< 3 /\ 6 =< j /\ 3 \in 1..8 /\ 6 \in 1..8
    OBVIOUS
  <2>7. adc_sample[i] \in prompt /\ adc_sample[j] \in prompt
    BY <2>2, <2>3, <2>4, <2>5, <2>6 DEF Within
  <2>8. adc_sample[i] =< adc_sample[3] /\ adc_sample[6] =< adc_sample[j]
    BY <2>1, <2>3, <2>6 DEF Sorted
  <2>9. \A k \in 1..Len(adc_sample) : adc_sample[k] \in Nat
    BY <2>1, SamplesAreNats
  <2>10. /\ adc_sample[i] \in Nat /\ adc_sample[j] \in Nat
         /\ adc_sample[3] \in Nat /\ adc_sample[6] \in Nat
    BY <2>6, <2>9
  <2>11. /\ MiddleFour \in Nat
         /\ adc_sample[3] =< MiddleFour /\ MiddleFour =< adc_sample[6]
    BY <2>1, MeanBetween DEF MiddleFour
  <2>12. adc_sample[i] =< MiddleFour /\ MiddleFour =< adc_sample[j]
    BY <2>8, <2>10, <2>11
  <2>13. QED
    BY <2>7, <2>12
<1>2. QED
  BY BeaconInvariant, <1>1, PTL

\* A higher voltage never reports a lower level, for every empty voltage, while
\* the quotient fits in eight bits.
THEOREM LevelIsMonotone == BeaconSpec => LevelFollowsVoltage
<1>1. BeaconIInv /\ BeaconIInv' =>
        [stage = "sample" /\ stage' = "loop" /\ battery_mv' < Level0 + 9 * LevelWrap =>
           (battery_mv =< battery_mv' => battery_level =< battery_level')]_beacon_vars
  <2> SUFFICES ASSUME BeaconIInv, BeaconIInv',
                      battery_mv' < Level0 + 9 * LevelWrap, battery_mv =< battery_mv'
               PROVE  battery_level =< battery_level'
    OBVIOUS
  <2>1. battery_mv \in Nat /\ battery_mv' \in Nat
    BY Widths DEF BeaconIInv, BeaconTypeOK
  <2>2. battery_level = get_battery_level(battery_mv)
        /\ battery_level' = get_battery_level(battery_mv')
    BY DEF BeaconIInv, get_battery_level
  <2>3. QED
    BY <2>1, <2>2, LevelMonotone
<1>2. QED
  BY BeaconInvariant, <1>1, PTL DEF LevelFollowsVoltage
=============================================================================
