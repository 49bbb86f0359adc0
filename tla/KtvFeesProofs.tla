---------------------------- MODULE KtvFeesProofs ----------------------------
(***************************************************************************)
(* What the functions of KtvFees compute, for every time of day and every  *)
(* number of minutes.                                                      *)
(***************************************************************************)
EXTENDS KtvFees, TLAPS

-----------------------------------------------------------------------------
(* Arithmetic. *)

LEMMA Scaled ==
    ASSUME NEW x \in Nat, NEW y \in Nat, x <= y, NEW k \in Nat
    PROVE  x * k <= y * k
  <1>1. PICK d \in Nat : y = x + d
    BY SMT
  <1>2. y * k = x * k + d * k
    BY <1>1
  <1>3. d * k \in Nat /\ x * k \in Nat
    BY <1>1
  <1>. QED  BY <1>2, <1>3

\* The integer division of Python, rounding down.
LEMMA Division ==
    ASSUME NEW a \in Nat, NEW k \in Nat \ {0}
    PROVE  /\ a \div k \in Nat
           /\ (a \div k) * k <= a
           /\ a < (a \div k + 1) * k
  BY Z3

LEMMA DivisionMonotone ==
    ASSUME NEW a \in Nat, NEW b \in Nat, a <= b, NEW k \in Nat \ {0}
    PROVE  a \div k <= b \div k
  <1> DEFINE p == a \div k
             q == b \div k
  <1>1. /\ p \in Nat /\ q \in Nat
        /\ p * k <= a
        /\ b < (q + 1) * k
    BY Division
  <1>2. ASSUME q < p
        PROVE  FALSE
    <2>1. (q + 1) * k <= p * k
      BY <1>1, <1>2, Scaled
    <2>2. (q + 1) * k \in Int /\ p * k \in Int
      BY <1>1
    <2>. QED  BY <1>1, <2>1, <2>2
  <1>. QED  BY <1>1, <1>2

LEMMA DayIsNatural == Day \in Nat
  BY ClockAssumption, Z3 DEF Day

-----------------------------------------------------------------------------
(* Opening hours. *)

\* The time from one time of day to the next occurrence of another.
Onward(from, to) == IF to >= from THEN to - from ELSE to - from + Day

\* A whole minute is never the last second of the day, the one second that
\* hours over midnight leave out.
LEMMA WholeMinutesEndEarlier ==
    ASSUME NEW t \in WholeMinutes
    PROVE  t \in DayTimes /\ t < Day - 1
  <1>1. PICK m \in 0 .. (MinutesOfDay - 1) : t = Minute * m
    BY DEF WholeMinutes
  <1>2. /\ m \in Nat /\ m + 1 \in Nat /\ m + 1 <= MinutesOfDay
        /\ Minute \in Nat /\ Minute > 1 /\ MinutesOfDay \in Nat
    BY <1>1, ClockAssumption
  <1>3. (m + 1) * Minute <= MinutesOfDay * Minute
    BY <1>2, Scaled
  <1>4. /\ (m + 1) * Minute = Minute * m + Minute
        /\ MinutesOfDay * Minute = Day
        /\ Minute * m \in Nat /\ Day \in Nat
    BY <1>2, Z3 DEF Day
  <1>. QED  BY <1>1, <1>2, <1>3, <1>4 DEF DayTimes

\* utc_time_between, which compares strings and treats hours over midnight
\* apart, is the cyclic interval: the question is asked with 'HH:MM:00', and
\* such a time is within the hours exactly when it comes no later than their
\* end, counted from their start.
THEOREM HoursAreCyclic ==
    ASSUME NEW from \in DayTimes, NEW to \in DayTimes, from # to,
           NEW cur \in WholeMinutes
    PROVE  UtcTimeBetween(from, to, cur) <=> Onward(from, cur) <= Onward(from, to)
  <1>1. /\ cur \in DayTimes
        /\ cur < Day - 1
    BY WholeMinutesEndEarlier
  <1>2. CASE to > from
    BY <1>1, <1>2, DayIsNatural DEF UtcTimeBetween, Onward, DayTimes
  <1>3. CASE to < from
    BY <1>1, <1>3, DayIsNatural DEF UtcTimeBetween, Onward, DayTimes
  <1>. QED  BY <1>2, <1>3 DEF DayTimes

\* Hours with equal ends last all day.
THEOREM EqualEndsLastAllDay ==
    ASSUME NEW from \in DayTimes, NEW cur \in WholeMinutes
    PROVE  UtcTimeBetween(from, from, cur)
  BY WholeMinutesEndEarlier DEF UtcTimeBetween, DayTimes

-----------------------------------------------------------------------------
(* Buying out: asked for at one time of day, sold from a later one. *)

LEMMA CutToTheMinute ==
    ASSUME NEW t \in Nat
    PROVE  /\ ToTheMinute(t) \in Nat
           /\ ToTheMinute(t) <= t
           /\ t < ToTheMinute(t) + Minute
  <1>1. Minute \in Nat \ {0}
    BY ClockAssumption
  <1> DEFINE m == t \div Minute
  <1>2. m \in Nat /\ m * Minute <= t /\ t < (m + 1) * Minute
    BY <1>1, Division
  <1>3. m * Minute \in Nat /\ (m + 1) * Minute = m * Minute + Minute
    <2>. HIDE DEF m
    <2>. QED  BY <1>1, <1>2
  <1>. QED  BY <1>2, <1>3 DEF ToTheMinute

\* A room bought out in the evening, before the midnight its hours run over,
\* is sold for no time at all: its closing time is not after the sale and its
\* length is not positive, because the end is taken on today's date
\* (buyout_config.py, get_active_configs).
THEOREM OvernightBuyoutIsOver ==
    ASSUME NEW c, NEW specialDays, NEW today, NEW weekday,
           c.from \in DayTimes, c.to \in DayTimes, c.to <= c.from,
           NEW asked \in DayTimes, ToTheMinute(asked) >= c.from,
           BuyoutActive(c, specialDays, today, weekday, asked),
           NEW sold \in DayTimes, asked <= sold
    PROVE  /\ StrToTodayTime(c.to) <= sold
           /\ BuyoutMinutes(sold, c.to) <= 0
  <1>1. /\ c.to \in Nat /\ c.from \in Nat /\ asked \in Nat /\ sold \in Nat
        /\ Minute \in Nat \ {0}
    BY DayIsNatural, ClockAssumption DEF DayTimes
  <1>2. c.to <= sold
    BY <1>1, CutToTheMinute
  <1>3. c.to \div Minute <= sold \div Minute
    BY <1>1, <1>2, DivisionMonotone
  <1>4. c.to \div Minute \in Nat /\ sold \div Minute \in Nat
    BY <1>1, Division
  <1>. QED  BY <1>1, <1>2, <1>3, <1>4 DEF StrToTodayTime, BuyoutMinutes

\* In hours that do not run over midnight a buyout asked for and sold within a
\* minute closes less than a minute before the sale, if before it at all, and
\* has no negative length: the hours are tested with the seconds cut off, the
\* room is sold with them (buyout_config.py, get_active_configs).
THEOREM DaytimeBuyoutLasts ==
    ASSUME NEW c, NEW specialDays, NEW today, NEW weekday,
           c.from \in DayTimes, c.to \in DayTimes, c.to > c.from,
           NEW asked \in DayTimes,
           BuyoutActive(c, specialDays, today, weekday, asked),
           NEW sold \in DayTimes, sold \div Minute = asked \div Minute
    PROVE  /\ sold < StrToTodayTime(c.to) + Minute
           /\ BuyoutMinutes(sold, c.to) >= 0
  <1>1. c.to \in Nat /\ asked \in Nat /\ sold \in Nat /\ Minute \in Nat \ {0}
    BY DayIsNatural, ClockAssumption DEF DayTimes
  <1>2. ToTheMinute(sold) <= c.to /\ ToTheMinute(sold) \in Nat
    BY <1>1, CutToTheMinute DEF BuyoutActive, UtcTimeBetween, ToTheMinute
  <1>3. sold < ToTheMinute(sold) + Minute
    BY <1>1, CutToTheMinute
  <1>4. sold \div Minute \in Nat /\ c.to \div Minute \in Nat
    BY <1>1, Division
  <1>5. sold \div Minute <= c.to \div Minute
    <2>1. ASSUME c.to \div Minute < sold \div Minute
          PROVE  FALSE
      <3>1. (c.to \div Minute + 1) * Minute <= (sold \div Minute) * Minute
        BY <1>1, <1>4, <2>1, Scaled
      <3>2. c.to < (c.to \div Minute + 1) * Minute
        BY <1>1, Division
      <3>3. (c.to \div Minute + 1) * Minute \in Nat
        BY <1>1, <1>4
      <3>. QED  BY <1>1, <1>2, <3>1, <3>2, <3>3 DEF ToTheMinute
    <2>. QED  BY <1>4, <2>1
  <1>. QED  BY <1>1, <1>2, <1>3, <1>4, <1>5 DEF StrToTodayTime, BuyoutMinutes

\* That minute happens: hours that end at a whole minute are open for the whole
\* of it, and a room sold in its later seconds is closed before it is sold, for
\* a length of zero (buyout_config.py, get_active_configs).
THEOREM LastMinuteBuyoutIsOver ==
    ASSUME NEW c, NEW specialDays, NEW today, NEW weekday \in c.days,
           c.from \in DayTimes, c.to \in WholeMinutes, c.to > c.from,
           NEW asked \in c.to .. (c.to + Minute - 1),
           NEW sold \in (c.to + 1) .. (c.to + Minute - 1)
    PROVE  /\ BuyoutActive(c, specialDays, today, weekday, asked)
           /\ StrToTodayTime(c.to) < sold
           /\ BuyoutMinutes(sold, c.to) = 0
  <1>1. /\ c.to \in Nat /\ c.from \in Nat /\ asked \in Nat /\ sold \in Nat
        /\ Minute \in Nat \ {0}
    BY WholeMinutesEndEarlier, DayIsNatural, ClockAssumption DEF DayTimes
  <1>2. PICK m \in Nat : c.to = m * Minute
    <2>1. PICK m \in 0 .. (MinutesOfDay - 1) : c.to = Minute * m
      BY DEF WholeMinutes
    <2>. QED  BY <1>1, <2>1, ClockAssumption
  <1>3. ASSUME NEW t \in c.to .. (c.to + Minute - 1)
        PROVE  t \div Minute = m
    <2>1. t \in Nat /\ m * Minute <= t /\ t < m * Minute + Minute
      BY <1>1, <1>2
    <2>. QED  BY <1>1, <2>1, Z3
  <1>4. asked \div Minute = m /\ sold \div Minute = m /\ c.to \div Minute = m
    BY <1>1, <1>3
  <1>5. ToTheMinute(asked) = c.to
    BY <1>2, <1>4 DEF ToTheMinute
  <1>. QED  BY <1>1, <1>4, <1>5 DEF BuyoutActive, UtcTimeBetween, StrToTodayTime, BuyoutMinutes

-----------------------------------------------------------------------------
(* Minutes given for free. *)

\* A promotion 'buy so many minutes, get so many' never gives more than its
\* share: only whole purchases count (calculate_present_minutes).
THEOREM PresentAtMostShare ==
    ASSUME NEW buy \in Nat, NEW promotionBuy \in Nat \ {0}, NEW promotionPresent \in Nat
    PROVE  CalculatePresentMinutes(buy, promotionBuy, promotionPresent) * promotionBuy
               <= buy * promotionPresent
  <1> DEFINE whole == buy \div promotionBuy
  <1>1. whole \in Nat /\ whole * promotionBuy <= buy
    BY Division
  <1>2. (whole * promotionBuy) * promotionPresent <= buy * promotionPresent
    <2>1. whole * promotionBuy \in Nat
      BY <1>1
    <2>. QED  BY <1>1, <2>1, Scaled
  <1>3. CalculatePresentMinutes(buy, promotionBuy, promotionPresent)
            = whole * promotionPresent
    BY DEF CalculatePresentMinutes
  <1>4. (whole * promotionPresent) * promotionBuy = (whole * promotionBuy) * promotionPresent
    <2>. HIDE DEF whole
    <2>. QED  BY <1>1, Z3
  <1>. QED  BY <1>2, <1>3, <1>4

\* "If no promotion is set nothing is given, the minutes bought are returned"
\* (calculate_present_minutes): its caller adds them, so that without a
\* promotion every purchase lasts twice as long as paid for.
THEOREM NoPromotionDoubles ==
    ASSUME NEW buy \in Nat
    PROVE  SumMinutes(buy, <<>>) = 2 * buy
  BY DEF SumMinutes, CalculatePresentMinutes
=============================================================================
