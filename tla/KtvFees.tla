------------------------------- MODULE KtvFees -------------------------------
(***************************************************************************)
(* Opening hours, promotions and lengths of prepaid sales: the pure        *)
(* functions of openerp/addons/ktv_sale that re_calculate_fee is built     *)
(* from.  A time of day is its second in the day, in UTC as the database   *)
(* keeps it; two strings 'HH:MM:SS' compare like the seconds they stand    *)
(* for.  The amounts of money are left out.                                *)
(***************************************************************************)
EXTENDS Integers, Sequences

CONSTANTS
    Minute,           \* seconds in a minute
    MinutesOfDay,     \* minutes in a day
    NoPromotion       \* Python None in a list of promotions

\* 60 and 1440; what is proved needs no more than this.
ASSUME ClockAssumption ==
    /\ Minute \in Nat \ {0, 1}
    /\ MinutesOfDay \in Nat \ {0}

Day          == Minute * MinutesOfDay
DayTimes     == 0 .. (Day - 1)
WholeMinutes == {Minute * m : m \in 0 .. (MinutesOfDay - 1)}

-----------------------------------------------------------------------------
(* ktv_helper. *)

\* utc_time_between: is cur within the opening hours from .. to?
UtcTimeBetween(from, to, cur) ==
    IF to > from
    THEN cur >= from /\ cur <= to
    ELSE \/ cur >= from /\ cur < Day - 1
         \/ cur >= 0 /\ cur <= to

\* calculate_present_minutes: minutes given for free with the minutes bought.
CalculatePresentMinutes(buyMinutes, promotionBuy, promotionPresent) ==
    IF promotionBuy = 0
    THEN buyMinutes
    ELSE (buyMinutes \div promotionBuy) * promotionPresent

-----------------------------------------------------------------------------
(* Buying out a room until the end of the opening hours. *)

\* 'datetime.today() in s_days_list' compares a datetime with the strings that
\* read() returns for the dates: the two are never equal.
InSpecialDay(specialDays, today) == FALSE

\* strftime('%H:%M:00'): the time of day, cut to the minute.
ToTheMinute(now) == (now \div Minute) * Minute

\* ktv.buyout_config.get_active_configs: config c [from, to, days] can be sold
\* when it is asked for at the time of day 'asked'.
BuyoutActive(c, specialDays, today, weekday, asked) ==
    /\ InSpecialDay(specialDays, today) \/ weekday \in c.days
    /\ UtcTimeBetween(c.from, c.to, ToTheMinute(asked))

\* str_to_today_time: the time of day 'to' on the date of today, which is when
\* a room bought out is closed.  Seconds are counted from the start of today.
StrToTodayTime(to) == to

\* buyout_time: hours and minutes of the two ends are subtracted.  The room is
\* sold from a time read again for every config, with its seconds.
BuyoutMinutes(sold, to) ==
    (StrToTodayTime(to) \div Minute) - (sold \div Minute)

-----------------------------------------------------------------------------
(* Buying time. *)

\* ktv.hourly_fee_promotion.get_active_configs: cs are the promotions in the
\* order search() returns them; dated and timed say whether the promotion is
\* limited to some dates or hours, days the weekdays it is active on.
\* The loop returns in its first round.  A promotion with limited hours asks
\* ktv_helper for a function it does not have.
Promotion(c, inDates, weekday) ==
    IF \/ c.dated /\ ~inDates
       \/ c.days # {} /\ weekday \notin c.days
    THEN NoPromotion
    ELSE [buy |-> c.buy, present |-> c.present]

ActivePromotions(cs, inDates, weekday) ==
    IF cs = <<>> THEN <<>> ELSE <<Promotion(Head(cs), inDates, weekday)>>

PromotionsRaise(cs) == cs # <<>> /\ Head(cs).timed

\* re_calculate_fee reads the first promotion, and raises when that is None.
RecalculateRaises(cs, inDates, weekday) ==
    \/ PromotionsRaise(cs)
    \/ ActivePromotions(cs, inDates, weekday) = <<NoPromotion>>

\* sum_minutes of a purchase under the active promotions ps.
SumMinutes(buyMinutes, ps) ==
    buyMinutes + IF ps = <<>>
                 THEN CalculatePresentMinutes(buyMinutes, 0, 0)
                 ELSE CalculatePresentMinutes(buyMinutes, Head(ps).buy, Head(ps).present)
=============================================================================
