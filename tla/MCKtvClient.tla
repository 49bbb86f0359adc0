----------------------------- MODULE MCKtvClient -----------------------------
(***************************************************************************)
(* KtvClient on small instances.                                           *)
(***************************************************************************)
EXTENDS KtvClientProps, FiniteSets, TLC

CONSTANTS
    FormOsvs,        \* business objects the cashier of the page asks for
    OthersSales,     \* requests of the other cashiers
    OthersOsvs,      \* business objects they ask for
    Filters          \* numbers of rooms a filter lets through

\* The pure functions of the fees, against plain definitions, on the clock of
\* the instance: hours are an arc of the day, and what is given for free is one
\* present for every full number of minutes bought.
ASSUME HoursAgree ==
    \A from, to \in DayTimes, cur \in WholeMinutes :
        from # to =>
            (UtcTimeBetween(from, to, cur) <=> (cur - from) % Day <= (to - from) % Day)

ASSUME PresentsAgree ==
    \A buy, every \in 1 .. 12, present \in 0 .. 3 :
        CalculatePresentMinutes(buy, every, present)
            = present * Cardinality({n \in 1 .. buy : n % every = 0})

\* Payments on small amounts, whatever the model held before: an answer leaves
\* the whole sum in cash, and what the buyout's model works out adds up after the
\* cashier's entries.
Pay == INSTANCE KtvPayments
Amounts == 0 .. 2
SmallPayments ==
    [due : Amounts, cash : Amounts, by : [Pay!Parts -> 0 .. 1], paid : {2}, change : {0}]

ASSUME AnswersBalance ==
    \A kind \in Pay!Kinds, m \in SmallPayments, due \in Amounts, first \in BOOLEAN :
        LET a == Pay!SetAnswer(kind, m, due, first)
        IN  a.cash = due /\ Pay!Rest(a) = due

ASSUME EntriesBalance ==
    \A m \in SmallPayments, v \in Amounts, part \in Pay!Parts :
        m.cash = Pay!Rest(m) =>
            LET n == Pay!SetPart("buyout", m, part, v) IN n.cash = Pay!Rest(n)

\* Form f of the instance is for input f: no form is opened for another one, and
\* a change of other fields asks for the same input again.
ASSUME Forms \subseteq Inputs

\* Enough bill numbers for every request to draw one.
ASSUME Cardinality(Bills) >= Cardinality(Sales)

OthersRequests ==
    {q \in Requests : /\ q.sale \in OthersSales /\ q.osv \in OthersOsvs
                      /\ q.close = 0}

MCNext ==
    \/ \E k \in Refreshes : FetchRooms(k) \/ ApplyRooms(k) \/ LoseRooms(k)
    \/ \E rs \in SUBSET Rooms : Cardinality(rs) \in Filters /\ FilterRooms(rs)
    \/ \E f \in Forms, r \in Rooms, osv \in FormOsvs :
          OpenSimpleForm(f, r, osv) \/ OpenCheckoutForm(f, r, osv, f)
    \/ \E f \in Forms : ChangeInput(f, f)
    \/ FormStep
    \/ \E f \in Forms, s \in Sales \ OthersSales : Press(f, s)
    \/ \E s \in Sales : Serve(s) \/ Refuse(s) \/ Answered(s) \/ ToldFailed(s)
    \/ \E q \in OthersRequests : OthersOperate(q)
    \/ \E s \in Sales : Closed(s)

MCSpec     == Init /\ [][MCNext]_vars
MCFairSpec == MCSpec /\ Fairness

\* Forms are not alike, each has its input.
Symmetry == Permutations(Rooms) \cup Permutations(Bills)
=============================================================================
