----------------------------- MODULE KtvPayments -----------------------------
(***************************************************************************)
(* How a checkout is paid, as the cashier's page of openerp/addons/        *)
(* ktv_sale works it out (model.js, widget.js): what is due, the parts     *)
(* paid by member card, credit card and vouchers, the rest in cash, what   *)
(* the guest hands over and the change.  Amounts are in cents.             *)
(*                                                                         *)
(* Backbone tells of a changed attribute at once, while the others of the  *)
(* same set() still have their old values.  The model of a buyout works    *)
(* out the cash whenever a part changes; that of bought time does not.     *)
(* Nothing ever sets the two other parts, free_fee and on_credit_fee.      *)
(***************************************************************************)
EXTENDS Integers

Kinds == {"buyout", "buytime"}
Parts == {"card", "credit", "voucher"}

\* The attributes of the model that are about payment.
Payments == [due : Int, cash : Int, by : [Parts -> Int], paid : Int, change : Int]

\* The defaults of a model: nothing is due.
Unpaid == [due |-> 0, cash |-> 0, by |-> [p \in Parts |-> 0], paid |-> 0, change |-> 0]

\* What the parts leave to be paid in cash.
Rest(m) == m.due - m.by["card"] - m.by["credit"] - m.by["voucher"]

-----------------------------------------------------------------------------
(* The models. *)

\* _re_calculate_cash_fee: the guest is taken to hand over just the cash.
ReCalculateCashFee(m) ==
    [due |-> m.due, by |-> m.by, cash |-> Rest(m), paid |-> Rest(m), change |-> 0]

\* model.set of one part.
SetPart(kind, m, part, v) ==
    IF m.by[part] = v THEN m
    ELSE IF kind = "buyout" THEN ReCalculateCashFee([m EXCEPT !.by[part] = v])
    ELSE [m EXCEPT !.by[part] = v]

\* model.set of act_pay_fee: a buyout's model works out the change.
SetPaid(kind, m, v) ==
    IF m.paid = v THEN m
    ELSE IF kind = "buyout" THEN [due |-> m.due, by |-> m.by, cash |-> m.cash,
                                 paid |-> v, change |-> v - m.cash]
    ELSE [m EXCEPT !.paid = v]

\* model.set of an answer of re_calculate_fee: no part is paid, all is cash.  Its
\* attributes come in the order of a Python dictionary, with the sum due before
\* the cash and the cash before the member card; the cash may come after what is
\* handed over, or before.
SetAnswer(kind, m, due, cashFirst) ==
    LET noCredit == SetPart(kind, m, "credit", 0)
        noChange == [noCredit EXCEPT !.change = 0]
        dueSet   == [noChange EXCEPT !.due = due]
        noVouchers(n) == SetPart(kind, n, "voucher", 0)
        cashSet(n) == [n EXCEPT !.cash = due]
        paidSet  == IF cashFirst THEN noVouchers(SetPaid(kind, cashSet(dueSet), due))
                    ELSE cashSet(noVouchers(SetPaid(kind, dueSet, due)))
    IN  SetPart(kind, paidSet, "card", 0)

-----------------------------------------------------------------------------
(* The form. *)

\* _re_calculate_sales_voucher_fee: the vouchers of the form are worth sum.
Vouchers(kind, m, sum) == SetPart(kind, m, "voucher", sum)

\* _autoset_pay_type_member_card_fee, with a member card that holds balance.
AutosetMemberCard(kind, m, balance) ==
    SetPart(kind, m, "card",
            IF balance = 0 THEN 0
            ELSE IF balance >= m.cash + m.by["card"] THEN m.cash + m.by["card"]
            ELSE balance)

\* _onchange_member_card_fee: more than the card holds is not taken.
EnterMemberCardFee(kind, m, balance, v) ==
    IF v > balance THEN m ELSE SetPart(kind, m, "card", v)

\* member_card_clear.
ClearMemberCard(kind, m) == SetPart(kind, m, "card", 0)

\* _autoset_pay_type_credit_card_fee: a card number was entered, or cleared.
ChooseCreditCard(kind, m) == SetPart(kind, m, "credit", m.cash)
ClearCreditCard(kind, m)  == SetPart(kind, m, "credit", 0)

\* _onchange_credit_card_fee and _onchange_act_pay_fee.
EnterCreditCardFee(kind, m, v) == SetPart(kind, m, "credit", v)
EnterPaid(kind, m, v)          == SetPaid(kind, m, v)
=============================================================================
