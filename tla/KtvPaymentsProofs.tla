-------------------------- MODULE KtvPaymentsProofs --------------------------
(***************************************************************************)
(* Proofs about KtvPayments, for all amounts.                              *)
(***************************************************************************)
EXTENDS KtvPayments, TLAPS

\* The parts and the cash make up what is due.
Balanced(m) == m.cash + m.by["card"] + m.by["credit"] + m.by["voucher"] = m.due

LEMMA AmountsTyped ==
    ASSUME NEW m \in Payments
    PROVE  /\ m.due \in Int /\ m.cash \in Int /\ m.paid \in Int /\ m.change \in Int
           /\ m.by["card"] \in Int /\ m.by["credit"] \in Int /\ m.by["voucher"] \in Int
           /\ Rest(m) \in Int
  BY DEF Payments, Parts, Rest

LEMMA RestBalances ==
    ASSUME NEW m \in Payments
    PROVE  /\ ReCalculateCashFee(m) \in Payments
           /\ ReCalculateCashFee(m).due = m.due
           /\ ReCalculateCashFee(m).by = m.by
           /\ ReCalculateCashFee(m).cash = Rest(m)
           /\ Rest(ReCalculateCashFee(m)) = Rest(m)
  <1>1. Rest(m) \in Int
    BY AmountsTyped
  <1>2. /\ ReCalculateCashFee(m) \in Payments
        /\ ReCalculateCashFee(m).due = m.due
        /\ ReCalculateCashFee(m).by = m.by
        /\ ReCalculateCashFee(m).cash = Rest(m)
    BY <1>1 DEF ReCalculateCashFee, Payments
  <1>. QED  BY <1>2 DEF Rest

\* The parts add up exactly when the cash is what they leave.
LEMMA BalancedIsRest ==
    ASSUME NEW m \in Payments
    PROVE  Balanced(m) <=> m.cash = Rest(m)
  BY AmountsTyped DEF Balanced, Rest

\* What setting a part does: in a buyout a changed part takes its share off the
\* cash.
LEMMA PartSet ==
    ASSUME NEW kind \in Kinds, NEW m \in Payments, NEW part \in Parts, NEW v \in Int,
           NEW r, r = SetPart(kind, m, part, v)
    PROVE  /\ r \in Payments
           /\ r.by = [m.by EXCEPT ![part] = v]
           /\ r.due = m.due
           /\ \/ r.cash = m.cash /\ (kind = "buytime" \/ m.by[part] = v)
              \/ r.cash = Rest(r) /\ kind = "buyout"
  <1> DEFINE n == [m EXCEPT !.by[part] = v]
  <1>1. n \in Payments /\ n.by = [m.by EXCEPT ![part] = v] /\ n.due = m.due /\ n.cash = m.cash
    BY DEF Payments
  <1>2. m.by[part] = v => [m.by EXCEPT ![part] = v] = m.by
    BY DEF Payments
  <1>3. CASE m.by[part] = v
    BY <1>2, <1>3 DEF SetPart
  <1>4. CASE m.by[part] # v /\ kind = "buyout"
    <2>1. r = ReCalculateCashFee(n)
      BY <1>4 DEF SetPart
    <2>. HIDE DEF n
    <2>. QED  BY <1>1, <1>4, <2>1, RestBalances
  <1>5. CASE m.by[part] # v /\ kind = "buytime"
    <2>1. r = n
      BY <1>5 DEF SetPart
    <2>. HIDE DEF n
    <2>. QED  BY <1>1, <1>5, <2>1
  <1>. QED  BY <1>3, <1>4, <1>5 DEF Kinds

LEMMA PartBalances ==
    ASSUME NEW m \in Payments, NEW part \in Parts, NEW v \in Int, Balanced(m)
    PROVE  Balanced(SetPart("buyout", m, part, v))
  <1>1. CASE m.by[part] = v
    BY <1>1 DEF SetPart
  <1>2. CASE m.by[part] # v
    <2>1. PICK n : n = [m EXCEPT !.by[part] = v]
      OBVIOUS
    <2>2. n \in Payments
      BY <2>1 DEF Payments
    <2>3. SetPart("buyout", m, part, v) = ReCalculateCashFee(n)
      BY <1>2, <2>1 DEF SetPart
    <2>4. Balanced(ReCalculateCashFee(n))
      BY <2>2, RestBalances, BalancedIsRest
    <2>. QED  BY <2>3, <2>4
  <1>. QED  BY <1>1, <1>2

LEMMA PaidSet ==
    ASSUME NEW kind \in Kinds, NEW m \in Payments, NEW v \in Int,
           NEW r, r = SetPaid(kind, m, v)
    PROVE  r \in Payments /\ r.due = m.due /\ r.by = m.by /\ r.cash = m.cash
  <1>1. v - m.cash \in Int
    BY AmountsTyped
  <1>. QED  BY <1>1 DEF SetPaid, Payments

LEMMA CashSet ==
    ASSUME NEW m \in Payments, NEW due \in Int, NEW r, r = [m EXCEPT !.cash = due]
    PROVE  r \in Payments /\ r.due = m.due /\ r.by = m.by /\ r.cash = due
  BY DEF Payments

\* An answer leaves no part paid and the whole sum to be paid in cash.
LEMMA AnswerSet ==
    ASSUME NEW kind \in Kinds, NEW m \in Payments, NEW due \in Int,
           NEW cashFirst \in BOOLEAN, NEW r, r = SetAnswer(kind, m, due, cashFirst)
    PROVE  /\ r \in Payments
           /\ r.due = due /\ r.cash = due
           /\ r.by["card"] = 0 /\ r.by["credit"] = 0 /\ r.by["voucher"] = 0
  <1>1. "card" \in Parts /\ "credit" \in Parts /\ "voucher" \in Parts /\ 0 \in Int
    BY DEF Parts
  <1>2. PICK noCredit : noCredit = SetPart(kind, m, "credit", 0)
    OBVIOUS
  <1>3. PICK noChange : noChange = [noCredit EXCEPT !.change = 0]
    OBVIOUS
  <1>4. PICK dueSet : dueSet = [noChange EXCEPT !.due = due]
    OBVIOUS
  <1>5. dueSet \in Payments /\ dueSet.due = due /\ dueSet.by["credit"] = 0
    <2>1. noCredit \in Payments /\ noCredit.by = [m.by EXCEPT !["credit"] = 0]
      BY <1>1, <1>2, PartSet
    <2>2. noCredit.by["credit"] = 0
      BY <1>1, <2>1 DEF Payments
    <2>3. dueSet \in Payments /\ dueSet.due = due /\ dueSet.by = noCredit.by
      <3>1. noChange \in Payments /\ noChange.by = noCredit.by
        BY <1>3, <2>1 DEF Payments
      <3>. QED  BY <1>4, <3>1 DEF Payments
    <2>. QED  BY <2>2, <2>3
  <1>6. PICK p : /\ p \in Payments /\ p.due = due
                 /\ p.by["credit"] = 0 /\ p.by["voucher"] = 0
                 /\ p.cash = due \/ (kind = "buyout" /\ p.cash = Rest(p))
                 /\ r = SetPart(kind, p, "card", 0)
    <2>1. CASE cashFirst
      <3> DEFINE c == [dueSet EXCEPT !.cash = due]
      <3> DEFINE h == SetPaid(kind, c, due)
      <3> DEFINE w == SetPart(kind, h, "voucher", 0)
      <3>1. c \in Payments /\ c.due = due /\ c.by = dueSet.by /\ c.cash = due
        BY <1>5, CashSet
      <3>2. r = SetPart(kind, w, "card", 0)
        BY <1>2, <1>3, <1>4, <2>1 DEF SetAnswer
      <3>. HIDE DEF c
      <3>3. h \in Payments /\ h.due = due /\ h.by = dueSet.by /\ h.cash = due
        BY <3>1, PaidSet
      <3>. HIDE DEF h
      <3>4. /\ w \in Payments /\ w.due = due /\ w.by = [h.by EXCEPT !["voucher"] = 0]
            /\ w.cash = due \/ (kind = "buyout" /\ w.cash = Rest(w))
        BY <1>1, <3>3, PartSet
      <3>5. w.by["credit"] = 0 /\ w.by["voucher"] = 0
        BY <1>1, <1>5, <3>3, <3>4 DEF Payments
      <3>. HIDE DEF w
      <3>. QED  BY <3>2, <3>4, <3>5, Zenon
    <2>2. CASE ~cashFirst
      <3> DEFINE h == SetPaid(kind, dueSet, due)
      <3> DEFINE w == SetPart(kind, h, "voucher", 0)
      <3> DEFINE c == [w EXCEPT !.cash = due]
      <3>1. h \in Payments /\ h.due = due /\ h.by = dueSet.by
        BY <1>5, PaidSet
      <3>2. r = SetPart(kind, c, "card", 0)
        BY <1>2, <1>3, <1>4, <2>2 DEF SetAnswer
      <3>. HIDE DEF h
      <3>3. w \in Payments /\ w.due = due /\ w.by = [h.by EXCEPT !["voucher"] = 0]
        BY <1>1, <3>1, PartSet
      <3>4. w.by["credit"] = 0 /\ w.by["voucher"] = 0
        BY <1>1, <1>5, <3>1, <3>3 DEF Payments
      <3>. HIDE DEF w
      <3>5. c \in Payments /\ c.due = due /\ c.by = w.by /\ c.cash = due
        BY <3>3, CashSet
      <3>. HIDE DEF c
      <3>. QED  BY <3>2, <3>4, <3>5, Zenon
    <2>. QED  BY <2>1, <2>2
  <1>7. /\ r \in Payments /\ r.due = due /\ r.by = [p.by EXCEPT !["card"] = 0]
        /\ \/ r.cash = p.cash /\ (kind = "buytime" \/ p.by["card"] = 0)
           \/ r.cash = Rest(r) /\ kind = "buyout"
    BY <1>1, <1>6, PartSet
  <1>8. r.by["card"] = 0 /\ r.by["credit"] = 0 /\ r.by["voucher"] = 0
    BY <1>1, <1>6, <1>7 DEF Payments
  <1>9. Rest(r) = due /\ (p.by["card"] = 0 => Rest(p) = due)
    BY <1>6, <1>7, <1>8 DEF Rest
  <1>10. CASE kind = "buyout"
    BY <1>6, <1>7, <1>8, <1>9, <1>10
  <1>11. CASE kind = "buytime"
    BY <1>6, <1>7, <1>8, <1>11
  <1>. QED  BY <1>10, <1>11 DEF Kinds

\* Whatever the model of a buyout held before, also when it held the sale of
\* another form, once an answer is in the parts add up, with every part zero
\* (model.js, _re_calculate_cash_fee; widget.js, _re_calculate_fee).
THEOREM AnswerBalances ==
    ASSUME NEW m \in Payments, NEW due \in Int, NEW cashFirst \in BOOLEAN
    PROVE  /\ Balanced(SetAnswer("buyout", m, due, cashFirst))
           /\ SetAnswer("buyout", m, due, cashFirst).cash = due
  BY AnswerSet DEF Balanced, Kinds

\* And nothing the cashier does then unbalances a buyout: vouchers, member and
\* credit cards, in any order and any amount (widget.js, the _onchange_ and
\* _autoset_ handlers).
THEOREM BuyoutStaysBalanced ==
    ASSUME NEW m \in Payments, Balanced(m), NEW balance \in Int, NEW v \in Int
    PROVE  /\ Balanced(Vouchers("buyout", m, v))
           /\ Balanced(AutosetMemberCard("buyout", m, balance))
           /\ Balanced(EnterMemberCardFee("buyout", m, balance, v))
           /\ Balanced(ClearMemberCard("buyout", m))
           /\ Balanced(ChooseCreditCard("buyout", m))
           /\ Balanced(ClearCreditCard("buyout", m))
           /\ Balanced(EnterCreditCardFee("buyout", m, v))
           /\ Balanced(EnterPaid("buyout", m, v))
  <1>1. \A part \in Parts, w \in Int : Balanced(SetPart("buyout", m, part, w))
    BY PartBalances
  <1>2. "card" \in Parts /\ "credit" \in Parts /\ "voucher" \in Parts
    BY DEF Parts
  <1>3. m.cash \in Int /\ m.cash + m.by["card"] \in Int /\ 0 \in Int
    BY AmountsTyped
  <1>4. Balanced(EnterPaid("buyout", m, v))
    <2>1. "buyout" \in Kinds
      BY DEF Kinds
    <2>2. PICK r : r = SetPaid("buyout", m, v)
      OBVIOUS
    <2>3. r.due = m.due /\ r.by = m.by /\ r.cash = m.cash
      BY <2>1, <2>2, PaidSet
    <2>. QED  BY <2>2, <2>3 DEF EnterPaid, Balanced
  <1>5. Balanced(AutosetMemberCard("buyout", m, balance))
    BY <1>1, <1>2, <1>3 DEF AutosetMemberCard
  <1>. QED  BY <1>1, <1>2, <1>3, <1>4, <1>5
            DEF Vouchers, EnterMemberCardFee, ClearMemberCard, ChooseCreditCard,
                ClearCreditCard, EnterCreditCardFee

\* A member card is charged no more than it holds, and no more than is left to
\* pay in cash (widget.js, _autoset_pay_type_member_card_fee).
THEOREM MemberCardCovers ==
    ASSUME NEW kind \in Kinds, NEW m \in Payments, NEW balance \in Nat,
           m.cash + m.by["card"] >= 0
    PROVE  /\ AutosetMemberCard(kind, m, balance).by["card"] <= balance
           /\ AutosetMemberCard(kind, m, balance).by["card"] <= m.cash + m.by["card"]
  <1> DEFINE part == IF balance = 0 THEN 0
                     ELSE IF balance >= m.cash + m.by["card"] THEN m.cash + m.by["card"] ELSE balance
  <1>1. part \in Int /\ part <= balance /\ part <= m.cash + m.by["card"]
    BY AmountsTyped
  <1>2. AutosetMemberCard(kind, m, balance).by["card"] = part
    <2>1. "card" \in Parts
      BY DEF Parts
    <2>2. AutosetMemberCard(kind, m, balance) = SetPart(kind, m, "card", part)
      BY DEF AutosetMemberCard
    <2>. HIDE DEF part
    <2>3. AutosetMemberCard(kind, m, balance).by = [m.by EXCEPT !["card"] = part]
      BY <1>1, <2>1, <2>2, PartSet
    <2>. QED  BY <2>1, <2>3 DEF Payments
  <1>. QED  BY <1>1, <1>2

\* Bought time that is paid by credit card is recorded twice, once as cash: its
\* model does not take the card off the cash (model.js, RoomCheckoutBuytime).
THEOREM BuytimeRecordedTwice ==
    ASSUME NEW m \in Payments, NEW due \in Int, NEW cashFirst \in BOOLEAN
    PROVE  LET paid == ChooseCreditCard("buytime", SetAnswer("buytime", m, due, cashFirst))
           IN  paid.cash + paid.by["card"] + paid.by["credit"] + paid.by["voucher"] = 2 * due
  <1> DEFINE a == SetAnswer("buytime", m, due, cashFirst)
  <1> DEFINE c == ChooseCreditCard("buytime", a)
  <1>1. /\ a \in Payments
        /\ a.cash = due /\ a.by["card"] = 0 /\ a.by["credit"] = 0 /\ a.by["voucher"] = 0
    BY AnswerSet DEF Kinds
  <1>. HIDE DEF a
  <1>2. c.cash = due /\ c.by = [a.by EXCEPT !["credit"] = due]
    BY <1>1, PartSet DEF ChooseCreditCard, Kinds, Parts
  <1>3. c.by["card"] = 0 /\ c.by["credit"] = due /\ c.by["voucher"] = 0
    BY <1>1, <1>2 DEF Payments, Parts
  <1>. HIDE DEF c
  <1>4. c.cash + c.by["card"] + c.by["credit"] + c.by["voucher"] = 2 * due
    BY <1>2, <1>3
  <1>. QED  BY <1>4 DEF a, c

\* The first answer of a page shows the whole sum as change when its cash is set
\* after the sum handed over: the change is taken from the cash of before
\* (model.js, _calculate_change_fee).
THEOREM FirstAnswerShowsChange ==
    ASSUME NEW due \in Int
    PROVE  /\ SetAnswer("buyout", Unpaid, due, FALSE).change = due
           /\ SetAnswer("buyout", Unpaid, due, TRUE).change = 0
  <1>1. PICK zero : zero = [p \in Parts |-> 0]
    OBVIOUS
  <1>2. zero["card"] = 0 /\ zero["credit"] = 0 /\ zero["voucher"] = 0
    BY <1>1 DEF Parts
  <1>3. Unpaid = [due |-> 0, cash |-> 0, by |-> zero, paid |-> 0, change |-> 0]
    BY <1>1 DEF Unpaid
  <1>4. PICK d : d = [due |-> due, cash |-> 0, by |-> zero, paid |-> 0, change |-> 0]
    OBVIOUS
  <1>5. [[SetPart("buyout", Unpaid, "credit", 0) EXCEPT !.change = 0] EXCEPT !.due = due] = d
    <2>1. SetPart("buyout", Unpaid, "credit", 0) = Unpaid
      BY <1>2, <1>3 DEF SetPart
    <2>2. [Unpaid EXCEPT !.change = 0] = Unpaid
      BY <1>3
    <2>3. [Unpaid EXCEPT !.due = due] = d
      BY <1>3, <1>4
    <2>. QED  BY <2>1, <2>2, <2>3
  <1>6. SetAnswer("buyout", Unpaid, due, FALSE).change = due
    <2>1. PICK h : h = [due |-> due, cash |-> 0, by |-> zero, paid |-> due, change |-> due]
      OBVIOUS
    <2>2. PICK r : r = [due |-> due, cash |-> due, by |-> zero, paid |-> due, change |-> due]
      OBVIOUS
    <2>3. SetPaid("buyout", d, due) = h
      <3>1. due - 0 = due
        OBVIOUS
      <3>. QED  BY <1>4, <2>1, <3>1 DEF SetPaid
    <2>4. SetPart("buyout", h, "voucher", 0) = h
      BY <1>2, <2>1 DEF SetPart
    <2>5. [h EXCEPT !.cash = due] = r
      BY <2>1, <2>2
    <2>6. SetPart("buyout", r, "card", 0) = r /\ r.change = due
      BY <1>2, <2>2 DEF SetPart
    <2>. QED  BY <1>5, <2>3, <2>4, <2>5, <2>6, Zenon DEF SetAnswer
  <1>7. SetAnswer("buyout", Unpaid, due, TRUE).change = 0
    <2>1. PICK c : c = [due |-> due, cash |-> due, by |-> zero, paid |-> 0, change |-> 0]
      OBVIOUS
    <2>2. PICK h : h = [due |-> due, cash |-> due, by |-> zero, paid |-> due, change |-> 0]
      OBVIOUS
    <2>3. [d EXCEPT !.cash = due] = c
      BY <1>4, <2>1
    <2>4. SetPaid("buyout", c, due) = h
      <3>1. due - due = 0
        OBVIOUS
      <3>. QED  BY <2>1, <2>2, <3>1 DEF SetPaid
    <2>5. SetPart("buyout", h, "voucher", 0) = h /\ SetPart("buyout", h, "card", 0) = h
      BY <1>2, <2>2 DEF SetPart
    <2>6. h.change = 0
      BY <2>2
    <2>. QED  BY <1>5, <2>3, <2>4, <2>5, <2>6, Zenon DEF SetAnswer
  <1>. QED  BY <1>6, <1>7
=============================================================================
