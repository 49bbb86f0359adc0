------------------------------ MODULE MCKtvRoom ------------------------------
(***************************************************************************)
(* KtvRoom on small instances, its properties, and the claims the          *)
(* repository makes about it.                                              *)
(***************************************************************************)
EXTENDS KtvRoomProps, FiniteSets, TLC

\* Enough bill numbers for every request to draw one.
ASSUME Cardinality(Bills) >= Cardinality(Sales)

CONSTANT AskedOsvs     \* business objects the cashiers of the instance ask for

\* Only a prepaid sale carries a closing time.
MCRequests ==
    {q \in Requests : q.osv \in AskedOsvs /\ (~Presale(q.osv) => q.close = 0)}

\* All is said and done: the clock is at its bound and every button was pressed.
Finished ==
    /\ now = MaxTime
    /\ \A c \in Cashiers : pc[c] = "idle"
    /\ \A w \in Workers : wpc[w] = "idle"
    /\ \A s \in Sales : reply[s] # "unasked" /\ ~Due(s)
    /\ UNCHANGED vars

MCNext ==
    \/ Tick
    \/ \E c \in Cashiers : \E q \in MCRequests : Begin(c, q)
    \/ \E c \in Cashiers : CashierStep(c) \/ RequestFails(c) \/ CashierCrash(c)
    \/ \E w \in Workers : WorkerStep(w) \/ CallbackFault(w) \/ WorkerCrash(w)
    \/ Finished

MCSpec     == Init /\ [][MCNext]_vars
MCFairSpec == MCSpec /\ Fairness

Symmetry ==
    Permutations(Rooms) \cup Permutations(Bills) \cup Permutations(Sales)
        \cup Permutations(Cashiers) \cup Permutations(Workers)
=============================================================================
