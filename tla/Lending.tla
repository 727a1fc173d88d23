------------------------------ MODULE Lending ------------------------------
(***************************************************************************)
(* What controlled digital lending promises, with no database, no clock    *)
(* and no concurrent requests: for each title a number of copies, the      *)
(* loans, the patrons a copy is kept back for, and the patrons who wait,   *)
(* first come first served.  ControlledDigitalLending implements it.       *)
(***************************************************************************)
EXTENDS Integers, FiniteSets, Sequences, SequencesExt

CONSTANTS Titles, Patrons, Copies

VARIABLES
    loans,    \* title -> set of [copy, patron]
    offers,   \* title -> patrons a free copy is kept back for
    waiting   \* title -> patrons in the order they will be served

vars == <<loans, offers, waiting>>

Loan == [copy : Copies, patron : Patrons]

Borrowers(t) == {l.patron : l \in loans[t]}

FreeCopies(t) == Copies \ {l.copy : l \in loans[t]}

Init ==
    /\ loans = [t \in Titles |-> {}]
    /\ offers = [t \in Titles |-> {}]
    /\ waiting = [t \in Titles |-> <<>>]

\* A patron takes the copy that is kept back for them, or one that nobody is
\* waiting for
CheckOut(t, p) ==
    /\ p \notin Borrowers(t)
    /\ \/ p \in offers[t]
       \/ Cardinality(loans[t]) + Cardinality(offers[t]) + Len(waiting[t])
            < Cardinality(Copies)
    /\ \E copy \in FreeCopies(t) :
         loans'[t] = loans[t] \cup {[copy |-> copy, patron |-> p]}
    /\ offers'[t] = offers[t] \ {p}
    /\ \/ \E i \in 1 .. Len(waiting[t]) :
             waiting[t][i] = p /\ waiting'[t] = RemoveAt(waiting[t], i)
       \/ p \notin ToSet(waiting[t]) /\ UNCHANGED waiting[t]

GiveBack(t, p) ==
    /\ p \in Borrowers(t)
    /\ loans'[t] = {l \in loans[t] : l.patron # p}
    /\ UNCHANGED <<offers[t], waiting[t]>>

Join(t, p) ==
    /\ p \notin offers[t]
    /\ p \notin ToSet(waiting[t])
    /\ waiting'[t] = Append(waiting[t], p)
    /\ UNCHANGED <<loans[t], offers[t]>>

\* The first n patrons who wait get an offer, if there is a copy for each
\* offer; their offer may be over by the time it is known
Offer(t, n) ==
    LET next == {waiting[t][i] : i \in 1 .. n}
    IN  /\ offers'[t] \in {offers[t] \cup next, offers[t]}
        /\ waiting'[t] = SubSeq(waiting[t], n + 1, Len(waiting[t]))
        /\ Cardinality(loans[t]) + Cardinality(offers'[t]) <= Cardinality(Copies)
        /\ UNCHANGED loans[t]

\* Time runs out for some loans and some offers
Lapse(t) ==
    /\ loans'[t] \subseteq loans[t]
    /\ offers'[t] \subseteq offers[t]
    /\ UNCHANGED waiting[t]

Step(t) ==
    \/ Lapse(t)
    \/ \E p \in Patrons : CheckOut(t, p) \/ GiveBack(t, p) \/ Join(t, p)
    \/ \E n \in 1 .. Len(waiting[t]) : Offer(t, n)

\* One step may serve several titles
Next == \A t \in Titles : Step(t)

Spec == Init /\ [][Next]_vars
=============================================================================
