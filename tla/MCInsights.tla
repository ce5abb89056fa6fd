----------------------------- MODULE MCInsights -----------------------------
(***************************************************************************)
(* Months of four ticks, days of two, Seoul one tick ahead.  Two families  *)
(* of situations: many tables, of up to three records around the month's   *)
(* boundaries, that no request changes; and few tables that two requests   *)
(* and a withdrawal change under a home summary.                           *)
(***************************************************************************)
EXTENDS Insights, TLC

MCSymmetry == Permutations(Calls)

Record(type, price, category, at) ==
    [type |-> type, price |-> price, category |-> category, at |-> at]

Body(type, price, category, at, answers) ==
    [type |-> type, price |-> price, category |-> category, at |-> at,
     answers |-> answers]

(* Ticks 3 to 6 are the month of tick 6; 2 is the last of the one before.  *)
(* 938.40 and twice 30.80 won are exactly 1000, but 999.9999999999999 when *)
(* they are added as doubles.                                              *)
MCTold ==
    <<Record("CONSUMED", 0, "food", 3), Record("CONSUMED", 10050, "food", 6),
      Record("CONSUMED", 30000, "food", 2), Record("CONSUMED", 30000, "toys", 3),
      Record("CONSUMED", 10050, Null, 5), Record("CONSUMED", 20000, "ETC", 6),
      Record("CONSUMED", 10000, "toys", 7), Record("SKIPPED", 0, "toys", 5),
      Record("SKIPPED", 50000, "food", 2), Record("SKIPPED", 50000, Null, 3),
      Record("SKIPPED", 93840, "toys", 3), Record("SKIPPED", 3080, "food", 6),
      Record("SKIPPED", 100000, "food", 7)>>

Indices == DOMAIN MCTold

MCTables ==
    {<<>>} \cup {<<MCTold[i]>> : i \in Indices}
    \cup {<<MCTold[i], MCTold[j]>> : i, j \in Indices}
    \cup {<<MCTold[t[1]], MCTold[t[2]], MCTold[t[3]]>> :
            t \in {u \in Indices \X Indices \X Indices : u[1] <= u[2] /\ u[2] <= u[3]}}

NoBudgets == [m \in 0..2 |-> Null]

MCStarts ==
    {[table |-> t, wage |-> 200000, now |-> 6, calls |-> "done", target |-> g,
      active |-> TRUE, budget |-> [NoBudgets EXCEPT ![1] = 30000]] :
        t \in MCTables, g \in {100000, 400000}}
    \cup
    {[table |-> t, wage |-> 200000, now |-> 6, calls |-> "idle", target |-> g,
      active |-> FALSE, budget |-> [NoBudgets EXCEPT ![1] = a]] :
        t \in {<<>>, <<MCTold[2], MCTold[11]>>}, g \in {Null, 200000}, a \in {Null, 30000}}

MCWages == {0, 200000, 300000}
MCTargets == {100000, 400000}
MCAmounts == {0, 40000}

MCBodies == {Body("CONSUMED", 30000, "toys", Null, {"q1"}),
             Body("SKIPPED", 10050, Null, 3, {})}

MCPatches == {[price |-> 20000, answers |-> {"q1"}], [answers |-> {"q2"}],
              [category |-> Null, at |-> 2], [type |-> "CONSUMED", price |-> 50000]}
=============================================================================
