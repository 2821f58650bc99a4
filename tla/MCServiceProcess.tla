-------------------------- MODULE MCServiceProcess ---------------------------
(* Instances of the parts of the service for TLC.                          *)
EXTENDS ServiceProcess

CONSTANTS u1, u2, d1, d2, home, unit1   \* users, devices, an address, a unit

(* Returns: the device and the address they came from, and the score noted   *)
(* for the user then.                                                      *)
Row(u, d, ip, s) == [user |-> u, device |-> d, ip |-> ip, score |-> s]
MCTables ==
  {<<>>,
   <<Row(u1, d1, home, 90), Row(u2, d1, home, 40)>>,
   <<Row(u1, d1, NoMark, 90), Row(u1, d2, home, 90), Row(u2, d1, home, 60), Row(u2, d2, NoMark, 10),
     Row(u2, d1, NoMark, 80)>>}

(* Stops on a line, the depot at 0; a stop beyond kilometre 100 is out of    *)
(* reach of the electric types.                                            *)
Line(at) ==
  [p \in (0 .. Len(at)) \X (0 .. Len(at)) |->
     LET x == IF p[1] = 0 THEN 0 ELSE at[p[1]]
         y == IF p[2] = 0 THEN 0 ELSE at[p[2]]
     IN IF x < y THEN y - x ELSE x - y]

MCScenarios ==
  { [n |-> 4, demand |-> <<1, 2, 1, 1>>, green |-> {1}, dist |-> Line(<<5, 4, -3, -6>>)],
    [n |-> 4, demand |-> <<3, 2, 3, 1>>, green |-> {3}, dist |-> Line(<<4, 9, 60, 2>>)],
    [n |-> 3, demand |-> <<1, 2, 3>>, green |-> {2, 3}, dist |-> Line(<<-8, 7, 3>>)] }

MCGenomes ==
  { [counts |-> [v \in VTypes |-> IF v = "diesel-truck" THEN 2 ELSE 0], alpha |-> 70],
    [counts |-> [v \in VTypes |-> 1], alpha |-> 30] }

MCPoints == { [n |-> 3, demand |-> <<1, 3, 2>>, dist |-> Line(<<-5, -1, 4>>)] }

MCChromosomes == { <<2, 1, 1>> }

MCMutations == {-2}

(* The codes of the code's own table, one of them with the check digit that  *)
(* the algorithm computes, and a short code.                               *)
MCGtins == KnownGtins \cup {<<0, 0, 6, 1, 4, 1, 4, 1, 0, 8, 3, 5, 6, 5>>, <<1, 0, 2, 0, 3, 0, 4, 0>>}

Item(word, category, made, recall) ==
  [word |-> word, category |-> category, made |-> made, recall |-> recall]
MCItems ==
  { Item("cosmetics", "cosmetics", "lately", "none"),
    Item("medical_devices", "medical_devices", "unknown", "none"),
    Item("baby_products", "baby_products", "over six years ago", "none"),
    Item("baby_products", "baby_products", "garbled", "listed"),
    Item("baby_products", "baby_products", "with time zone", "none"),
    Item("lithium_batteries", "lithium_batteries", "unknown", "none"),
    Item("electronics", "car_seats", "unknown", "none"),
    Item("iphone", "electronics", "lately", "none"),
    Item("no word", "mattresses", "unknown", "none") }
=============================================================================
