---------------------------- MODULE MCTxSelection ----------------------------
(* Candidates that meet every branch of the loop: a pair of one sender, an   *)
(* overflow that depends on what ran before, one that never fits, outdated   *)
(* and invalid ones, an ineligible one, one that compresses badly and one    *)
(* that nearly fills a list.  Small candidates stay below the sampling       *)
(* thresholds (10 and 16), so whole selections run unmeasured.               *)
EXTENDS TxSelection

CONSTANTS anchor, a1, a2, moody, heavy, old, bad, cheapskate, dense, bulky, s1, s2

MCTxs == {anchor, a1, a2, moody, heavy, old, bad, cheapskate, dense, bulky}
MCSenders == {"A", "M", "H", "B", "C", "D"}
MCSender == [t \in MCTxs |-> CASE t \in {a1, a2, old} -> "A" [] t = moody -> "M"
               [] t = heavy -> "H" [] t = bad -> "B" [] t = cheapskate -> "C" [] OTHER -> "D"]
MCTip == [t \in MCTxs |-> IF t = cheapskate THEN 0 ELSE 1]
MCGasLimit == [t \in MCTxs |-> CASE t \in {moody, heavy} -> 4 [] t \in {anchor, a1} -> 2 [] OTHER -> 1]
MCDaSize == [t \in MCTxs |-> CASE t = dense -> 12 [] t = bulky -> 18 [] OTHER -> 3]
MCZlibSize == [t \in MCTxs |-> IF t = dense THEN 21 ELSE 2]

(* The state records whether a1 has run; the moody one is cheap after it.   *)
MCStates == BOOLEAN
MCSeeds == {s1, s2}
MCStartState == [s \in MCSeeds |-> s = s2]

item(r) == [raw |-> r, multiplier |-> 1]
MCRun ==
  [t \in MCTxs |-> [s \in MCStates |->
    [valid |-> t \notin {old, bad},
     gas |-> IF t \in {moody, heavy} THEN 3 ELSE 1,
     next |-> s \/ t = a1,
     work |-> CASE t = heavy -> <<item(4), item(5)>>
                [] t = moody -> IF s THEN <<item(1)>> ELSE <<item(5), item(4)>>
                [] t = a1 -> <<item(2)>>
                [] OTHER -> <<item(1)>>]]]

req(m, s, p, l, tip) == [mode |-> m, seed |-> s, pool |-> p, locals |-> l, minTip |-> tip]
MCRequests ==
  {req("payload", s1, <<moody, heavy, a1, a2>>, {}, 0),
   req("payload", s1, <<a1, moody, heavy, a2>>, {}, 0),
   req("payload", s2, <<bad, moody, old, a2>>, {}, 0),
   req("payload", s2, <<a2, a1, dense, moody>>, {}, 0),
   req("rpc", s1, <<a1, moody, cheapskate, a2, heavy>>, {}, 1),
   req("rpc", s1, <<moody, heavy, old, a1>>, {"A", "M"}, 0),
   req("rpc", s1, <<a2, moody, heavy, a1>>, {}, 0),
   req("rpc", s2, <<dense, a1, a2, moody>>, {}, 0),
   req("rpc", s2, <<a1, bulky, a2>>, {}, 0)}
MCReservations == {2}
=============================================================================
