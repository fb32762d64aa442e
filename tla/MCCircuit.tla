------------------------------ MODULE MCCircuit ------------------------------
(***************************************************************************)
(* Fills for TLC: good ones with every combination of extreme and small    *)
(* amounts at both ends of the window, and ones with one thing wrong or    *)
(* one size out of the ordinary.                                           *)
(***************************************************************************)
EXTENDS Circuit

Amounts == {<<0>>, <<0, Dot, 4>>, <<9, 9, Dot, 9>>, <<Minus, 9, 9, Dot, 9>>}

Good == [ coin : {"allowed"}, time : {min_time, max_time}, closedPnl : Amounts, fee : Amounts,
          feeToken : {"dollar"}, bytes : {3}, tokens : {2} ]

Plain == [ coin |-> "allowed", time |-> min_time, closedPnl |-> <<9>>, fee |-> <<0>>,
           feeToken |-> "dollar", bytes |-> 3, tokens |-> 2 ]

Bad == { [Plain EXCEPT !.coin = "other"], [Plain EXCEPT !.feeToken = "other"],
         [Plain EXCEPT !.time = min_time - 1], [Plain EXCEPT !.time = max_time + 1],
         [Plain EXCEPT !.closedPnl = <<>>], [Plain EXCEPT !.fee = <<Letter>>] }

(* A large fill, one of many tokens, and one with an amount that has the   *)
(* digits the circuit takes and is longer than the parser hands out.       *)
Odd == { [Plain EXCEPT !.bytes = 6], [Plain EXCEPT !.tokens = 4],
         [Plain EXCEPT !.closedPnl = <<Minus, 9, 9, Dot, 9, 9>>] }

Fills == Good \cup {Plain} \cup Bad \cup Odd
=============================================================================
