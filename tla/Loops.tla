-------------------------------- MODULE Loops --------------------------------
(***************************************************************************)
(* Loops whose body is a function: a number of passes, and as many passes  *)
(* as it takes until nothing changes.                                      *)
(***************************************************************************)
EXTENDS Integers

(* k passes of a loop.                                                     *)
Repeat(body, s, k) ==
    LET after[j \in Nat] == IF j = 0 THEN s ELSE body[after[j - 1]] IN after[k]

(* What step makes of base when it is applied until it adds nothing, which *)
(* is the case after at most bound passes.                                 *)
Least(step, base, bound) ==
    Repeat(step, base, CHOOSE n \in 0 .. bound :
                         Repeat(step, base, n + 1) = Repeat(step, base, n))
=============================================================================
