------------------------------ MODULE MCSaslPlain ------------------------------
(* Texts of up to four bytes, of all lengths modulo three, for the runs. *)
EXTENDS SaslPlain

TextsOver(bytes, n) == UNION {[1 .. k -> bytes] : k \in 0 .. n}

SmallNames == TextsOver({0, 61, 255}, 3)
SmallPasswords == TextsOver({0, 129, 254}, 4)
===============================================================================
