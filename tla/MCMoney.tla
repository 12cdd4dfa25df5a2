------------------------------- MODULE MCMoney ---------------------------------
(* Amounts of two decimals, up to 10.23: the greatest one lies within a unit, as it
   does for a u64 of nanos. *)
EXTENDS Money

MCTexts ==
    {Text(u, r) : u \in -1 .. 12,
                  r \in {None} \cup {Remainder(v, l) : v \in {-1, 3, 9}, l \in 1 .. 3}
                        \cup {Remainder(v, 2) : v \in {23, 24, 99}}}
=============================================================================
