-------------------------- MODULE MCPageProtection --------------------------
(* Four pages with a seam in the middle; two threads, three guards.        *)
EXTENDS PageProtection, TLC
CONSTANTS t1, t2, g1, g2, g3

MCThreads == {t1, t2}
MCGuards == {g1, g2, g3}

Seam == <<"r", "r", "rx", "rw">>

Mk(g, lo, hi, rights) == [do |-> "make", g |-> g, lo |-> lo, hi |-> hi, rights |-> rights]
D(g) == [do |-> "drop", g |-> g]

\* guard = ProtectGuard::make(...) over the region the guard holds.
MCReassigning ==
  {[prot |-> Seam, script |-> (t1 :> <<Mk(g1, 3, 3, {"r", "w"}), Mk(g2, 3, 3, {"r", "w"}), [do |-> "assign", g |-> g1, from |-> g2], D(g1)>>
                             @@ t2 :> <<>>)]}
=============================================================================
