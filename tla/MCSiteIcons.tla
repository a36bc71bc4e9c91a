---------------------------- MODULE MCSiteIcons -----------------------------
(* Two processes that share the table, one of which may stall; two sites.  *)
EXTENDS SiteIcons
CONSTANTS s1, s2, w1, w2, a, b

MCHome == (w1 :> s1) @@ (w2 :> s2)
MCOneHome == (w1 :> s1) @@ (w2 :> s1)
MCSymmetry == Permutations({a, b})
=============================================================================
