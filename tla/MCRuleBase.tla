------------------------------ MODULE MCRuleBase ------------------------------
(* A system strategy with a preset sink, a disabled one, a free id, and an id *)
(* for a second template.                                                     *)
EXTENDS RuleBase, TLC
CONSTANTS u1, u2, w1, s1, s2, s3, r1, r2, r3, t1, t2, g1, g2
MCInitialState == (s1 :> "enable" @@ s2 :> "disable" @@ s3 :> "none")
MCInitialRule == (r1 :> [status |-> "on", sink |-> TRUE, of |-> s1, signature |-> g1] @@ r2 :> [status |-> "on", sink |-> FALSE, of |-> s2, signature |-> g2] @@ r3 :> NoRule)
MCInitialContent == (t1 :> {s1} @@ t2 :> Null)
================================================================================
