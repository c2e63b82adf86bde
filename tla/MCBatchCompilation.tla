------------------------- MODULE MCBatchCompilation -------------------------
(***************************************************************************)
(* An instance of BatchCompilation for TLC: two groups of two rollouts.    *)
(***************************************************************************)
EXTENDS BatchCompilation, TLC

\* The first rollout delegates twice, the others answer alone.
OneTreeDelegates ==
    [r \in {0, 1} \X {0, 1} |-> IF r = <<0, 0>> THEN <<0, 0>> ELSE <<>>]

Plain     == [end |-> "answered", truncated |-> FALSE, passes |-> TRUE]
Limited   == [Plain EXCEPT !.end = "step_limit"]
FellBack  == [Plain EXCEPT !.end = "fallback"]
Truncated == [Plain EXCEPT !.truncated = TRUE]
Guarded   == [Plain EXCEPT !.passes = FALSE]

\* In the second group nothing goes wrong before the judge.
FirstGroupVaries ==
    <<<<0, 0>>, 0>> :> {Plain, Limited, Truncated, Guarded}
        @@ <<<<0, 0>>, 1>> :> {Plain, FellBack, Truncated, Guarded}
        @@ <<<<0, 0>>, 2>> :> {Plain, Limited}
        @@ <<<<0, 1>>, 0>> :> {Plain, Guarded}
        @@ <<<<1, 0>>, 0>> :> {Plain}
        @@ <<<<1, 1>>, 0>> :> {Plain}
=============================================================================
