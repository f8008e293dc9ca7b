----------------------------- MODULE MCStackPage -----------------------------
(* Reports as `ksp-bench run` writes them: the tiers that ran, for each its  *)
(* profiles, for each its formats; a profile may be named twice.  And        *)
(* reports merged by hand, without a scenario.  Rows of one tier take equal  *)
(* times; two rows of tier S2 take all times, 0 and none included.           *)
EXTENDS StackPage

TierTime == [tier \in Range(TierOrder) |->
    CHOOSE k \in DOMAIN TierOrder : TierOrder[k] = tier]

Matrix(tiers, profiles, formats) ==
    FlattenSeq([t \in DOMAIN tiers |->
        FlattenSeq([p \in DOMAIN profiles |->
            [f \in 1 .. formats |->
                [tier |-> tiers[t], profile |-> profiles[p],
                 means |-> [label \in {"encode"} |-> TierTime[tiers[t]]]]]])])

MCProfiles == {<<"small">>, <<"small", "large">>, <<"small", "large", "small">>}

MCMeans == UNION {[labels -> {0, 1, 7, 8}] :
                     labels \in {{}, {"encode"}, {"encode", "cold"}}}

MCReports ==
    {[tier |-> t, profiles |-> p, rows |-> Matrix(<<t>>, p, f)] :
        t \in Range(TierOrder), p \in MCProfiles, f \in 1 .. 2}
    \cup {[tier |-> "all", profiles |-> p, rows |-> Matrix(TierOrder, p, f)] :
        p \in {<<"small", "large">>}, f \in 1 .. 2}
    \cup {[tier |-> t, profiles |-> <<>>,
           rows |-> Matrix(<<"S1", "S3">>, p, 1)] :
        t \in {"", "all?"}, p \in MCProfiles \cup {<<"">>}}
    \cup {[tier |-> "S2", profiles |-> <<"small">>,
           rows |-> <<[tier |-> "S2", profile |-> "small", means |-> m],
                      [tier |-> "S2", profile |-> "small", means |-> n]>>] :
        m \in MCMeans, n \in MCMeans}
==============================================================================
