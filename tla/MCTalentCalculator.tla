-------------------------- MODULE MCTalentCalculator --------------------------
(* A small class in successive datasets: an identical later build, a rank  *)
(* corrected within a build, and a talent replaced.                        *)
EXTENDS TalentCalculator, TLC

Talent(tree, place, row, max, gate, requires) ==
    [tree |-> tree, place |-> place, row |-> row, max |-> max, gate |-> gate,
     requires |-> requires]
AnyOf(id) == [id |-> id, rank |-> 0, any |-> TRUE]
Needs(id, rank) == [id |-> id, rank |-> rank, any |-> FALSE]

\* 22 and 23 require each other, and only 21 leads to them.
First ==
    [version |-> 1, compatible |-> {}, budget |-> 4,
     trees |-> << <<11, 12, 13>>, <<21, 22, 23>> >>,
     talent |-> (11 :> Talent(1, 1, 0, 2, 0, {}))
                  @@ (12 :> Talent(1, 2, 0, 1, 0, {}))
                  @@ (13 :> Talent(1, 3, 1, 1, 2, {AnyOf(12), Needs(11, 1)}))
                  @@ (21 :> Talent(2, 1, 0, 1, 0, {}))
                  @@ (22 :> Talent(2, 2, 1, 1, 0, {AnyOf(21), AnyOf(23)}))
                  @@ (23 :> Talent(2, 3, 2, 1, 1, {AnyOf(22)}))]
Later == [First EXCEPT !.version = 2, !.compatible = {1}]
Corrected == [First EXCEPT !.talent[11].max = 1, !.talent[13].gate = 1]
Replaced ==
    [First EXCEPT !.version = 2, !.trees[1] = <<11, 14, 13>>,
       !.talent = (14 :> First.talent[12])
                    @@ [t \in {11, 13, 21, 22, 23} |->
                          IF t = 13 THEN Talent(1, 3, 1, 1, 2, {AnyOf(14)})
                          ELSE First.talent[t]]]

MCDatasets == {First, Later, Corrected, Replaced}
=============================================================================
