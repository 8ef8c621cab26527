---------------------------- MODULE MCDetection ----------------------------
EXTENDS Detection, TLC

CONSTANTS s1, s2, A, B

(* What a pull may know of a session: nothing yet, or who it is. *)
MCFacts == {[rank |-> 1, reason |-> "none"], [rank |-> 3, reason |-> "internal_domain"]}

MCRuleSets == {{{"work"}, {"not_resolved", "free_mail"}}}

Page(o) == [kind |-> "page", on |-> o]
Beat(kind, times, key, tier) ==
    [kind |-> kind, times |-> times, key |-> key, tier |-> tier,
     interactive |-> key # 0]

(* Rage before any page and on one, dead clicks on one control and, key 0, *)
(* on what is no control; rage where the page was withheld.                *)
MCTranscripts ==
    {<<Beat("rage_click", 3, 1, "stable"), Page(A), Beat("rage_click", 2, 1, "structural"),
       Beat("dead_click", 1, 1, "stable"), Beat("dead_click", 1, 0, "stable"),
       Beat("dead_click", 1, 1, "stable"), Beat("dead_click", 1, 0, "stable"),
       Page(NoPath), Beat("rage_click", 3, 1, "stable")>>}

MCTold == {<<"act", A>>, <<"view", B>>, <<"exception", A>>, <<"exception", NoPath>>}

MCBeatMin == [kind \in Beats |-> 2]

Symm == Permutations({s1, s2})
=============================================================================
