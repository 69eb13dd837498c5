--------------------------- MODULE MCProofSearch ----------------------------
(* Searches over three types with values and one without: p has an erased   *)
(* and two linear variables, q an unrestricted one.                         *)
EXTENDS ProofSearch

MCTargets == {"goal", "p", "q", "r", "r1", "r2", "r3", "r4"}
MCVars == {"z", "a", "b", "m"}
MCDecl == [z |-> zero, a |-> one, b |-> one, m |-> many]
MCContext == << [var |-> "z", type |-> "p"], [var |-> "a", type |-> "p"],
                [var |-> "b", type |-> "p"], [var |-> "m", type |-> "q"] >>

\* Parameters: to be searched; given by unification; needed by a later one.
Search(t) == [type |-> t, given |-> NoTerm, relevant |-> FALSE, loops |-> FALSE]
Given(v, t) == [Search(t) EXCEPT !.given = VarTerm([var |-> v, type |-> t])]
Needed(t) == [Search(t) EXCEPT !.relevant = TRUE]
QuickSearch(t) == [Search(t) EXCEPT !.loops = TRUE]

Pure(name, params, ret) ==
  [name |-> name, kind |-> "pure", absurd |-> FALSE, ret |-> ret, params |-> params]

MCGlobals == {
  Pure("pp_goal", <<Search("p"), Search("p")>>, "goal"),
  Pure("r_goal", <<Search("r")>>, "goal"),
  Pure("p_r_goal", <<Search("p"), Search("r")>>, "goal"),
  Pure("a_q_p_goal", <<Given("a", "p"), Search("q"), Search("p")>>, "goal"),
  Pure("a_r_goal", <<Given("a", "p"), Search("r")>>, "goal"),
  Pure("a_needed_goal", <<Given("a", "p"), Needed("q")>>, "goal"),
  Pure("pq_r", <<Search("p"), Search("q")>>, "r"),
  Pure("goal_r", <<Search("goal")>>, "r"),
  [Pure("axiom_r", <<>>, "r") EXCEPT !.kind = "axiom"],
  [Pure("mutable_p", <<Search("q")>>, "p") EXCEPT !.kind = "mutable"] }

Chosen(n) == {gs \in [1..n -> MCGlobals] : \A i, j \in 1..n : gs[i] = gs[j] => i = j}

MCProblems(sizes) ==
  [goal : {"goal"}, ctx : {MCContext}, globals : UNION {Chosen(n) : n \in sizes},
   trivial : {{}}, proved : {{}}, mutable : BOOLEAN, mult : Qty,
   before : {<<>>, <<"a">>}]

\* Nothing is limited; the way to "goal" through r1, r2 and r3 has a shorter
\* (q_r3) and a longer (p_r3) end, and one that leads nowhere.
MCLongWay ==
  [goal |-> "goal", ctx |-> << [var |-> "m", type |-> "q"] >>,
   globals |-> << Pure("p_r1_goal", <<Search("p"), Search("r1")>>, "goal"),
                  Pure("q_p", <<Search("q")>>, "p"),
                  Pure("r2_r1", <<Search("r2")>>, "r1"),
                  Pure("r3_r2", <<Search("r3")>>, "r2"),
                  Pure("r4_r3", <<Search("r4")>>, "r3"),
                  Pure("p_r3", <<Search("p")>>, "r3"),
                  Pure("q_r3", <<Search("q")>>, "r3") >>,
   trivial |-> {}, proved |-> {}, mutable |-> FALSE, mult |-> one, before |-> <<>>]

\* A function that needs a proof of what it returns, and {} for a proof.
MCShortCuts ==
  {[MCLongWay EXCEPT !.globals = <<Pure("goal_r_goal", <<QuickSearch("goal"), Search("r")>>, "goal"),
                                   Pure("r_goal", <<Search("r")>>, "goal")>>,
                     !.trivial = ts, !.proved = ps] :
     ts \in {{}, {"r"}}, ps \in {{}, {"goal"}, {"r"}}}

\* Three functions only in the plainest context: that is where most of the
\* searches take most of their steps.
MCPlain(p) == p.mutable /\ p.before = <<>> /\ p.mult = one

MCSearches ==
  MCProblems({2}) \union {p \in MCProblems({3}) : MCPlain(p)}
    \union {MCLongWay} \union MCShortCuts
=============================================================================
