------------------------------- MODULE Prelude --------------------------------
(***************************************************************************)
(* The prelude: what its axioms claim of the integers of any one type, and *)
(* its functions of bool_t, each with what it takes a proof of (`0 true_t` *)
(* or not) and what it returns a proof of.  A program may skip whatever    *)
(* can be proved false, so a claim that fails when executed is a licence   *)
(* for undefined behaviour.  believe_me claims everything and is left out. *)
(***************************************************************************)
EXTENDS ConstantFolding

\* Relations of two numbers of type t, as the program computes them.
Eq(t, x, y) == Compared("eq", t, x, y)
Neq(t, x, y) == Compared("neq", t, x, y)
Lt(t, x, y) == Compared("lt", t, x, y)
Lte(t, x, y) == Compared("lte", t, x, y)
Gt(t, x, y) == Compared("gt", t, x, y)
Gte(t, x, y) == Compared("gte", t, x, y)

Plus1(t, x) == Executed("plus", t, x, 1)
Minus1(t, x) == Executed("minus", t, x, 1)

Equalities(t, a, b, c) ==
  /\ Eq(t, a, a)                                                    \* eq_refl
  /\ (Eq(t, a, b) => Eq(t, b, a))                                   \* eq_symm
  /\ (Eq(t, a, b) /\ Eq(t, b, c) => Eq(t, a, c))                    \* eq_trans
  /\ (~Neq(t, a, b) => Eq(t, a, b))                                 \* eq_intro
  /\ (Eq(t, a, b) => ~Neq(t, a, b))                                 \* eq_elim
  /\ (Neq(t, a, b) => Neq(t, b, a))                                 \* neq_symm
  /\ (~Eq(t, a, b) => Neq(t, a, b))                                 \* neq_intro
  /\ (Neq(t, a, b) => ~Eq(t, a, b))                                 \* neq_elim

Orders(t, a, b, c) ==
  /\ (Lt(t, a, b) /\ Lt(t, b, c) => Lt(t, a, c))                    \* lt_trans
  /\ (~Gte(t, a, b) => Lt(t, a, b))                                 \* lt_intro
  /\ (Lt(t, a, b) => ~Gte(t, a, b))                                 \* lt_elim
  /\ (Lt(t, a, b) => Gt(t, b, a))                                   \* lt_gt_commute
  /\ (Lte(t, a, b) /\ Lte(t, b, c) => Lte(t, a, c))                 \* lte_trans
  /\ (~Gt(t, a, b) => Lte(t, a, b))                                 \* lte_intro
  /\ (Lte(t, a, b) => ~Gt(t, a, b))                                 \* lte_elim
  /\ (Lte(t, a, b) => Gte(t, b, a))                                 \* lte_gte_commute
  /\ (Gt(t, a, b) /\ Gt(t, b, c) => Gt(t, a, c))                    \* gt_trans
  /\ (~Lte(t, a, b) => Gt(t, a, b))                                 \* gt_intro
  /\ (Gt(t, a, b) => ~Lte(t, a, b))                                 \* gt_elim
  /\ (Gt(t, a, b) => Lt(t, b, a))                                   \* gt_lt_commute
  /\ (Gte(t, a, b) /\ Gte(t, b, c) => Gte(t, a, c))                 \* gte_trans
  /\ (~Lt(t, a, b) => Gte(t, a, b))                                 \* gte_intro
  /\ (Gte(t, a, b) => ~Lt(t, a, b))                                 \* gte_elim
  /\ (Gte(t, a, b) => Lte(t, b, a))                                 \* gte_lte_commute

\* Mutant: nothing excludes that a + 1 wraps around.
Steps_unbounded(t, a, b) ==
  /\ (Lt(t, a, b) => Lte(t, Plus1(t, a), b))                        \* plus_1_lte_intro
  /\ (Lte(t, Plus1(t, a), b) => Lt(t, a, b))                        \* plus_1_lte_elim
  /\ (Gt(t, a, b) => Gte(t, Minus1(t, a), b))                       \* minus_1_gte_intro
  /\ (Gte(t, Minus1(t, a), b) /\ Gt(t, a, MinOf(t)) => Gt(t, a, b)) \* minus_1_gte_elim

Steps(t, a, b) ==
  /\ (Lt(t, a, b) => Lte(t, Plus1(t, a), b))                        \* plus_1_lte_intro
  /\ (Lte(t, Plus1(t, a), b) /\ Lt(t, a, MaxOf(t)) => Lt(t, a, b))  \* plus_1_lte_elim
  /\ (Gt(t, a, b) => Gte(t, Minus1(t, a), b))                       \* minus_1_gte_intro
  /\ (Gte(t, Minus1(t, a), b) /\ Gt(t, a, MinOf(t)) => Gt(t, a, b)) \* minus_1_gte_elim

-----------------------------------------------------------------------------
(* bool_t: a, b and c are truths, 0 or 1.  A function given to a function  *)
(* proves one thing from another.                                          *)

Is(a) == a = 1
And(a, b) == Truth(Joined("and", a, b))
Or(a, b) == Truth(Joined("or", a, b))
Not(a) == 1 - a
Alike(a, b) == Truth(Joined("eq", a, b))
Differ(a, b) == Truth(Joined("neq", a, b))
Less(a, b) == Truth(Joined("lt", a, b))
LessEq(a, b) == Truth(Joined("lte", a, b))
More(a, b) == Truth(Joined("gt", a, b))
MoreEq(a, b) == Truth(Joined("gte", a, b))

Logic(a, b, c) ==
  /\ ~(Is(a) /\ Is(Not(a)))                                         \* contradiction
  /\ (Is(a) => Is(Not(Not(a))))                                     \* double_neg_intro
  /\ (Is(Not(Not(a))) => Is(a))                                     \* double_neg_elim
  /\ (Is(a) /\ Is(b) => Is(And(a, b)))                              \* conj_intro
  /\ (Is(And(a, b)) => Is(a))                                       \* conj_elim_a
  /\ (Is(And(a, b)) => Is(b))                                       \* conj_elim_b
  /\ (Is(a) => Is(Or(a, b)))                                        \* disj_intro_a
  /\ (Is(b) => Is(Or(a, b)))                                        \* disj_intro_b
  /\ (Is(Or(Not(a), Not(b))) => Is(Not(And(a, b))))                 \* de_morgan_intro_and
  /\ (Is(And(Not(a), Not(b))) => Is(Not(Or(a, b))))                 \* de_morgan_intro_or
  /\ (Is(Not(And(a, b))) => Is(Or(Not(a), Not(b))))                 \* de_morgan_elim_and
  /\ (Is(Not(Or(a, b))) => Is(And(Not(a), Not(b))))                 \* de_morgan_elim_or
  /\ (Is(a) /\ (Is(a) => Is(b)) => Is(b))                           \* modus_ponens
  /\ (Is(Not(b)) /\ (Is(a) => Is(b)) => Is(Not(a)))                 \* modus_tollens
  /\ (Is(Not(And(a, b))) /\ Is(b) => Is(Not(a)))                    \* conjunctive_syllogism_a
  /\ (Is(Not(And(a, b))) /\ Is(a) => Is(Not(b)))                    \* conjunctive_syllogism_b
  /\ (Is(Or(a, b)) /\ Is(Not(b)) => Is(a))                          \* disjunctive_syllogism_a
  /\ (Is(Or(a, b)) /\ Is(Not(a)) => Is(b))                          \* disjunctive_syllogism_b
  /\ ((Is(a) => Is(c)) /\ (Is(b) => Is(c)) /\ Is(Or(a, b)) => Is(c)) \* dilemma
  /\ (~Is(a) => Is(Not(a)))                                         \* reductio_ad_absurdum
  /\ ((Is(a) => Is(b)) => Is(Or(Not(a), b)))                        \* material_implication

Connectives(a, b, c) ==
  /\ (Is(And(a, b)) => Is(And(b, a)))                               \* and_symm
  /\ (Is(And(a, b)) /\ Is(And(b, c)) => Is(And(a, c)))              \* and_trans
  /\ (Is(a) => Is(And(a, 1)))                                       \* and_true_intro
  /\ (Is(And(a, 1)) => Is(a))                                       \* and_true_elim
  /\ (Is(Or(a, b)) => Is(Or(b, a)))                                 \* or_symm
  /\ (Is(a) => Is(Or(a, 0)))                                        \* or_false_intro
  /\ (Is(Or(a, 0)) => Is(a))                                        \* or_false_elim

Sameness(a, b, c) ==
  /\ Is(Alike(a, a))                                                 \* eq_refl
  /\ (Is(Alike(a, b)) => Is(Alike(b, a)))                             \* eq_symm
  /\ (Is(Alike(a, b)) /\ Is(Alike(b, c)) => Is(Alike(a, c)))           \* eq_trans
  /\ (Is(a) => Is(Alike(a, 1)))                                      \* eq_true_intro
  /\ (Is(Alike(a, 1)) => Is(a))                                      \* eq_true_elim
  /\ (Is(Not(a)) => Is(Alike(a, 0)))                                 \* eq_false_intro
  /\ (Is(Alike(a, 0)) => Is(Not(a)))                                 \* eq_false_elim
  /\ (Is(Differ(a, b)) => Is(Not(Alike(a, b))))                      \* not_eq_intro
  /\ (Is(Not(Alike(a, b))) => Is(Differ(a, b)))                      \* not_eq_elim
  /\ (Is(Not(a)) => Is(Not(Alike(a, 1))))                            \* not_eq_true_intro
  /\ (Is(Not(Alike(a, 1))) => Is(Not(a)))                            \* not_eq_true_elim
  /\ (Is(a) => Is(Not(Alike(a, 0))))                                 \* not_eq_false_intro
  /\ (Is(Not(Alike(a, 0))) => Is(a))                                 \* not_eq_false_elim
  /\ (Is(Differ(a, b)) => Is(Differ(b, a)))                         \* neq_symm
  /\ (Is(Not(a)) => Is(Differ(a, 1)))                               \* neq_true_intro
  /\ (Is(Differ(a, 1)) => Is(Not(a)))                               \* neq_true_elim
  /\ (Is(a) => Is(Differ(a, 0)))                                    \* neq_false_intro
  /\ (Is(Differ(a, 0)) => Is(a))                                    \* neq_false_elim
  /\ (Is(Alike(a, b)) => Is(Not(Differ(a, b))))                      \* not_neq_intro
  /\ (Is(Not(Differ(a, b))) => Is(Alike(a, b)))                      \* not_neq_elim
  /\ (Is(a) => Is(Not(Differ(a, 1))))                               \* not_neq_true_intro

TruthOrders(a, b, c) ==
  /\ ~Is(Less(a, 0))                                                \* nothing_smaller_than_false
  /\ (Is(MoreEq(a, b)) => Is(Not(Less(a, b))))                      \* not_lt_intro
  /\ (Is(Not(Less(a, b))) => Is(MoreEq(a, b)))                      \* not_lt_elim
  /\ (Is(Less(a, b)) => Is(b))                                      \* a_lt_b_implies_b
  /\ Is(LessEq(a, a))                                               \* lte_refl
  /\ (Is(LessEq(a, b)) /\ Is(LessEq(b, c)) => Is(LessEq(a, c)))     \* lte_trans
  /\ Is(LessEq(a, 1))                                               \* true_biggest
  /\ Is(LessEq(0, a))                                               \* false_smallest
  /\ ~Is(More(a, 1))                                                \* nothing_bigger_than_true
  /\ (Is(LessEq(a, b)) => Is(Not(More(a, b))))                      \* not_gt_intro
  /\ (Is(Not(More(a, b))) => Is(LessEq(a, b)))                      \* not_gt_elim
  /\ (Is(More(a, b)) => Is(a))                                      \* a_gt_b_implies_a
  /\ Is(MoreEq(a, a))                                               \* gte_refl
  /\ (Is(MoreEq(a, b)) /\ Is(MoreEq(b, c)) => Is(MoreEq(a, c)))     \* gte_trans
  /\ (Is(Less(a, b)) => Is(More(b, a)))                             \* lt_gt_commute
  /\ (Is(LessEq(a, b)) => Is(MoreEq(b, a)))                         \* lte_gte_commute
  /\ (Is(More(a, b)) => Is(Less(b, a)))                             \* gt_lt_commute
  /\ (Is(MoreEq(a, b)) => Is(LessEq(b, a)))                         \* gte_lte_commute

-----------------------------------------------------------------------------
\* Whatever numbers and truths an expression comes to when it runs, nothing
\* the prelude claims of them is false, at the boundaries of the type neither:
\* what is proved from it can be relied on by the generated code.
AxiomsAreTrue ==
  /\ Len(stack) >= 3 =>
       LET a == stack[1].executed
           b == stack[2].executed
           c == stack[3].executed
       IN  Equalities(type, a, b, c) /\ Orders(type, a, b, c) /\ Steps(type, a, b)
  /\ Len(truths) >= 3 =>
       LET a == truths[1].executed
           b == truths[2].executed
           c == truths[3].executed
       IN  /\ Logic(a, b, c) /\ Connectives(a, b, c)
           /\ Sameness(a, b, c) /\ TruthOrders(a, b, c)
=============================================================================
