---------------------------- MODULE SearchProofs ----------------------------
(***************************************************************************)
(* That a proof search finds proofs, and that it costs the caller nothing  *)
(* when it finds none, for any problems over any types and variables.      *)
(*                                                                         *)
(* FoundIsProof is not inductive: that the term of the main task is a      *)
(* proof rests on every task's result being one of what that task looks    *)
(* for, on every cached term being one of its type, and on each sub-task   *)
(* of an application looking for the parameter that its place among the    *)
(* open arguments stands for (Sorted).  FailureLeavesUsage rests on how    *)
(* usage objects extend each other: objects are held by different nodes,   *)
(* an object extends only nodes that no younger object holds (Apart), and  *)
(* the object of the main task has an entry of its own only for what the   *)
(* caller can still pay for (Payable).  SpendingIsTemporary rests on the   *)
(* same, and on every task below one that waits for a temporary object     *)
(* having an object at least that young (YoungerBelow).                    *)
(***************************************************************************)
EXTENDS ProofSearch, Integers, FiniteSetTheorems, TLAPS

L == INSTANCE HeapLemmas WITH Keys <- Vars
B == INSTANCE UsageProofs WITH Terms <- {}, MaxNodes <- 0, MaxDepth <- 0,
                               frames <- <<>>, status <- ""

-----------------------------------------------------------------------------
(* The inductive invariant.                                                *)

Kinds == {"one", "any", "all"}
Statuses == {"in_progress", "failed", "succeeded"}
Tactics == {"proof_search", "quick_search", "search_var", "search_true_t",
            "search_trivial_value", "search_app", "try_apply"}
Task == [kind : Kinds, tactic : Tactics, name : STRING \union {""}, parent : Nat, target : Targets,
         depth : Nat, use : Nat, status : Statuses, result : Term \union {NoTerm},
         subs : Seq(Nat), temp : Nat, args : Seq(Term \union {NoTerm})]
Frame == [task : Nat, at : Nat]

\* A proof of `type` that may be used where the search p is.
Fits(p, term, type) ==
  term \in Term /\ term.type = type /\ term.sound /\ Permitted(p, term.globals)

GlobalOf(p, name) == CHOOSE g \in ToSet(p.globals) : g.name = name
IsGlobal(p, g, name) == g \in ToSet(p.globals) /\ g.name = name

Rank(S, i) == Cardinality({j \in S : j <= i})

\* A task that applies a global stands for what that global returns.
Applies(p, x) ==
  x.tactic = "try_apply" =>
    \E g \in ToSet(p.globals) : /\ g.name = x.name /\ g.ret = x.target
                                /\ Permitted(p, {g.name})

\* The sub-tasks of an alternative look for what the task looks for, with its
\* usage object.
Alternatives(ts, x) ==
  \A i \in DOMAIN x.subs : /\ x.subs[i] \in DOMAIN ts
                           /\ ts[x.subs[i]].target = x.target

\* Those of an application look for what belongs at the open places, in order.
Sorted(p, ts, x) ==
  LET g == GlobalOf(p, x.name)
  IN  /\ x.tactic = "try_apply" /\ Len(x.args) = Len(g.params)
      /\ \A i \in DOMAIN x.args : x.args[i] = g.params[i].given
      /\ Len(x.subs) = Cardinality(Missing(x.args))
      /\ \A i \in Missing(x.args) :
           LET s == x.subs[Rank(Missing(x.args), i)]
           IN  s \in DOMAIN ts /\ ts[s].target = g.params[i].type

\* The task above, and the usage object that it gives to those below.
Linked(ts, t) ==
  IF t = 1 THEN ts[t].parent = 0
  ELSE LET p == ts[t].parent
       IN  /\ p \in 1..(t - 1) /\ ts[p].kind # "one"
           /\ ts[t].use = IF ts[p].kind = "all" THEN ts[p].temp ELSE ts[p].use

Good(p, ts, t) ==
  /\ ts[t].status = "succeeded" => Fits(p, ts[t].result, ts[t].target)
  /\ Applies(p, ts[t])
  /\ ts[t].kind = "any" => Alternatives(ts, ts[t])
  /\ ts[t].kind = "all" => Sorted(p, ts, ts[t]) /\ ts[t].use < ts[t].temp
  /\ Linked(ts, t)

CallIn(ts, c) ==
  /\ c.task \in DOMAIN ts
  /\ c.at > 0 => ts[c.task].kind # "one" /\ c.at <= Len(ts[c.task].subs) + 1

TasksSound ==
  /\ problem \in Problems
  /\ tasks \in Seq(Task) /\ tasks # <<>> /\ tasks[1].target = problem.goal
  /\ \A t \in DOMAIN tasks : Good(problem, tasks, t)
  /\ calls \in Seq(Frame) /\ \A i \in DOMAIN calls : CallIn(tasks, calls[i])
  /\ cache \in [Targets -> Term \union {NoTerm}]
  /\ \A t \in Targets : cache[t] # NoTerm => Fits(problem, cache[t], t)
  /\ outcome \in {Searching, NoneFound} \/ Fits(problem, outcome, problem.goal)

\* Object j is not among the nodes that object i extends.
Apart(h, us, i, j) == us[i] # us[j] /\ B!NotVia(h, us[i], us[j])

\* The usage objects, and what the younger ones do not share with the older.
Objects(h, us) ==
  /\ h \in B!Heap /\ us \in Seq(DOMAIN h)
  /\ \A j \in DOMAIN us : \A i \in 1..(j - 1) : Apart(h, us, i, j)

\* What object n adds to the caller's, node 1, can be added there.
Payable(h, n) ==
  /\ h[n].outer = U!H!Levels(h, 1)
  /\ \A v \in Vars : h[n].index[v] # 0 /\ Decl[v] # many =>
       Decl[v] = one /\ U!Count(h, 1, v) = zero

\* While nothing is found, the caller's object counts what it did before.
Unspent(p, h, us) ==
  /\ us[1] = 1 /\ \A v \in Vars : U!Count(h, 1, v) = Before(p, v)
  /\ Payable(h, us[2])

\* g is h after the object n, which is then x, got some uses more or none.
Spent(h, g, n, x) ==
  /\ B!Replaced(h, g, n, x)
  /\ n # 1 /\ Payable(h, n) => Payable(g, x)

\* Each task has a usage object, younger than the caller's, and so has what it
\* waits for.
Placed(ts, n) ==
  \A t \in DOMAIN ts : ts[t].use \in 2..n /\ (ts[t].kind = "all" => ts[t].temp <= n)

UsageSound ==
  /\ Objects(heap, uses) /\ Len(uses) >= 2 /\ Placed(tasks, Len(uses))
  /\ outcome \in {Searching, NoneFound} => Unspent(problem, heap, uses)

Inv == TasksSound /\ UsageSound

-----------------------------------------------------------------------------
(* Positions in order.                                                     *)

LEMMA RankGrows ==
  ASSUME NEW n \in Nat, NEW S \in SUBSET (1..n)
  PROVE  /\ IsFiniteSet(S) /\ Cardinality(S) \in Nat
         /\ \A i \in S : Rank(S, i) \in 1..Cardinality(S)
         /\ \A i, j \in S : i < j => Rank(S, i) < Rank(S, j)
  <1>1. IsFiniteSet(S) /\ Cardinality(S) \in Nat
    <2>1. IsFiniteSet(1..n)
      BY FS_Interval
    <2> QED BY <2>1, FS_Subset, FS_CardinalityType
  <1>2. ASSUME NEW i \in S
        PROVE  /\ IsFiniteSet({j \in S : j <= i}) /\ Rank(S, i) \in Nat
               /\ Rank(S, i) <= Cardinality(S) /\ Rank(S, i) # 0
    <2> DEFINE R == {j \in S : j <= i}
    <2>1. R \in SUBSET S /\ i \in R
      OBVIOUS
    <2>2. Rank(S, i) = Cardinality(R)
      BY DEF Rank
    <2> HIDE DEF R
    <2>3. IsFiniteSet(R) /\ Cardinality(R) <= Cardinality(S) /\ Cardinality(R) \in Nat
      BY <1>1, <2>1, FS_Subset, FS_CardinalityType
    <2>4. Cardinality(R) # 0
      BY <2>1, <2>3, FS_EmptySet
    <2> QED BY <2>2, <2>3, <2>4 DEF R
  <1>3. ASSUME NEW i \in S, NEW j \in S, i < j PROVE Rank(S, i) < Rank(S, j)
    <2> DEFINE A == {k \in S : k <= i}
               C == {k \in S : k <= j}
    <2>1. A \in SUBSET C /\ j \in C /\ j \notin A
      <3>1. i \in Nat /\ j \in Nat /\ \A k \in S : k \in Nat
        OBVIOUS
      <3>2. (\A k \in S : k <= i => k <= j) /\ ~(j <= i) /\ j <= j
        BY <1>3, <3>1
      <3> QED BY <3>2
    <2>2. Rank(S, i) = Cardinality(A) /\ Rank(S, j) = Cardinality(C) /\ IsFiniteSet(C)
          /\ Cardinality(A) \in Nat /\ Cardinality(C) \in Nat
      BY <1>2 DEF Rank
    <2> HIDE DEF A, C
    <2>3. Cardinality(A) <= Cardinality(C) /\ Cardinality(A) # Cardinality(C)
      BY <2>1, <2>2, FS_Subset
    <2> QED BY <2>2, <2>3
  <1>4. \A i \in S : Rank(S, i) \in 1..Cardinality(S)
    <2> SUFFICES ASSUME NEW i \in S PROVE Rank(S, i) \in 1..Cardinality(S)
      OBVIOUS
    <2>1. Rank(S, i) \in Nat /\ Rank(S, i) <= Cardinality(S) /\ Rank(S, i) # 0
      BY <1>2
    <2> QED BY <1>1, <2>1
  <1> QED BY <1>1, <1>3, <1>4

LEMMA RankReaches ==
  ASSUME NEW n \in Nat, NEW S \in SUBSET (1..n), NEW k \in 1..Cardinality(S)
  PROVE  \E i \in S : Rank(S, i) = k
  <1> DEFINE c == Cardinality(S)
             rank == [i \in S |-> Rank(S, i)]
  <1>1. /\ IsFiniteSet(S) /\ c \in Nat
        /\ \A i \in S : Rank(S, i) \in 1..c
        /\ \A i, j \in S : i < j => Rank(S, i) < Rank(S, j)
    BY RankGrows
  <1>2. \A i, j \in S : Rank(S, i) = Rank(S, j) => i = j
    <2> SUFFICES ASSUME NEW i \in S, NEW j \in S, Rank(S, i) = Rank(S, j) PROVE i = j
      OBVIOUS
    <2>1. ~(i < j) /\ ~(j < i)
      BY <1>1
    <2> QED BY <2>1
  <1>3. rank \in Injection(S, 1..c)
    BY <1>1, <1>2 DEF Injection, IsInjective
  <1>4. IsFiniteSet(1..c) /\ Cardinality(1..c) = c
    <2>1. c \in Int /\ 1 \in Int /\ c >= 0
      BY <1>1
    <2> HIDE DEF c
    <2> QED BY <2>1, FS_Interval
  <1>5. rank \in Surjection(S, 1..c)
    <2> HIDE DEF rank
    <2> QED BY <1>3, <1>4, FS_Injection
  <1> QED BY <1>5 DEF Surjection

\* InOrder lists the positions, each at its rank.
LEMMA Ordered ==
  ASSUME NEW n \in Nat, NEW S \in SUBSET (1..n)
  PROVE  LET q == InOrder(S)
         IN  /\ q \in Seq(S) /\ Len(q) = Cardinality(S) /\ Cardinality(S) \in Nat
             /\ \A k \in 1..Cardinality(S) : q[k] \in S /\ Rank(S, q[k]) = k
             /\ \A i \in S : Rank(S, i) \in 1..Cardinality(S) /\ q[Rank(S, i)] = i
  <1> DEFINE q == InOrder(S)
             c == Cardinality(S)
  <1>1. /\ c \in Nat
        /\ \A i \in S : Rank(S, i) \in 1..c
        /\ \A i, j \in S : i < j => Rank(S, i) < Rank(S, j)
    BY RankGrows
  <1>2. q = [k \in 1..c |-> CHOOSE i \in S : Rank(S, i) = k]
    BY DEF InOrder, Rank
  <1>3. \A k \in 1..c : \E i \in S : Rank(S, i) = k
    BY RankReaches
  <1> HIDE DEF c, q
  <1>4. ASSUME NEW k \in 1..c PROVE q[k] \in S /\ Rank(S, q[k]) = k
    BY <1>2, <1>3
  <1>5. ASSUME NEW i \in S PROVE q[Rank(S, i)] = i
    <2> DEFINE j == q[Rank(S, i)]
    <2>1. j \in S /\ Rank(S, j) = Rank(S, i)
      BY <1>1, <1>4
    <2> HIDE DEF j
    <2>2. ~(i < j) /\ ~(j < i) /\ i \in Nat /\ j \in Nat
      BY <1>1, <2>1
    <2> QED BY <2>2 DEF j
  <1>6. q \in Seq(S) /\ Len(q) = c
    BY <1>1, <1>2, <1>4
  <1> QED BY <1>1, <1>4, <1>5, <1>6 DEF c, q

-----------------------------------------------------------------------------
(* Terms.                                                                   *)

Flat(f, n, ss) == f = [i \in 1..n |-> IF i = 1 THEN ss[i] ELSE f[i - 1] \o ss[i]]

LEMMA FlatExists ==
  ASSUME NEW V, NEW ss \in Seq(Seq(V))
  PROVE  \E f : Flat(f, Len(ss), ss)
  <1> DEFINE N == Len(ss)
             Good1 == {m \in 0..N : \E f \in [1..m -> Seq(V)] : Flat(f, m, ss)}
  <1>1. N \in Nat /\ \A i \in 1..N : ss[i] \in Seq(V)
    OBVIOUS
  <1> HIDE DEF N
  <1>2. 0 \in Good1
    <2> DEFINE f == [i \in 1..0 |-> <<>>]
    <2>1. 1..0 = {} /\ f \in [1..0 -> Seq(V)]
      OBVIOUS
    <2>2. f = [i \in 1..0 |-> IF i = 1 THEN ss[i] ELSE f[i - 1] \o ss[i]]
      BY <2>1
    <2> HIDE DEF f
    <2>3. Flat(f, 0, ss)
      BY <2>2 DEF Flat
    <2>4. \E g \in [1..0 -> Seq(V)] : Flat(g, 0, ss)
      BY <2>1, <2>3
    <2>5. 0 \in 0..N
      BY <1>1
    <2> QED BY <2>4, <2>5, Zenon
  <1>3. ASSUME NEW m \in 0..(N - 1), m \in Good1 PROVE m + 1 \in Good1
    <2>1. PICK f \in [1..m -> Seq(V)] : Flat(f, m, ss)
      BY <1>3
    <2> DEFINE e == m + 1
               x == IF e = 1 THEN ss[e] ELSE f[m] \o ss[e]
               g == [i \in 1..e |-> IF i = e THEN x ELSE f[i]]
    <2>2. e \in 1..N /\ e \in 0..N /\ m \in Nat /\ e - 1 = m /\ \A i \in 1..e : i # e => i \in 1..m
      BY <1>1
    <2>3. x \in Seq(V)
      <3>1. CASE e = 1
        BY <1>1, <2>2, <3>1
      <3>2. CASE e # 1
        <4>1. m \in 1..m
          BY <2>2, <3>2
        <4>2. f[m] \in Seq(V) /\ ss[e] \in Seq(V)
          BY <1>1, <2>2, <4>1
        <4> QED BY <3>2, <4>2
      <3> QED BY <3>1, <3>2
    <2> HIDE DEF e, x
    <2>4. g \in [1..e -> Seq(V)]
      BY <2>2, <2>3
    <2>5. ASSUME NEW i \in 1..e PROVE g[i] = IF i = 1 THEN ss[i] ELSE g[i - 1] \o ss[i]
      <3>1. CASE i = e
        <4>1. CASE e = 1
          BY <3>1, <4>1 DEF x
        <4>2. CASE e # 1
          <5>1. m \in 1..e /\ m # e /\ i - 1 = m
            BY <2>2, <3>1, <4>2
          <5>2. g[i - 1] = f[m]
            BY <5>1
          <5> QED BY <3>1, <4>2, <5>2 DEF x
        <4> QED BY <4>1, <4>2
      <3>2. CASE i # e
        <4>1. i \in 1..m
          BY <2>2, <3>2
        <4>2. f[i] = IF i = 1 THEN ss[i] ELSE f[i - 1] \o ss[i]
          BY <2>1, <4>1 DEF Flat
        <4>3. CASE i = 1
          BY <3>2, <4>2, <4>3
        <4>4. CASE i # 1
          <5>1. i - 1 \in 1..e /\ i - 1 # e
            BY <2>2, <4>1, <4>4
          <5>2. g[i - 1] = f[i - 1]
            BY <5>1
          <5> QED BY <3>2, <4>2, <4>4, <5>2
        <4> QED BY <4>3, <4>4
      <3> QED BY <3>1, <3>2
    <2>6. Flat(g, e, ss)
      <3>1. g = [i \in 1..e |-> g[i]]
        OBVIOUS
      <3> HIDE DEF g
      <3> QED BY <2>5, <3>1 DEF Flat
    <2> QED BY <2>2, <2>4, <2>6 DEF e
  <1>4. \A i \in 0..N : i \in Good1
    <2> HIDE DEF Good1
    <2> QED BY <1>1, <1>2, <1>3, L!UpTo
  <1>5. N \in Good1
    BY <1>1, <1>4
  <1> QED BY <1>5 DEF N

\* Concatenating sequences over V gives one over V.
LEMMA Flattened ==
  ASSUME NEW V, NEW ss \in Seq(Seq(V))
  PROVE  FlattenSeq(ss) \in Seq(V)
  <1> DEFINE n == Len(ss)
             f == CHOOSE f : Flat(f, n, ss)
  <1>1. n \in Nat /\ \A i \in 1..n : ss[i] \in Seq(V)
    OBVIOUS
  <1>2. CASE n = 0
    <2>1. ss = <<>> /\ FlattenSeq(ss) = ss
      BY <1>2 DEF FlattenSeq
    <2>2. <<>> \in Seq(V)
      OBVIOUS
    <2> QED BY <2>1, <2>2, Zenon
  <1>3. CASE n # 0
    <2>1. FlattenSeq(ss) = f[n]
      BY <1>3 DEF FlattenSeq, Flat
    <2>2. Flat(f, n, ss)
      BY FlatExists
    <2> DEFINE Good1 == {i \in 0..n : i = 0 \/ f[i] \in Seq(V)}
    <2> HIDE DEF f, n
    <2>3. \A i \in 1..n : f[i] = IF i = 1 THEN ss[i] ELSE f[i - 1] \o ss[i]
      BY <2>2 DEF Flat
    <2>4. 0 \in Good1
      BY <1>1
    <2>5. ASSUME NEW i \in 0..(n - 1), i \in Good1 PROVE i + 1 \in Good1
      <3>1. i + 1 \in 1..n /\ i + 1 \in 0..n /\ (i + 1) - 1 = i /\ (i + 1 = 1 <=> i = 0)
        BY <1>1
      <3>2. f[i + 1] = IF i + 1 = 1 THEN ss[i + 1] ELSE f[(i + 1) - 1] \o ss[i + 1]
        BY <2>3, <3>1
      <3>3. f[i + 1] \in Seq(V)
        <4>1. CASE i = 0
          BY <1>1, <3>1, <3>2, <4>1
        <4>2. CASE i # 0
          <5>1. f[i] \in Seq(V) /\ ss[i + 1] \in Seq(V)
            BY <1>1, <2>5, <3>1, <4>2
          <5>2. f[i + 1] = f[i] \o ss[i + 1]
            BY <3>1, <3>2, <4>2
          <5> QED BY <5>1, <5>2
        <4> QED BY <4>1, <4>2
      <3> QED BY <3>1, <3>3
    <2>6. \A i \in 0..n : i \in Good1
      <3> HIDE DEF Good1
      <3> QED BY <1>1, <2>4, <2>5, L!UpTo
    <2>7. n \in Good1
      BY <1>1, <2>6
    <2> QED BY <1>3, <2>1, <2>7
  <1> QED BY <1>2, <1>3

LEMMA NotTerms ==
  /\ NoTerm \notin Term /\ Searching \notin Term /\ NoneFound \notin Term
  /\ Searching # NoneFound /\ Searching # NoTerm /\ NoneFound # NoTerm
  <1>1. NoTerm.type = "none" /\ Searching.type = "searching" /\ NoneFound.type = "none_found"
    BY DEF NoTerm, Searching, NoneFound
  <1>2. \A t \in Term : t.type \in Targets
    BY DEF Term
  <1>3. "none" \notin Targets /\ "searching" \notin Targets /\ "none_found" \notin Targets
    BY TargetsAssumption
  <1> QED BY <1>1, <1>2, <1>3

LEMMA VarFits ==
  ASSUME NEW p, NEW d \in [var : Vars, type : Targets]
  PROVE  Fits(p, VarTerm(d), d.type)
  <1>1. d.var \in Vars /\ d.type \in Targets
    OBVIOUS
  <1>2. VarTerm(d) \in Term
    BY <1>1 DEF VarTerm, Term
  <1>3. VarTerm(d).type = d.type /\ VarTerm(d).sound /\ VarTerm(d).globals = {}
    BY DEF VarTerm
  <1> QED BY <1>2, <1>3 DEF Fits, Permitted

LEMMA EmptyFits ==
  ASSUME NEW p, NEW t \in Targets
  PROVE  Fits(p, EmptyList(t), t)
  <1>1. EmptyList(t) \in Term
    BY DEF EmptyList, Term
  <1>2. EmptyList(t).type = t /\ EmptyList(t).sound /\ EmptyList(t).globals = {}
    BY DEF EmptyList
  <1> QED BY <1>1, <1>2 DEF Fits, Permitted

\* An application of a global that is permitted, to proofs for its parameters.
LEMMA AppFits ==
  ASSUME NEW p, NEW name \in STRING, Permitted(p, {name}), NEW t \in Targets,
         NEW params, NEW n \in Nat, NEW args, DOMAIN args = 1..n,
         \A i \in 1..n : Fits(p, args[i], params[i].type)
  PROVE  Fits(p, App(name, t, params, args), t)
  <1> DEFINE a == App(name, t, params, args)
             ss == [i \in DOMAIN args |-> args[i].vars]
  <1>1. \A i \in 1..n : /\ args[i].vars \in Seq(Vars) /\ args[i].globals \in SUBSET STRING
                        /\ args[i].sound /\ args[i].type = params[i].type
                        /\ Permitted(p, args[i].globals)
    <2> SUFFICES ASSUME NEW i \in 1..n
                 PROVE  /\ args[i].vars \in Seq(Vars) /\ args[i].globals \in SUBSET STRING
                        /\ args[i].sound /\ args[i].type = params[i].type
                        /\ Permitted(p, args[i].globals)
      OBVIOUS
    <2>1. args[i] \in Term /\ args[i].type = params[i].type /\ args[i].sound
          /\ Permitted(p, args[i].globals)
      BY DEF Fits
    <2>2. args[i].vars \in Seq(Vars) /\ args[i].globals \in SUBSET STRING
      BY <2>1 DEF Term
    <2> QED BY <2>1, <2>2
  <1>2. FlattenSeq(ss) \in Seq(Vars)
    <2>1. ss \in Seq(Seq(Vars))
      BY <1>1
    <2> QED BY <2>1, Flattened
  <1>3. /\ a.type = t /\ a.vars = FlattenSeq(ss)
        /\ a.globals = {name} \union UNION {args[i].globals : i \in DOMAIN args}
        /\ a.sound = \A i \in DOMAIN args : args[i].sound /\ args[i].type = params[i].type
    BY DEF App
  <1>4. a.sound = TRUE
    BY <1>1, <1>3
  <1>5. a.globals \in SUBSET STRING
    BY <1>1, <1>3
  <1>6. Permitted(p, a.globals)
    <2> SUFFICES ASSUME NEW g \in ToSet(p.globals), g.name \in a.globals
                 PROVE  /\ g.kind = "axiom" => p.mult = zero
                        /\ g.kind = "mutable" => p.mutable
      BY DEF Permitted
    <2>1. CASE g.name = name
      BY <2>1 DEF Permitted
    <2>2. CASE g.name # name
      <3>1. PICK i \in DOMAIN args : g.name \in args[i].globals
        BY <1>3, <2>2
      <3>2. Permitted(p, args[i].globals)
        BY <1>1, <3>1
      <3> QED BY <3>1, <3>2 DEF Permitted
    <2> QED BY <2>1, <2>2
  <1>7. a \in Term
    <2>1. a = [type |-> a.type, vars |-> a.vars, globals |-> a.globals, sound |-> a.sound]
      BY DEF App
    <2> HIDE DEF a
    <2> QED BY <1>2, <1>3, <1>4, <1>5, <2>1 DEF Term
  <1> HIDE DEF a
  <1>8. Fits(p, a, t)
    BY <1>3, <1>4, <1>6, <1>7 DEF Fits
  <1> QED BY <1>8 DEF a

-----------------------------------------------------------------------------
(* Tasks.                                                                   *)

\* us has the tasks of ts: each looks for the same thing, in the same place of
\* the tree; one that waits goes on waiting for the same tasks.
SameTask(x, y) ==
  /\ y.target = x.target /\ y.use = x.use /\ y.parent = x.parent
  /\ y.tactic = x.tactic /\ y.name = x.name

SameShape(x, y) ==
  y.kind = x.kind /\ y.temp = x.temp /\ y.subs = x.subs /\ y.args = x.args

Grown(ts, us) ==
  /\ DOMAIN ts \subseteq DOMAIN us
  /\ \A t \in DOMAIN ts : /\ SameTask(ts[t], us[t])
                          /\ ts[t].kind # "one" => SameShape(ts[t], us[t])

LEMMA GoodKept ==
  ASSUME NEW p, NEW ts \in Seq(Task), NEW us, Grown(ts, us), NEW t \in DOMAIN ts,
         Good(p, ts, t), SameShape(ts[t], us[t]),
         us[t].status = "succeeded" => Fits(p, us[t].result, us[t].target)
  PROVE  Good(p, us, t)
  <1> DEFINE x == ts[t]
             y == us[t]
  <1>1. /\ y.target = x.target /\ y.use = x.use /\ y.parent = x.parent
        /\ y.tactic = x.tactic /\ y.name = x.name
        /\ y.kind = x.kind /\ y.temp = x.temp /\ y.subs = x.subs /\ y.args = x.args
    BY DEF Grown, SameTask, SameShape
  <1>2. \A s \in DOMAIN ts : /\ s \in DOMAIN us /\ us[s].target = ts[s].target /\ us[s].use = ts[s].use
                             /\ ts[s].kind # "one" => us[s].kind = ts[s].kind /\ us[s].temp = ts[s].temp
    BY DEF Grown, SameTask, SameShape
  <1>3. /\ Applies(p, x)
        /\ x.kind = "any" => Alternatives(ts, x)
        /\ x.kind = "all" => Sorted(p, ts, x) /\ x.use < x.temp
        /\ Linked(ts, t)
    BY DEF Good
  <1> HIDE DEF x, y
  <1>4. Applies(p, y)
    BY <1>1, <1>3 DEF Applies
  <1>5. y.kind = "any" => Alternatives(us, y)
    BY <1>1, <1>2, <1>3 DEF Alternatives
  <1>6. y.kind = "all" => Sorted(p, us, y) /\ y.use < y.temp
    <2> SUFFICES ASSUME y.kind = "all" PROVE Sorted(p, us, y) /\ y.use < y.temp
      OBVIOUS
    <2>1. Sorted(p, ts, x) /\ x.use < x.temp
      BY <1>1, <1>3
    <2>2. ASSUME NEW i \in Missing(y.args)
          PROVE  LET s == y.subs[Rank(Missing(y.args), i)]
                 IN  s \in DOMAIN us /\ us[s].target = GlobalOf(p, y.name).params[i].type
      BY <1>1, <1>2, <2>1 DEF Sorted
    <2> QED BY <1>1, <2>1, <2>2 DEF Sorted
  <1>7. Linked(us, t)
    <2>1. CASE t = 1
      BY <1>1, <1>3, <2>1 DEF Linked, x, y
    <2>2. CASE t # 1
      <3> DEFINE q == ts[t].parent
      <3>1. /\ q \in 1..(t - 1) /\ ts[q].kind # "one"
            /\ ts[t].use = IF ts[q].kind = "all" THEN ts[q].temp ELSE ts[q].use
        BY <1>3, <2>2 DEF Linked
      <3>2. q \in DOMAIN ts
        <4>1. t \in 1..Len(ts) /\ DOMAIN ts = 1..Len(ts) /\ Len(ts) \in Nat
          OBVIOUS
        <4> HIDE DEF q
        <4> QED BY <3>1, <4>1
      <3>3. us[q].kind = ts[q].kind /\ us[q].temp = ts[q].temp /\ us[q].use = ts[q].use
        BY <1>2, <3>1, <3>2
      <3>4. us[t].parent = q /\ us[t].use = ts[t].use
        BY <1>1 DEF x, y
      <3> QED BY <2>2, <3>1, <3>3, <3>4 DEF Linked
    <2> QED BY <2>1, <2>2
  <1>8. y.status = "succeeded" => Fits(p, y.result, y.target)
    BY DEF y
  <1> QED BY <1>4, <1>5, <1>6, <1>7, <1>8 DEF Good, y

LEMMA CallKept ==
  ASSUME NEW ts, NEW us, Grown(ts, us), NEW c, CallIn(ts, c)
  PROVE  CallIn(us, c)
BY DEF Grown, SameShape, CallIn

\* The pending call and its task.
LEMMA CallFacts ==
  ASSUME TasksSound, calls # <<>>
  PROVE  /\ Call \in Frame /\ CallIn(tasks, Call)
         /\ Call.task \in DOMAIN tasks /\ Me \in Task /\ Good(problem, tasks, Call.task)
         /\ Len(calls) \in 1..Len(calls) /\ Call = calls[Len(calls)]
         /\ Front(calls) \in Seq(Frame)
         /\ \A i \in DOMAIN Front(calls) : i \in DOMAIN calls /\ Front(calls)[i] = calls[i]
  <1> DEFINE n == Len(calls)
  <1>1. calls \in Seq(Frame) /\ n \in Nat /\ n # 0 /\ DOMAIN calls = 1..n
    BY DEF TasksSound
  <1>2. n \in 1..n /\ calls[n] \in Frame /\ Call = calls[n]
    BY <1>1 DEF Call, Last
  <1>3. CallIn(tasks, Call)
    BY <1>1, <1>2 DEF TasksSound
  <1>4. Call.task \in DOMAIN tasks
    BY <1>3 DEF CallIn
  <1>5. Me \in Task /\ Good(problem, tasks, Call.task)
    BY <1>4 DEF TasksSound, Me
  <1>6. Front(calls) = [i \in 1..(n - 1) |-> calls[i]]
    BY <1>1 DEF Front
  <1> HIDE DEF n
  <1>7. \A i \in 1..(n - 1) : i \in 1..n /\ calls[i] \in Frame
    BY <1>1
  <1>8. n - 1 \in Nat
    BY <1>1
  <1>9. Front(calls) \in Seq(Frame) /\ DOMAIN Front(calls) = 1..(n - 1)
    BY <1>6, <1>7, <1>8
  <1>10. \A i \in DOMAIN Front(calls) : i \in DOMAIN calls /\ Front(calls)[i] = calls[i]
    BY <1>1, <1>6, <1>7, <1>9
  <1> QED BY <1>2, <1>3, <1>4, <1>5, <1>9, <1>10 DEF n

\* The call returns, and every task there is then is good.
LEMMA TasksReturn ==
  ASSUME TasksSound, calls # <<>>, Returns, UNCHANGED <<problem, outcome>>,
         tasks' \in Seq(Task), Grown(tasks, tasks'),
         \A t \in DOMAIN tasks' : Good(problem, tasks', t),
         cache' \in [Targets -> Term \union {NoTerm}],
         \A t \in Targets : cache'[t] # NoTerm => Fits(problem, cache'[t], t)
  PROVE  TasksSound'
  <1>1. calls' \in Seq(Frame) /\ \A i \in DOMAIN calls' : i \in DOMAIN calls /\ calls'[i] = calls[i]
    BY CallFacts DEF Returns
  <1>2. \A i \in DOMAIN calls' : CallIn(tasks', calls'[i])
    BY <1>1, CallKept DEF TasksSound
  <1>3. tasks' # <<>> /\ tasks'[1].target = problem'.goal
    <2>1. 1 \in DOMAIN tasks
      <3>1. tasks \in Seq(Task) /\ tasks # <<>>
        BY DEF TasksSound
      <3> QED BY <3>1
    <2>2. 1 \in DOMAIN tasks' /\ tasks'[1].target = tasks[1].target
      BY <2>1 DEF Grown, SameTask
    <2> QED BY <2>1, <2>2 DEF TasksSound
  <1>4. problem' \in Problems /\ (outcome' \in {Searching, NoneFound} \/ Fits(problem', outcome', problem'.goal))
    BY DEF TasksSound
  <1> QED BY <1>1, <1>2, <1>3, <1>4 DEF TasksSound

\* A task with another status and result.
EndedTask(x, y, s, term) ==
  y \in Task /\ SameTask(x, y) /\ SameShape(x, y) /\ y.status = s /\ y.result = term

LEMMA Ended ==
  ASSUME NEW x \in Task, NEW s \in Statuses, NEW term \in Term \union {NoTerm}
  PROVE  EndedTask(x, [[x EXCEPT !.status = s] EXCEPT !.result = term], s, term)
  <1> DEFINE y == [x EXCEPT !.status = s]
             z == [y EXCEPT !.result = term]
  <1>1. y \in Task
    BY DEF Task
  <1>2. SameTask(x, y) /\ SameShape(x, y) /\ y.status = s
    BY DEF Task, SameTask, SameShape
  <1> HIDE DEF y
  <1>3. z \in Task
    BY <1>1 DEF Task
  <1>4. SameTask(y, z) /\ SameShape(y, z) /\ z.status = y.status /\ z.result = term
    BY <1>1 DEF Task, SameTask, SameShape
  <1> HIDE DEF z
  <1>5. EndedTask(x, z, s, term)
    BY <1>2, <1>3, <1>4 DEF SameTask, SameShape, EndedTask
  <1> QED BY <1>5 DEF y, z

\* One task's status and result change.
TasksEnded ==
  /\ tasks' \in Seq(Task) /\ Grown(tasks, tasks') /\ DOMAIN tasks' = DOMAIN tasks
  /\ \A t \in DOMAIN tasks : SameShape(tasks[t], tasks'[t])
  /\ \A t \in DOMAIN tasks' : Good(problem, tasks', t)

LEMMA TaskEnds ==
  ASSUME TasksSound, calls # <<>>, NEW s, NEW term, NEW y, EndedTask(Me, y, s, term),
         tasks' = [tasks EXCEPT ![Call.task] = y],
         s = "succeeded" => Fits(problem, term, Me.target)
  PROVE  TasksEnded
  <1> DEFINE m == Call.task
  <1>1. m \in DOMAIN tasks /\ Me \in Task /\ Me = tasks[m] /\ tasks \in Seq(Task)
    BY CallFacts DEF TasksSound, Me
  <1>3. y \in Task
    BY DEF EndedTask
  <1>4. /\ SameTask(Me, y) /\ SameShape(Me, y) /\ y.status = s /\ y.result = term /\ y.target = Me.target
    BY DEF EndedTask, SameTask
  <1>5. tasks' = [tasks EXCEPT ![m] = y]
    OBVIOUS
  <1> HIDE DEF m
  <1>6. tasks' \in Seq(Task) /\ DOMAIN tasks' = DOMAIN tasks
        /\ tasks'[m] = y /\ \A t \in DOMAIN tasks : t # m => tasks'[t] = tasks[t]
    <2>1. DOMAIN tasks' = DOMAIN tasks /\ tasks'[m] = y
          /\ \A t \in DOMAIN tasks : t # m => tasks'[t] = tasks[t]
      BY <1>1, <1>5
    <2>2. tasks' \in Seq(Task)
      <3>1. ASSUME NEW ts \in Seq(Task), NEW z \in Task, NEW i \in DOMAIN ts
            PROVE  [ts EXCEPT ![i] = z] \in Seq(Task)
        OBVIOUS
      <3>2. [tasks EXCEPT ![m] = y] \in Seq(Task)
        BY <1>1, <1>3, <3>1, Zenon
      <3> QED BY <1>5, <3>2
    <2> QED BY <2>1, <2>2
  <1>7. ASSUME NEW t \in DOMAIN tasks PROVE SameTask(tasks[t], tasks'[t]) /\ SameShape(tasks[t], tasks'[t])
    <2>1. CASE t = m
      BY <1>1, <1>4, <1>6, <2>1
    <2>2. CASE t # m
      BY <1>6, <2>2 DEF SameTask, SameShape
    <2> QED BY <2>1, <2>2
  <1>8. Grown(tasks, tasks')
    BY <1>6, <1>7 DEF Grown
  <1>9. ASSUME NEW t \in DOMAIN tasks' PROVE Good(problem, tasks', t)
    <2>1. t \in DOMAIN tasks /\ Good(problem, tasks, t)
      BY <1>6 DEF TasksSound
    <2>2. tasks'[t].status = "succeeded" => Fits(problem, tasks'[t].result, tasks'[t].target)
      <3>1. CASE t = m
        BY <1>4, <1>6, <3>1
      <3>2. CASE t # m
        BY <1>6, <2>1, <3>2 DEF Good
      <3> QED BY <3>1, <3>2
    <2> QED BY <1>1, <1>7, <1>8, <2>1, <2>2, GoodKept
  <1> QED BY <1>6, <1>7, <1>8, <1>9 DEF TasksEnded

\* A task that waits for new ones.
Waiting(x, kind, temp, args, subs) ==
  [[[[x EXCEPT !.kind = kind] EXCEPT !.temp = temp] EXCEPT !.args = args] EXCEPT !.subs = subs]

IsWaiting(x, y, kind, temp, args, subs) ==
  /\ y \in Task /\ SameTask(x, y) /\ y.kind = kind /\ y.temp = temp /\ y.args = args
  /\ y.subs = subs /\ y.status = x.status /\ y.result = x.result

LEMMA WaitingParts ==
  ASSUME NEW x \in Task, NEW kind \in Kinds, NEW temp \in Nat,
         NEW args \in Seq(Term \union {NoTerm}), NEW subs \in Seq(Nat)
  PROVE  IsWaiting(x, Waiting(x, kind, temp, args, subs), kind, temp, args, subs)
  <1> DEFINE a == [x EXCEPT !.kind = kind]
             b == [a EXCEPT !.temp = temp]
             c == [b EXCEPT !.args = args]
             d == [c EXCEPT !.subs = subs]
  <1>1. a \in Task /\ SameTask(x, a) /\ a.kind = kind /\ a.status = x.status /\ a.result = x.result
    BY DEF Task, SameTask
  <1> HIDE DEF a
  <1>2. b \in Task /\ SameTask(a, b) /\ b.kind = a.kind /\ b.temp = temp
        /\ b.status = a.status /\ b.result = a.result
    BY <1>1 DEF Task, SameTask
  <1> HIDE DEF b
  <1>3. c \in Task /\ SameTask(b, c) /\ c.kind = b.kind /\ c.temp = b.temp /\ c.args = args
        /\ c.status = b.status /\ c.result = b.result
    BY <1>2 DEF Task, SameTask
  <1> HIDE DEF c
  <1>4. d \in Task /\ SameTask(c, d) /\ d.kind = c.kind /\ d.temp = c.temp /\ d.args = c.args
        /\ d.subs = subs /\ d.status = c.status /\ d.result = c.result
    BY <1>3 DEF Task, SameTask
  <1>5. Waiting(x, kind, temp, args, subs) = d
    BY DEF Waiting, a, b, c
  <1> HIDE DEF d
  <1> QED BY <1>1, <1>2, <1>3, <1>4, <1>5 DEF SameTask, IsWaiting

\* The new tasks: none has begun, all get the same usage object.
NewTasks(p, new, parent, use) ==
  /\ new \in Seq(Task)
  /\ \A i \in DOMAIN new : /\ new[i].kind = "one" /\ new[i].status = "in_progress"
                           /\ new[i].parent = parent /\ new[i].use = use /\ Applies(p, new[i])

\* What becomes of the tasks when one waits.
LEMMA Appended ==
  ASSUME NEW ts \in Seq(Task), NEW m \in DOMAIN ts, NEW y \in Task, NEW new \in Seq(Task)
  PROVE  LET us == [ts EXCEPT ![m] = y] \o new
         IN  /\ us \in Seq(Task) /\ Len(ts) \in Nat /\ Len(new) \in Nat
             /\ DOMAIN ts = 1..Len(ts) /\ DOMAIN new = 1..Len(new)
             /\ DOMAIN us = 1..(Len(ts) + Len(new))
             /\ us[m] = y /\ \A t \in DOMAIN ts : t # m => us[t] = ts[t]
             /\ \A i \in DOMAIN new : us[Len(ts) + i] = new[i]
             /\ \A t \in DOMAIN us : t \notin DOMAIN ts => t - Len(ts) \in DOMAIN new /\ us[t] = new[t - Len(ts)]
  <1> DEFINE mid == [ts EXCEPT ![m] = y]
             us == mid \o new
  <1>1. /\ mid \in Seq(Task) /\ Len(mid) = Len(ts) /\ Len(ts) \in Nat /\ Len(new) \in Nat
        /\ DOMAIN ts = 1..Len(ts) /\ DOMAIN new = 1..Len(new) /\ DOMAIN mid = 1..Len(ts)
    OBVIOUS
  <1>2. mid[m] = y /\ \A t \in DOMAIN ts : t # m => mid[t] = ts[t]
    OBVIOUS
  <1> HIDE DEF mid
  <1>3. us \in Seq(Task) /\ DOMAIN us = 1..(Len(ts) + Len(new))
    BY <1>1
  <1>4. \A t \in 1..Len(ts) : us[t] = mid[t]
    BY <1>1
  <1>5. \A i \in 1..Len(new) : us[Len(ts) + i] = new[i]
    BY <1>1
  <1>6. \A t \in DOMAIN us : t \notin DOMAIN ts => t - Len(ts) \in DOMAIN new /\ us[t] = new[t - Len(ts)]
    <2> SUFFICES ASSUME NEW t \in DOMAIN us, t \notin DOMAIN ts
                 PROVE  t - Len(ts) \in DOMAIN new /\ us[t] = new[t - Len(ts)]
      OBVIOUS
    <2>1. t - Len(ts) \in 1..Len(new) /\ Len(ts) + (t - Len(ts)) = t
      BY <1>1, <1>3
    <2> HIDE DEF us
    <2> QED BY <1>1, <1>5, <2>1
  <1> HIDE DEF us
  <1>7. us[m] = y /\ \A t \in DOMAIN ts : t # m => us[t] = ts[t]
    BY <1>1, <1>2, <1>4
  <1> QED BY <1>1, <1>3, <1>5, <1>6, <1>7 DEF us, mid

\* The pending call's task waits, and nothing else changes.
TasksWait(kind, temp) ==
  /\ tasks' \in Seq(Task) /\ Grown(tasks, tasks') /\ Call.task \in DOMAIN tasks
  /\ \A t \in DOMAIN tasks : t # Call.task => tasks'[t] = tasks[t]
  /\ tasks'[Call.task].kind = kind /\ tasks'[Call.task].temp = temp
  /\ tasks'[Call.task].use = Me.use
  /\ \A t \in DOMAIN tasks' : t \notin DOMAIN tasks =>
       tasks'[t].kind = "one" /\ tasks'[t].use = (IF kind = "all" THEN temp ELSE Me.use)

LEMMA TaskWaits ==
  ASSUME TasksSound, calls # <<>>, Me.kind = "one", NEW kind \in {"any", "all"}, NEW new,
         NEW temp \in Nat, NEW args \in Seq(Term \union {NoTerm}), Waits(kind, new, temp, args),
         NewTasks(problem, new, Call.task, IF kind = "all" THEN temp ELSE Me.use),
         kind = "any" => \A i \in DOMAIN new : new[i].target = Me.target,
         kind = "all" =>
           LET g == GlobalOf(problem, Me.name)
           IN  /\ Me.tactic = "try_apply" /\ Len(args) = Len(g.params) /\ Me.use < temp
               /\ \A i \in DOMAIN args : args[i] = g.params[i].given
               /\ Len(new) = Cardinality(Missing(args))
               /\ \A i \in Missing(args) : /\ Rank(Missing(args), i) \in DOMAIN new
                                          /\ new[Rank(Missing(args), i)].target = g.params[i].type
  PROVE  TasksSound' /\ TasksWait(kind, temp)
  <1> DEFINE m == Call.task
             subs == [i \in DOMAIN new |-> Len(tasks) + i]
             y == Waiting(Me, kind, temp, args, subs)
             N == Len(tasks)
  <1>1. /\ m \in DOMAIN tasks /\ Me \in Task /\ Me = tasks[m] /\ tasks \in Seq(Task)
        /\ Good(problem, tasks, m) /\ problem \in Problems
    BY CallFacts DEF TasksSound, Me
  <1>2. new \in Seq(Task) /\ DOMAIN new = 1..Len(new) /\ Len(new) \in Nat /\ N \in Nat
    BY <1>1 DEF NewTasks
  <1>3. subs \in Seq(Nat) /\ Len(subs) = Len(new) /\ \A i \in DOMAIN new : subs[i] = N + i
    BY <1>2
  <1>4. /\ y \in Task /\ SameTask(Me, y) /\ y.kind = kind /\ y.temp = temp /\ y.args = args
        /\ y.subs = subs /\ y.status = Me.status /\ y.result = Me.result
    <2>1. kind \in Kinds
      BY DEF Kinds
    <2> HIDE DEF subs
    <2>2. IsWaiting(Me, y, kind, temp, args, subs)
      BY <1>1, <1>3, <2>1, WaitingParts
    <2> QED BY <2>2 DEF IsWaiting
  <1>5. tasks' = [tasks EXCEPT ![m] = y] \o new
    <2>1. y = [Me EXCEPT !.kind = kind, !.temp = temp, !.args = args, !.subs = subs]
      BY Zenon DEF Waiting
    <2>2. tasks' = [tasks EXCEPT ![m] = [Me EXCEPT !.kind = kind, !.temp = temp, !.args = args,
                                                   !.subs = subs]] \o new
      BY <1>1 DEF Waits
    <2> QED BY <2>1, <2>2
  <1> HIDE DEF y, subs
  <1>6. /\ tasks' \in Seq(Task) /\ N \in Nat /\ DOMAIN tasks = 1..N
        /\ DOMAIN tasks' = 1..(N + Len(new))
        /\ tasks'[m] = y /\ \A t \in DOMAIN tasks : t # m => tasks'[t] = tasks[t]
        /\ \A i \in DOMAIN new : tasks'[N + i] = new[i]
        /\ \A t \in DOMAIN tasks' : t \notin DOMAIN tasks => t - N \in DOMAIN new /\ tasks'[t] = new[t - N]
    BY <1>1, <1>2, <1>4, <1>5, Appended
  <1> HIDE DEF N, m
  <1>7. Grown(tasks, tasks')
    <2>1. DOMAIN tasks \subseteq DOMAIN tasks'
      BY <1>2, <1>6
    <2>2. ASSUME NEW t \in DOMAIN tasks
          PROVE  SameTask(tasks[t], tasks'[t]) /\ (tasks[t].kind # "one" => SameShape(tasks[t], tasks'[t]))
      <3>1. CASE t = m
        BY <1>1, <1>4, <1>6, <3>1
      <3>2. CASE t # m
        BY <1>6, <3>2 DEF SameTask, SameShape
      <3> QED BY <3>1, <3>2
    <2> QED BY <2>1, <2>2 DEF Grown
  \* The tasks that stay as they are.
  <1>8. ASSUME NEW t \in DOMAIN tasks, t # m PROVE Good(problem, tasks', t)
    <2>1. Good(problem, tasks, t) /\ tasks'[t] = tasks[t]
      BY <1>6, <1>8 DEF TasksSound
    <2>2. SameShape(tasks[t], tasks'[t])
          /\ (tasks'[t].status = "succeeded" => Fits(problem, tasks'[t].result, tasks'[t].target))
      BY <2>1 DEF SameShape, Good
    <2> QED BY <1>1, <1>7, <2>1, <2>2, GoodKept
  <1>9. ASSUME NEW i \in DOMAIN new
        PROVE  subs[i] \in DOMAIN tasks' /\ tasks'[subs[i]] = new[i]
    <2>1. N + i \in 1..(N + Len(new))
      BY <1>2
    <2> QED BY <1>3, <1>6, <2>1
  \* The task that waits.
  <1>10. Good(problem, tasks', m)
    <2>1. /\ y.status = "succeeded" => Fits(problem, y.result, y.target)
          /\ Applies(problem, y)
      <3>1. /\ Me.status = "succeeded" => Fits(problem, Me.result, Me.target)
            /\ Applies(problem, Me)
        BY <1>1 DEF Good
      <3> QED BY <1>4, <3>1 DEF SameTask, Applies
    <2>2. ASSUME kind = "any" PROVE Alternatives(tasks', y)
      <3>1. DOMAIN y.subs = DOMAIN new
        BY <1>2, <1>3, <1>4
      <3>2. \A i \in DOMAIN new : new[i].target = y.target
        BY <1>4, <2>2 DEF SameTask
      <3> QED BY <1>4, <1>9, <3>1, <3>2 DEF Alternatives
    <2>3. ASSUME kind = "all" PROVE Sorted(problem, tasks', y) /\ y.use < y.temp
      <3> DEFINE g == GlobalOf(problem, Me.name)
      <3>1. /\ Me.tactic = "try_apply" /\ Len(args) = Len(g.params) /\ Me.use < temp
            /\ \A i \in DOMAIN args : args[i] = g.params[i].given
            /\ Len(new) = Cardinality(Missing(args))
            /\ \A i \in Missing(args) : /\ Rank(Missing(args), i) \in DOMAIN new
                                       /\ new[Rank(Missing(args), i)].target = g.params[i].type
        BY <2>3
      <3>2. g = GlobalOf(problem, y.name) /\ y.tactic = "try_apply" /\ y.use = Me.use
        BY <1>4, <3>1 DEF SameTask
      <3> HIDE DEF g
      <3>3. Sorted(problem, tasks', y)
        <4>1. ASSUME NEW i \in Missing(args)
              PROVE  LET s == subs[Rank(Missing(args), i)]
                     IN  s \in DOMAIN tasks' /\ tasks'[s].target = g.params[i].type
          <5>1. Rank(Missing(args), i) \in DOMAIN new
            BY <3>1
          <5> QED BY <1>9, <3>1, <5>1
        <4> QED BY <1>3, <1>4, <3>1, <3>2, <4>1 DEF Sorted
      <3> QED BY <1>4, <2>3, <3>1, <3>2, <3>3
    <2>4. Linked(tasks', m)
      <3>1. Linked(tasks, m)
        BY <1>1 DEF Good
      <3>2. CASE m = 1
        BY <1>1, <1>4, <1>6, <3>1, <3>2 DEF Linked, SameTask
      <3>3. CASE m # 1
        <4> DEFINE q == tasks[m].parent
        <4>1. /\ q \in 1..(m - 1) /\ tasks[q].kind # "one"
              /\ tasks[m].use = IF tasks[q].kind = "all" THEN tasks[q].temp ELSE tasks[q].use
          BY <3>1, <3>3 DEF Linked
        <4> HIDE DEF q
        <4>2. q \in DOMAIN tasks /\ q # m
          <5>1. m \in 1..N
            BY <1>1, <1>6
          <5> QED BY <1>2, <1>6, <4>1, <5>1
        <4>3. tasks'[q] = tasks[q]
          BY <1>6, <4>2
        <4>4. tasks'[m].parent = q /\ tasks'[m].use = tasks[m].use
          BY <1>1, <1>4, <1>6 DEF SameTask, q
        <4> QED BY <3>3, <4>1, <4>3, <4>4 DEF Linked
      <3> QED BY <3>2, <3>3
    <2> QED BY <1>4, <1>6, <2>1, <2>2, <2>3, <2>4 DEF Good
  \* The new tasks.
  <1>11. ASSUME NEW t \in DOMAIN tasks', t \notin DOMAIN tasks
         PROVE  /\ tasks'[t].kind = "one" /\ tasks'[t].use = (IF kind = "all" THEN temp ELSE Me.use)
                /\ Good(problem, tasks', t)
    <2>1. t - N \in DOMAIN new /\ tasks'[t] = new[t - N]
      BY <1>6, <1>11
    <2> DEFINE x == tasks'[t]
    <2>2. /\ x.kind = "one" /\ x.status = "in_progress" /\ x.parent = m
          /\ x.use = (IF kind = "all" THEN temp ELSE Me.use) /\ Applies(problem, x)
      BY <2>1 DEF NewTasks, m
    <2>3. t # 1 /\ m \in 1..(t - 1)
      <3>1. t \in 1..(N + Len(new)) /\ t \notin 1..N /\ m \in 1..N
        BY <1>1, <1>6, <1>11
      <3> QED BY <1>2, <3>1
    <2>4. tasks'[m].kind = kind /\ tasks'[m].temp = temp /\ tasks'[m].use = Me.use
      BY <1>4, <1>6 DEF SameTask
    <2>5. Linked(tasks', t)
      <3> HIDE DEF x
      <3> QED BY <2>2, <2>3, <2>4 DEF Linked, x
    <2> QED BY <2>2, <2>5 DEF Good
  <1>12. \A t \in DOMAIN tasks' : Good(problem, tasks', t)
    BY <1>8, <1>10, <1>11
  <1>13. TasksSound'
    <2>1. Returns /\ UNCHANGED <<problem, outcome>> /\ cache' = cache
      BY DEF Waits
    <2>2. cache' \in [Targets -> Term \union {NoTerm}]
          /\ \A t \in Targets : cache'[t] # NoTerm => Fits(problem, cache'[t], t)
      BY <2>1 DEF TasksSound
    <2> QED BY <1>6, <1>7, <1>12, <2>1, <2>2, TasksReturn
  <1>14. tasks'[m].kind = kind /\ tasks'[m].temp = temp /\ tasks'[m].use = Me.use
    BY <1>4, <1>6 DEF SameTask
  <1> QED BY <1>1, <1>6, <1>7, <1>11, <1>13, <1>14 DEF m, TasksWait

-----------------------------------------------------------------------------
(* Usage objects.                                                           *)

LEMMA SameSteps ==
  ASSUME NEW h, NEW n, NEW v, NEW m
  PROVE  /\ U!Count(h, n, v) = B!U!Count(h, n, v)
         /\ U!Allowed(h, n, v, m) = B!U!Allowed(h, n, v, m)
         /\ U!Added(h, n, v, m) = B!U!Added(h, n, v, m)
  <1>2. U!Count(h, n, v) = B!U!Count(h, n, v)
    BY DEF U!Count, B!U!Count, U!H!Find, B!U!H!Find, U!H!HitLevels, B!U!H!HitLevels,
           U!H!Levels, B!U!H!Levels, U!H!PlaceAt, B!U!H!PlaceAt, U!H!NoCell, B!U!H!NoCell,
           U!H!Absent, B!U!H!Absent, U!zero, B!U!zero
  <1>3. U!NewCount(h, n, v, m) = B!U!NewCount(h, n, v, m)
    BY <1>2 DEF U!NewCount, B!U!NewCount, U!Plus, B!U!Plus, U!Times, B!U!Times,
                U!zero, B!U!zero, U!one, B!U!one, U!many, B!U!many
  <1>4. U!zero = B!U!zero
    BY DEF U!zero, B!U!zero
  <1>5. U!Allowed(h, n, v, m) = B!U!Allowed(h, n, v, m)
    BY <1>3, <1>4 DEF U!Allowed, B!U!Allowed
  <1>6. \A q : U!Put(h, n, v, q) = B!U!Put(h, n, v, q)
    BY DEF U!Put, B!U!Put, U!H!Emplaced, B!U!H!Emplaced, U!H!Written, B!U!H!Written,
           U!H!Absent, B!U!H!Absent
  <1>7. U!Added(h, n, v, m) = B!U!Added(h, n, v, m)
    BY <1>3, <1>4, <1>6 DEF U!Added, B!U!Added
  <1> QED BY <1>2, <1>5, <1>7


LEMMA SameAdding ==
  ASSUME NEW h, NEW n, NEW us
  PROVE  U!AddInTurn(h, n, us) = B!U!AddInTurn(h, n, us)
  <1> DEFINE base == [ok |-> TRUE, heap |-> h]
             One(r, u) == IF ~r.ok THEN r
                          ELSE IF U!Allowed(r.heap, n, u[1], u[2])
                               THEN [ok |-> TRUE, heap |-> U!Added(r.heap, n, u[1], u[2])]
                               ELSE [ok |-> FALSE, heap |-> r.heap]
             Two(r, u) == IF ~r.ok THEN r
                          ELSE IF B!U!Allowed(r.heap, n, u[1], u[2])
                               THEN [ok |-> TRUE, heap |-> B!U!Added(r.heap, n, u[1], u[2])]
                               ELSE [ok |-> FALSE, heap |-> r.heap]
             first(f) == [s \in SUBSET DOMAIN us |->
                            IF s = {} THEN base ELSE One(f[s \ {Max(s)}], us[Max(s)])]
             second(f) == [s \in SUBSET DOMAIN us |->
                             IF s = {} THEN base ELSE Two(f[s \ {Max(s)}], us[Max(s)])]
  <1>1. U!AddInTurn(h, n, us) = (CHOOSE f : f = first(f))[DOMAIN us]
    BY DEF U!AddInTurn, U!FoldLeft, U!MapThenFoldSet, Max, U!Max
  <1>2. B!U!AddInTurn(h, n, us) = (CHOOSE f : f = second(f))[DOMAIN us]
    BY DEF B!U!AddInTurn, B!U!FoldLeft, B!U!MapThenFoldSet, Max, B!U!Max
  <1>3. \A r, u : One(r, u) = Two(r, u)
    BY SameSteps
  <1> HIDE DEF One, Two
  <1>4. \A f : first(f) = second(f)
    BY <1>3
  <1> HIDE DEF first, second
  <1>5. (CHOOSE f : f = first(f)) = (CHOOSE f : f = second(f))
    BY <1>4
  <1> QED BY <1>1, <1>2, <1>5

LEMMA SameUsage ==
  ASSUME NEW h, NEW n, NEW us
  PROVE  /\ U!TryAddAll(h, n, us) = B!U!TryAddAll(h, n, us)
         /\ U!H!Levels(h, n) = B!U!H!Levels(h, n) /\ U!H!ChildNode(h, n) = B!L!ChildNode(h, n)
         /\ U!H!RootNode = B!L!RootNode /\ U!DirectUses(n) = B!U!DirectUses(n)
  <1>1. U!H!Levels(h, n) = B!U!H!Levels(h, n) /\ U!H!ChildNode(h, n) = B!L!ChildNode(h, n)
        /\ U!H!RootNode = B!L!RootNode
    BY DEF U!H!Levels, B!U!H!Levels, U!H!ChildNode, B!L!ChildNode, U!H!RootNode, B!L!RootNode,
           U!H!EmptyNode, B!L!EmptyNode, B!L!Levels, U!H!Absent, B!L!Absent
  <1>4. U!TryAddAll(h, n, us) = B!U!TryAddAll(h, n, us)
    BY SameAdding DEF U!TryAddAll, B!U!TryAddAll
  <1>5. U!DirectUses(n) = B!U!DirectUses(n)
    BY DEF U!DirectUses, B!U!DirectUses, U!one, B!U!one
  <1> QED BY <1>1, <1>4, <1>5

LEMMA Quantities ==
  /\ B!Counts = {one, many} /\ B!Qty = Qty /\ Qty = {0, 1, 2} /\ one = 1 /\ many = 2 /\ zero = 0
  /\ B!zero = zero /\ B!one = one /\ B!many = many
  /\ Decl \in [Vars -> B!Qty] /\ {} \subseteq Seq(Vars)
  /\ \A a, b : B!Plus(a, b) = Plus(a, b) /\ B!Times(a, b) = Times(a, b)
BY DeclAssumption DEF B!Counts, B!Qty, Qty, B!one, one, B!many, many, B!zero, zero,
   B!Plus, Plus, B!Times, Times

LEMMA SameCardinality == \A S : B!Cardinality(S) = Cardinality(S)
BY DEF B!Cardinality, Cardinality, B!IsFiniteSet, IsFiniteSet

LEMMA UsesTyped ==
  ASSUME NEW vs \in Seq(Vars), NEW m
  PROVE  LET us == U!UsesOf(vs, m)
         IN  /\ us \in Seq(Vars \X {m}) /\ Len(us) = Len(vs) /\ DOMAIN vs = 1..Len(us)
             /\ \A i \in 1..Len(us) : us[i][1] = vs[i]
  <1> DEFINE n == Len(vs)
             us == U!UsesOf(vs, m)
  <1>1. n \in Nat /\ DOMAIN vs = 1..n /\ \A i \in 1..n : vs[i] \in Vars
    OBVIOUS
  <1>2. us = [i \in 1..n |-> <<vs[i], m>>]
    BY <1>1 DEF U!UsesOf
  <1>3. \A i \in 1..n : <<vs[i], m>> \in Vars \X {m} /\ <<vs[i], m>>[1] = vs[i]
    BY <1>1
  <1> HIDE DEF n, us
  <1>4. us \in Seq(Vars \X {m}) /\ Len(us) = n /\ \A i \in 1..n : us[i][1] = vs[i]
    BY <1>1, <1>2, <1>3
  <1> QED BY <1>1, <1>4 DEF n, us

\* Uses with the multiplier zero change nothing.
LEMMA NothingAdded ==
  ASSUME NEW h, NEW n, NEW us \in Seq(Vars \X {zero})
  PROVE  U!TryAddAll(h, n, us) = [ok |-> TRUE, heap |-> h, node |-> n]
  <1> DEFINE N == Len(us)
             base == [ok |-> TRUE, heap |-> h]
             One(r, u) == IF ~r.ok THEN r
                          ELSE IF U!Allowed(r.heap, n, u[1], u[2])
                               THEN [ok |-> TRUE, heap |-> U!Added(r.heap, n, u[1], u[2])]
                               ELSE [ok |-> FALSE, heap |-> r.heap]
             body(f) == [s \in SUBSET DOMAIN us |->
                           IF s = {} THEN base ELSE One(f[s \ {Max(s)}], us[Max(s)])]
             it == CHOOSE f : f = body(f)
             const == [s \in SUBSET DOMAIN us |-> base]
  <1>1. U!AddInTurn(h, n, us) = it[DOMAIN us]
    BY DEF U!AddInTurn, U!FoldLeft, U!MapThenFoldSet, Max, U!Max
  <1>2. N \in Nat /\ DOMAIN us = 1..N /\ \A i \in 1..N : us[i] \in Vars \X {zero}
    OBVIOUS
  <1>3. ASSUME NEW i \in 1..N PROVE One(base, us[i]) = base
    <2>1. us[i][2] = zero /\ zero = U!zero
      BY <1>2 DEF zero, U!zero
    <2> QED BY <2>1 DEF U!Allowed, U!Added
  <1> HIDE DEF base, One, N
  <1>4. ASSUME NEW s \in SUBSET (1..N), s # {} PROVE Max(s) \in 1..N
    <2>1. L!Max(s) \in s
      BY <1>2, <1>4, L!GreatestOf
    <2> QED BY <2>1 DEF Max, L!Max
  <1>5. const = body(const)
    <2>1. ASSUME NEW s \in SUBSET DOMAIN us
          PROVE  const[s] = IF s = {} THEN base ELSE One(const[s \ {Max(s)}], us[Max(s)])
      <3>1. s \ {Max(s)} \in SUBSET DOMAIN us
        OBVIOUS
      <3> QED BY <1>2, <1>3, <1>4, <3>1
    <2> QED BY <2>1
  <1>6. it = body(it)
    <2> HIDE DEF body, const
    <2> QED BY <1>5
  <1> HIDE DEF it
  <1> DEFINE Same == {i \in 0..N : it[1..i] = base}
  <1>7. 0 \in Same
    <2>1. 1..0 = {} /\ {} \in SUBSET DOMAIN us /\ 0 \in 0..N
      BY <1>2
    <2>2. it[{}] = base
      BY <1>6, <2>1
    <2> QED BY <2>1, <2>2
  <1>8. ASSUME NEW i \in 0..(N - 1), i \in Same PROVE i + 1 \in Same
    <2>1. i + 1 \in 1..N /\ i + 1 \in 0..N /\ (i + 1) - 1 = i /\ i + 1 \in Nat \ {0}
      BY <1>2
    <2>2. Max(1..(i + 1)) = i + 1 /\ (1..(i + 1)) \ {i + 1} = 1..i
      BY <2>1, L!MaxUpTo DEF Max, L!Max
    <2>3. 1..(i + 1) \in SUBSET DOMAIN us /\ 1..(i + 1) # {}
      BY <1>2, <2>1
    <2>4. it[1..(i + 1)] = One(it[1..i], us[i + 1])
      BY <1>6, <2>2, <2>3
    <2> QED BY <1>3, <1>8, <2>1, <2>4
  <1>9. it[1..N] = base
    <2> HIDE DEF Same
    <2>1. \A i \in 0..N : i \in Same
      BY <1>2, <1>7, <1>8, L!UpTo
    <2>2. N \in Same
      BY <1>2, <2>1
    <2> QED BY <2>2 DEF Same
  <1>10. U!AddInTurn(h, n, us) = [ok |-> TRUE, heap |-> h]
    BY <1>1, <1>2, <1>9 DEF base
  <1> QED BY <1>10 DEF U!TryAddAll

LEMMA CallerAlone ==
  ASSUME NEW h \in B!Heap, NEW n
  PROVE  B!NotVia(h, 1, n) \/ 1 \notin DOMAIN h
  <1> SUFFICES ASSUME 1 \in DOMAIN h PROVE B!NotVia(h, 1, n)
    OBVIOUS
  <1>1. \A i \in DOMAIN h[1].outer : h[1].outer[i].node \in 1..(1 - 1)
    BY DEF B!Heap, B!L!WellFormed, B!L!Within
  <1>2. 1..(1 - 1) = {}
    OBVIOUS
  <1> QED BY <1>1, <1>2 DEF B!NotVia

\* The caller's object, when another gets uses.
LEMMA CallerStays ==
  ASSUME NEW h \in B!Heap, NEW n \in DOMAIN h, n # 1, NEW g, NEW x, B!Replaced(h, g, n, x)
  PROVE  B!Stays(h, g, 1) /\ g[1] = h[1] /\ U!H!Levels(g, 1) = U!H!Levels(h, 1)
         /\ \A v \in Vars : U!Count(g, 1, v) = U!Count(h, 1, v)
  <1>1. 1 \in DOMAIN h
    <2>1. h \in Seq(B!L!NodeOf(B!Counts))
      BY DEF B!Heap
    <2> QED BY <2>1
  <1>2. B!Stays(h, g, 1)
    BY <1>1, CallerAlone, B!OthersStay, Quantities
  <1> QED BY <1>2, SameUsage, SameSteps DEF B!Stays

\* Uses that are allowed keep an object payable, if it is not the caller's.
LEMMA PayableKept ==
  ASSUME NEW h \in B!Heap, NEW n \in DOMAIN h, n # 1, Payable(h, n), NEW m \in Qty, m # zero,
         NEW g, NEW x, B!Replaced(h, g, n, x), NEW t \in [Vars -> Nat],
         g[x].index = h[n].index \/ (x = n /\ B!After(h, g, n, t, m))
  PROVE  Payable(g, x)
  <1>1. /\ g[1] = h[1] /\ U!H!Levels(g, 1) = U!H!Levels(h, 1)
        /\ \A v \in Vars : U!Count(g, 1, v) = U!Count(h, 1, v)
    BY CallerStays
  <1>2. g[x].outer = h[n].outer
    BY DEF B!Replaced
  <1>3. ASSUME NEW v \in Vars, g[x].index[v] # 0, Decl[v] # many
        PROVE  Decl[v] = one /\ U!Count(h, 1, v) = zero
    <2>1. CASE h[n].index[v] # 0
      BY <1>3, <2>1 DEF Payable
    <2>2. CASE h[n].index[v] = 0
      <3> DEFINE c == U!Count(h, n, v)
      <3>1. x = n /\ B!After(h, g, n, t, m)
        BY <1>3, <2>2
      <3>2. t[v] \in Nat /\ t[v] # 0
        BY <1>3, <2>2, <3>1 DEF B!After
      <3>3. Plus(c, Times(t[v], m)) <= Decl[v]
        <4>1. /\ B!U!Count(g, n, v) = B!Plus(B!U!Count(h, n, v), B!Times(t[v], m))
              /\ B!U!Count(g, n, v) <= Decl[v]
          BY <3>1, <3>2 DEF B!After
        <4>2. B!U!Count(h, n, v) = c
          BY SameSteps
        <4>3. B!Plus(c, B!Times(t[v], m)) = Plus(c, Times(t[v], m))
          BY Quantities
        <4> QED BY <4>1, <4>2, <4>3
      <3>4. c \in Qty /\ c = B!L!ValueIn(h, h[n].outer, v, B!zero)
        <4>1. B!U!Count(h, n, v) = c
          BY SameSteps
        <4>2. /\ B!U!Count(h, n, v) \in B!Qty
              /\ B!U!Count(h, n, v) = B!L!ValueIn(h, h[n].outer, v, B!zero)
          BY <2>2, B!CountFacts, Quantities
        <4> QED BY <4>1, <4>2, Quantities
      <3>5. Decl[v] \in Qty
        BY Quantities
      <3>6. c = zero /\ Decl[v] = one
        <4> HIDE DEF c
        <4>1. m \in {1, 2} /\ c \in {0, 1, 2} /\ Decl[v] \in {0, 1}
          BY <1>3, <3>4, <3>5, Quantities
        <4>2. Times(t[v], m) >= 1 /\ Times(t[v], m) \in Nat
          BY <3>2, <4>1, Quantities DEF Times
        <4>3. c + Times(t[v], m) <= 1 /\ Decl[v] = 1
          <5> DEFINE a == Times(t[v], m)
          <5> HIDE DEF a
          <5>1. a \in Nat /\ a >= 1 /\ (IF c + a < 2 THEN c + a ELSE 2) <= Decl[v]
            BY <3>3, <4>2, Quantities DEF Plus, a
          <5>2. c + a < 2
            BY <4>1, <5>1
          <5> QED BY <4>1, <5>1, <5>2 DEF a
        <4> QED BY <4>1, <4>2, <4>3, Quantities
      <3>7. h[n].outer = B!L!Levels(h, 1)
        <4>1. h[n].outer = U!H!Levels(h, 1)
          BY DEF Payable
        <4> QED BY <4>1 DEF U!H!Levels, B!L!Levels
      <3>8. U!Count(h, 1, v) = c
        <4>1. B!L!Value(h, 1, v, B!zero) = B!L!ValueIn(h, B!L!Levels(h, 1), v, B!zero)
          BY B!L!ValueAlongLevels, Quantities
        <4>2. B!U!Count(h, 1, v) = B!L!Value(h, 1, v, B!zero)
          BY B!SameOperators, Quantities
        <4> QED BY <3>4, <3>7, <4>1, <4>2, SameSteps
      <3> QED BY <3>6, <3>8
    <2> QED BY <2>1, <2>2
  <1> QED BY <1>1, <1>2, <1>3 DEF Payable

LEMMA Spending ==
  ASSUME NEW h \in B!Heap, NEW n \in DOMAIN h, NEW m \in Qty, NEW us \in Seq(Vars \X {m})
  PROVE  LET r == U!TryAddAll(h, n, us)
         IN  Spent(h, r.heap, n, r.node) /\ r.ok \in BOOLEAN
  <1> DEFINE r == U!TryAddAll(h, n, us)
  <1>0. r.ok \in BOOLEAN
    BY DEF U!TryAddAll
  <1>1. CASE m = zero
    <2>1. r = [ok |-> TRUE, heap |-> h, node |-> n]
      BY <1>1, NothingAdded
    <2>2. B!Replaced(h, h, n, n)
      BY DEF B!Replaced
    <2> HIDE DEF r
    <2> QED BY <1>0, <2>1, <2>2 DEF Spent, r
  <1>2. CASE m # zero
    <2>1. m \in B!Counts
      BY <1>2, Quantities
    <2>2. r = B!U!TryAddAll(h, n, us)
      BY SameUsage
    <2>3. /\ B!Replaced(h, r.heap, n, r.node)
          /\ r.ok => /\ r.node = n
                     /\ B!After(h, r.heap, n, [v \in Vars |-> B!UsesOfVar(us, Len(us), v)], m)
          /\ ~r.ok => r.heap[r.node].index = h[n].index
      BY <2>1, <2>2, B!AddingAll, Quantities
    <2> HIDE DEF r
    <2>4. ASSUME n # 1, Payable(h, n) PROVE Payable(r.heap, r.node)
      <3> DEFINE t == [v \in Vars |-> B!UsesOfVar(us, Len(us), v)]
      <3>1. t \in [Vars -> Nat]
        <4>1. Len(us) \in Nat
          OBVIOUS
        <4>2. \A v \in Vars : B!UsesOfVar(us, Len(us), v) \in Nat
          BY <4>1, B!OneMoreTime, Quantities
        <4> QED BY <4>2
      <3>2. B!Replaced(h, r.heap, n, r.node)
            /\ (r.heap[r.node].index = h[n].index \/ (r.node = n /\ B!After(h, r.heap, n, t, m)))
        BY <1>0, <2>3
      <3> HIDE DEF t
      <3> QED BY <1>2, <2>4, <3>1, <3>2, PayableKept, Zenon
    <2> QED BY <1>0, <2>3, <2>4 DEF Spent, r
  <1> QED BY <1>1, <1>2

\* One use that is allowed.
LEMMA SpendingOne ==
  ASSUME NEW h \in B!Heap, NEW n \in DOMAIN h, NEW m \in Qty, NEW v \in Vars, U!Allowed(h, n, v, m)
  PROVE  Spent(h, U!Added(h, n, v, m), n, n)
  <1> DEFINE g == U!Added(h, n, v, m)
  <1>1. CASE m = zero
    <2>1. g = h
      BY <1>1 DEF U!Added, zero, U!zero
    <2>2. B!Replaced(h, h, n, n)
      BY DEF B!Replaced
    <2> HIDE DEF g
    <2> QED BY <2>1, <2>2 DEF Spent, g
  <1>2. CASE m # zero
    <2>1. m \in B!Counts
      BY <1>2, Quantities
    <2>2. B!U!Allowed(h, n, v, m) /\ g = B!U!Added(h, n, v, m)
      BY SameSteps
    <2> DEFINE none == [w \in Vars |-> 0]
               t == [none EXCEPT ![v] = @ + 1]
    <2>3. B!After(h, h, n, none, m)
      BY <2>1, B!AfterNothing, Quantities
    <2>4. t \in [Vars -> Nat] /\ none \in [Vars -> Nat]
      OBVIOUS
    <2> HIDE DEF none, g
    <2>5. B!After(h, g, n, t, m)
      BY <2>1, <2>2, <2>3, <2>4, B!AfterOneMore, Quantities
    <2> HIDE DEF t
    <2>6. B!Replaced(h, g, n, n)
      <3>1. g \in B!Heap /\ B!Only(h, g, n)
        BY <2>5 DEF B!After
      <3> QED BY <3>1 DEF B!Only, B!Replaced
    <2> QED BY <1>2, <2>4, <2>5, <2>6, PayableKept DEF Spent, g
  <1> QED BY <1>1, <1>2

LEMMA SpentAgain ==
  ASSUME NEW h \in B!Heap, NEW n \in DOMAIN h, NEW g, NEW x, Spent(h, g, n, x),
         NEW f, NEW y, Spent(g, f, x, y)
  PROVE  Spent(h, f, n, y)
  <1>1. /\ g \in B!Heap /\ DOMAIN h \subseteq DOMAIN g
        /\ x = n \/ x > Len(h)
        /\ x \in DOMAIN g /\ g[x].outer = h[n].outer
        /\ \A i \in DOMAIN h \ {n} : g[i] = h[i]
    BY DEF Spent, B!Replaced
  <1>2. /\ f \in B!Heap /\ DOMAIN g \subseteq DOMAIN f
        /\ y = x \/ y > Len(g)
        /\ y \in DOMAIN f /\ f[y].outer = g[x].outer
        /\ \A i \in DOMAIN g \ {x} : f[i] = g[i]
    BY DEF Spent, B!Replaced
  <1>3. /\ Len(h) \in Nat /\ DOMAIN h = 1..Len(h) /\ Len(g) \in Nat /\ DOMAIN g = 1..Len(g)
        /\ Len(f) \in Nat /\ DOMAIN f = 1..Len(f)
    <2>1. /\ h \in Seq(B!L!NodeOf(B!Counts)) /\ g \in Seq(B!L!NodeOf(B!Counts))
          /\ f \in Seq(B!L!NodeOf(B!Counts))
      BY <1>1, <1>2 DEF B!Heap
    <2> QED BY <2>1
  <1>4. Len(h) <= Len(g)
    <2>1. CASE Len(h) = 0
      BY <1>3, <2>1
    <2>2. CASE Len(h) # 0
      <3>1. Len(h) \in 1..Len(h)
        BY <1>3, <2>2
      <3>2. Len(h) \in 1..Len(g)
        BY <1>1, <1>3, <3>1
      <3> QED BY <1>3, <3>2
    <2> QED BY <2>1, <2>2
  <1>5. y = n \/ y > Len(h)
    <2>1. y \in Nat /\ x \in Nat
      BY <1>1, <1>2, <1>3
    <2> QED BY <1>1, <1>2, <1>3, <1>4, <2>1
  <1>6. ASSUME NEW i \in DOMAIN h \ {n} PROVE f[i] = h[i]
    <2>1. i # x
      BY <1>1, <1>3, <1>6
    <2> QED BY <1>1, <1>2, <2>1
  <1>7. B!Replaced(h, f, n, y)
    BY <1>1, <1>2, <1>5, <1>6 DEF B!Replaced
  <1>8. ASSUME n # 1 PROVE x # 1
    <2>1. 1 <= Len(h)
      BY <1>3
    <2> QED BY <1>1, <1>3, <1>8, <2>1
  <1> QED BY <1>7, <1>8 DEF Spent

\* What becomes of the objects when one of them is charged.
ChargedObject(p, h, us, g, k, x) ==
  LET vs == [us EXCEPT ![k] = x]
  IN  /\ Objects(g, vs) /\ Len(vs) = Len(us)
      /\ k # 1 /\ Unspent(p, h, us) => Unspent(p, g, vs)
      /\ \A i \in 1..(k - 1) : vs[i] = us[i] /\ B!Stays(h, g, us[i])

LEMMA ObjectCharged ==
  ASSUME NEW p, NEW h, NEW us, Objects(h, us), NEW k \in 1..Len(us), Len(us) >= 2,
         NEW g, NEW x, Spent(h, g, us[k], x)
  PROVE  ChargedObject(p, h, us, g, k, x)
  <1> DEFINE vs == [us EXCEPT ![k] = x]
             n == us[k]
  <1>1. /\ h \in B!Heap /\ us \in Seq(DOMAIN h) /\ Len(us) \in Nat /\ DOMAIN us = 1..Len(us)
        /\ k \in DOMAIN us /\ n \in DOMAIN h /\ \A i \in DOMAIN us : us[i] \in DOMAIN h
    BY DEF Objects
  <1>2. /\ g \in B!Heap /\ DOMAIN h \subseteq DOMAIN g
        /\ x = n \/ x > Len(h)
        /\ x \in DOMAIN g /\ g[x].outer = h[n].outer
        /\ \A i \in DOMAIN h \ {n} : g[i] = h[i]
    BY DEF Spent, B!Replaced
  <1>3. /\ DOMAIN vs = 1..Len(us) /\ Len(vs) = Len(us) /\ vs \in Seq(DOMAIN g)
        /\ vs[k] = x /\ \A i \in DOMAIN us : i # k => vs[i] = us[i]
    <2>1. \A i \in 1..Len(us) : vs[i] \in DOMAIN g
      BY <1>1, <1>2
    <2>2. vs = [i \in 1..Len(us) |-> vs[i]]
      BY <1>1
    <2>3. vs \in [1..Len(us) -> DOMAIN g]
      BY <2>1, <2>2
    <2>4. DOMAIN vs = 1..Len(us) /\ vs[k] = x /\ \A i \in DOMAIN us : i # k => vs[i] = us[i]
      BY <1>1
    <2> HIDE DEF vs
    <2>5. vs \in Seq(DOMAIN g)
      BY <1>1, <2>3
    <2> QED BY <1>1, <2>4, <2>5
  <1>4. /\ h \in Seq(B!L!NodeOf(B!Counts)) /\ DOMAIN h = 1..Len(h) /\ Len(h) \in Nat
        /\ B!L!WellFormed(h, B!Counts)
    BY <1>1 DEF B!Heap
  <1> HIDE DEF vs, n
  <1>5. \A i \in DOMAIN us : i # k => us[i] # n
    <2> SUFFICES ASSUME NEW i \in DOMAIN us, i # k PROVE us[i] # us[k]
      BY DEF n
    <2>1. CASE i < k
      <3>1. i \in 1..(k - 1)
        BY <1>1, <2>1
      <3> QED BY <1>1, <3>1 DEF Objects, Apart
    <2>2. CASE k < i
      <3>1. k \in 1..(i - 1)
        BY <1>1, <2>2
      <3> QED BY <1>1, <3>1 DEF Objects, Apart
    <2>3. i \in Nat /\ k \in Nat
      BY <1>1
    <2> QED BY <2>1, <2>2, <2>3
  \* Each object extends what it extended.
  <1>6. ASSUME NEW i \in DOMAIN us PROVE g[vs[i]].outer = h[us[i]].outer
    <2>1. CASE i = k
      BY <1>2, <1>3, <2>1 DEF n
    <2>2. CASE i # k
      BY <1>1, <1>2, <1>3, <1>5, <2>2
    <2> QED BY <2>1, <2>2
  <1>7. ASSUME NEW j \in DOMAIN us, NEW i \in 1..(j - 1) PROVE Apart(g, vs, i, j)
    <2>1. i \in DOMAIN us /\ i # j /\ Apart(h, us, i, j)
      BY <1>1 DEF Objects
    <2>2. \A q \in DOMAIN h[us[i]].outer : h[us[i]].outer[q].node \in DOMAIN h
      <3>1. us[i] \in DOMAIN h
        BY <1>1, <2>1
      <3> QED BY <1>4, <3>1, B!L!OuterNodes, Quantities
    <2>3. B!NotVia(g, vs[i], vs[j])
      <3>1. B!NotVia(h, us[i], us[j])
        BY <2>1 DEF Apart
      <3>2. vs[j] = us[j] \/ vs[j] > Len(h)
        BY <1>2, <1>3, <2>1 DEF n
      <3>3. CASE vs[j] = us[j]
        BY <1>6, <2>1, <3>1, <3>3 DEF B!NotVia
      <3>4. CASE vs[j] > Len(h)
        <4>1. \A q \in DOMAIN h : q # vs[j]
          <5>1. \A q \in 1..Len(h) : q <= Len(h)
            OBVIOUS
          <5>2. vs[j] \in Nat
            <6>1. vs[j] \in DOMAIN g
              BY <1>3
            <6>2. g \in Seq(B!L!NodeOf(B!Counts))
              BY <1>2 DEF B!Heap
            <6> QED BY <6>1, <6>2
          <5> QED BY <1>4, <3>4, <5>1, <5>2
        <4>2. g[vs[i]].outer = h[us[i]].outer
          BY <1>6, <2>1
        <4> QED BY <2>2, <4>1, <4>2 DEF B!NotVia
      <3> QED BY <3>2, <3>3, <3>4
    <2>4. vs[i] # vs[j]
      <3>1. us[i] # us[j] /\ us[i] \in DOMAIN h /\ us[j] \in DOMAIN h
        BY <1>1, <2>1 DEF Apart
      <3>2. (i = k => vs[i] = x /\ vs[j] = us[j]) /\ (j = k => vs[j] = x /\ vs[i] = us[i])
            /\ (i # k /\ j # k => vs[i] = us[i] /\ vs[j] = us[j])
        BY <1>3, <2>1
      <3>3. \A q \in DOMAIN h : x = q => x = n
        BY <1>2, <1>4
      <3> QED BY <1>5, <2>1, <3>1, <3>2, <3>3 DEF n
    <2> QED BY <2>3, <2>4 DEF Apart
  <1>8. Objects(g, vs)
    BY <1>1, <1>2, <1>3, <1>7 DEF Objects
  <1>9. ASSUME NEW i \in 1..(k - 1) PROVE vs[i] = us[i] /\ B!Stays(h, g, us[i])
    <2>1. i \in DOMAIN us /\ i # k /\ Apart(h, us, i, k)
      BY <1>1 DEF Objects
    <2>2. us[i] \in DOMAIN h /\ us[i] # n /\ B!NotVia(h, us[i], n)
      BY <1>1, <1>5, <2>1 DEF Apart, n
    <2>3. B!Replaced(h, g, n, x)
      BY DEF Spent, n
    <2>4. B!Stays(h, g, us[i])
      BY <1>1, <2>2, <2>3, B!OthersStay, Quantities
    <2> QED BY <1>3, <2>1, <2>4
  <1>10. ASSUME k # 1, Unspent(p, h, us) PROVE Unspent(p, g, vs)
    <2>1. 1 \in 1..(k - 1) /\ 1 \in DOMAIN us /\ 2 \in DOMAIN us /\ 1 # k /\ k \in Nat
      BY <1>1, <1>10 DEF Objects
    <2>2. vs[1] = 1 /\ n # 1
      BY <1>3, <1>5, <1>10, <2>1 DEF Unspent
    <2>3. /\ U!H!Levels(g, 1) = U!H!Levels(h, 1)
          /\ \A v \in Vars : U!Count(g, 1, v) = U!Count(h, 1, v)
      <3>1. B!Replaced(h, g, n, x)
        BY DEF Spent, n
      <3> QED BY <1>1, <2>2, <3>1, CallerStays
    <2>4. Payable(g, vs[2])
      <3>1. CASE k = 2
        <4>1. Payable(h, n)
          BY <1>10, <3>1 DEF Unspent, n
        <4> QED BY <1>3, <2>2, <3>1, <4>1 DEF Spent, n
      <3>2. CASE k # 2
        <4>1. vs[2] = us[2] /\ us[2] # n /\ us[2] \in DOMAIN h
          BY <1>1, <1>3, <1>5, <2>1, <3>2
        <4>2. g[us[2]] = h[us[2]] /\ Payable(h, us[2])
          BY <1>2, <1>10, <4>1 DEF Unspent
        <4> QED BY <2>3, <4>1, <4>2 DEF Payable
      <3> QED BY <3>1, <3>2
    <2> QED BY <1>10, <2>2, <2>3, <2>4 DEF Unspent
  <1> QED BY <1>3, <1>8, <1>9, <1>10 DEF ChargedObject, vs

\* What becomes of the objects when a new one extends object k.
AddedObject(h, us, k, g, vs) ==
  /\ Objects(g, vs) /\ Len(vs) = Len(us) + 1
  /\ \A i \in DOMAIN us : vs[i] = us[i] /\ B!Stays(h, g, us[i])
  /\ vs[Len(us) + 1] = Len(h) + 1
  /\ g[Len(h) + 1].outer = U!H!Levels(h, us[k])
  /\ \A v \in Vars : g[Len(h) + 1].index[v] = 0
  /\ Len(us) >= 2 => \A p : Unspent(p, h, us) => Unspent(p, g, vs)

LEMMA ObjectAdded ==
  ASSUME NEW h, NEW us, Objects(h, us), NEW k \in DOMAIN us,
         NEW g, g = Append(h, U!H!ChildNode(h, us[k])), NEW vs, vs = Append(us, Len(h) + 1)
  PROVE  AddedObject(h, us, k, g, vs)
  <1> DEFINE e == Len(h) + 1
  <1>1. /\ h \in B!Heap /\ us \in Seq(DOMAIN h) /\ Len(us) \in Nat /\ DOMAIN us = 1..Len(us)
        /\ \A i \in DOMAIN us : us[i] \in DOMAIN h
    BY DEF Objects
  <1>2. /\ h \in Seq(B!L!NodeOf(B!Counts)) /\ DOMAIN h = 1..Len(h) /\ Len(h) \in Nat
        /\ B!L!WellFormed(h, B!Counts)
    BY <1>1 DEF B!Heap
  <1>3. g = Append(h, B!L!ChildNode(h, us[k]))
    BY SameUsage
  <1>4. /\ B!L!WellFormed(g, B!Counts) /\ Len(g) = e /\ e \in DOMAIN g
        /\ g[e].outer = B!L!Levels(h, us[k]) /\ \A v \in Vars : g[e].index[v] = 0
        /\ \A m \in DOMAIN h : B!L!KeepsNode(h, g, m)
    <2>1. us[k] \in DOMAIN h
      BY <1>1
    <2> DEFINE f == Append(h, B!L!ChildNode(h, us[k]))
    <2>2. /\ B!L!WellFormed(f, B!Counts) /\ Len(f) = Len(h) + 1 /\ Len(h) + 1 \in DOMAIN f
          /\ f[Len(h) + 1].outer = B!L!Levels(h, us[k])
          /\ \A v \in Vars : f[Len(h) + 1].index[v] = 0
          /\ \A m \in DOMAIN h : B!L!KeepsNode(h, f, m)
      BY <1>2, <2>1, B!NewChild, Quantities
    <2>3. g = f
      BY <1>3
    <2> HIDE DEF f
    <2> QED BY <2>2, <2>3
  <1>5. g \in B!Heap
    BY <1>4 DEF B!Heap, B!L!WellFormed
  <1>6. \A i \in DOMAIN h : i \in DOMAIN g /\ B!Stays(h, g, i)
    BY <1>4, B!KeptStays, Quantities DEF B!L!KeepsNode
  <1>7. /\ vs \in Seq(DOMAIN g) /\ Len(vs) = Len(us) + 1 /\ DOMAIN vs = 1..(Len(us) + 1)
        /\ vs[Len(us) + 1] = e /\ \A i \in DOMAIN us : vs[i] = us[i]
    <2>1. us \in Seq(DOMAIN g)
      <3>1. \A i \in 1..Len(us) : us[i] \in DOMAIN g
        BY <1>1, <1>6
      <3> QED BY <1>1, <3>1
    <2>2. e \in DOMAIN g
      BY <1>4
    <2> HIDE DEF e
    <2> QED BY <1>1, <2>1, <2>2 DEF e
  <1>8. ASSUME NEW j \in DOMAIN vs, NEW i \in 1..(j - 1) PROVE Apart(g, vs, i, j)
    <2>1. i \in DOMAIN us /\ vs[i] = us[i] /\ us[i] \in DOMAIN h
      BY <1>1, <1>7
    <2>2. g[us[i]] = h[us[i]]
      BY <1>6, <2>1 DEF B!Stays
    <2>3. CASE j \in DOMAIN us
      <3>1. Apart(h, us, i, j) /\ vs[j] = us[j]
        BY <1>7, <2>3 DEF Objects
      <3> QED BY <2>1, <2>2, <3>1 DEF Apart, B!NotVia
    <2>4. CASE j \notin DOMAIN us
      <3>1. vs[j] = e
        BY <1>1, <1>7, <2>4
      <3>2. \A q \in DOMAIN h[us[i]].outer : h[us[i]].outer[q].node \in DOMAIN h
        BY <1>2, <2>1, B!L!OuterNodes, Quantities
      <3>3. e \notin DOMAIN h
        BY <1>2
      <3> QED BY <2>1, <2>2, <3>1, <3>2, <3>3 DEF Apart, B!NotVia
    <2> QED BY <2>3, <2>4
  <1>9. Objects(g, vs)
    BY <1>5, <1>7, <1>8 DEF Objects
  <1>10. ASSUME Len(us) >= 2, NEW p, Unspent(p, h, us) PROVE Unspent(p, g, vs)
    <2>1. 1 \in DOMAIN us /\ 2 \in DOMAIN us
      BY <1>1, <1>10
    <2>2. vs[1] = 1 /\ vs[2] = us[2] /\ 1 \in DOMAIN h /\ us[2] \in DOMAIN h
      BY <1>1, <1>7, <1>10, <2>1 DEF Unspent
    <2>3. B!Stays(h, g, 1) /\ g[us[2]] = h[us[2]]
      BY <1>6, <2>2 DEF B!Stays
    <2>4. U!H!Levels(g, 1) = U!H!Levels(h, 1) /\ \A v \in Vars : U!Count(g, 1, v) = U!Count(h, 1, v)
      BY <2>3, SameUsage, SameSteps DEF B!Stays
    <2> QED BY <1>10, <2>2, <2>3, <2>4 DEF Unspent, Payable
  <1>11. B!L!Levels(h, us[k]) = U!H!Levels(h, us[k])
    BY DEF B!L!Levels, U!H!Levels
  <1> QED BY <1>1, <1>4, <1>6, <1>7, <1>9, <1>10, <1>11 DEF AddedObject

\* What an object has an entry of its own for.
LEMMA DirectTyped ==
  ASSUME NEW h \in B!Heap, NEW x \in DOMAIN h
  PROVE  LET ds == U!DirectUses(h[x].data)
         IN  /\ ds \in Seq(Vars \X {one})
             /\ \A i \in 1..Len(ds) : h[x].index[ds[i][1]] # 0 /\ B!UsesOfVar(ds, i, ds[i][1]) = 1
  <1> DEFINE es == h[x].data
             ds == U!DirectUses(es)
  <1>1. es \in B!Entries /\ B!Distinct(es) /\ \A i \in DOMAIN es : es[i].key \in Vars /\ h[x].index[es[i].key] # 0
    <2>1. /\ h[x].data \in B!Entries /\ B!Distinct(h[x].data)
          /\ B!KeysOf(h[x].data) = {v \in Vars : h[x].index[v] # 0}
      BY B!OwnEntries, Quantities
    <2>2. \A i \in DOMAIN es : es[i].key \in B!KeysOf(es)
      BY DEF B!KeysOf
    <2> QED BY <2>1, <2>2
  <1>2. ds = B!U!DirectUses(es)
    BY SameUsage
  <1> HIDE DEF es, ds
  <1>3. /\ ds \in Seq(Vars \X {one})
        /\ \A i \in 1..Len(ds) : ds[i][1] = es[i].key /\ B!UsesOfVar(ds, i, ds[i][1]) = 1 /\ i \in DOMAIN es
    <2>1. /\ ds \in Seq(Vars \X {B!one}) /\ Len(ds) = Len(es)
          /\ \A i \in 1..Len(ds) : ds[i][1] = es[i].key /\ B!UsesOfVar(ds, i, ds[i][1]) = 1
      BY <1>1, <1>2, B!DirectUsesOnce, Quantities
    <2>2. es \in Seq(B!L!EntryOf(B!Counts))
      BY <1>1 DEF B!Entries
    <2> QED BY <2>1, <2>2, Quantities
  <1> QED BY <1>1, <1>3 DEF ds, es

\* What the main task spends can be added to the caller's object.
LEMMA Committing ==
  ASSUME NEW p, NEW h, NEW us, Objects(h, us), Len(us) >= 2, Unspent(p, h, us)
  PROVE  U!TryAddAll(h, us[1], U!DirectUses(h[us[2]].data)).ok
  <1> DEFINE x == us[2]
             ds == U!DirectUses(h[x].data)
  <1>1. h \in B!Heap /\ x \in DOMAIN h /\ 1 \in DOMAIN h /\ us[1] = 1 /\ Payable(h, x)
    <2>1. us \in Seq(DOMAIN h) /\ 1 \in 1..Len(us) /\ 2 \in 1..Len(us) /\ us[1] = 1
      BY DEF Objects, Unspent
    <2> QED BY <2>1 DEF Objects, Unspent
  <1> HIDE DEF x
  <1>4. /\ ds \in Seq(Vars \X {one})
        /\ \A i \in 1..Len(ds) : h[x].index[ds[i][1]] # 0 /\ B!UsesOfVar(ds, i, ds[i][1]) = 1
    BY <1>1, DirectTyped
  <1> HIDE DEF ds
  <1>5. ASSUME NEW i \in 1..Len(ds) PROVE ~B!TooMany(h, 1, ds, i, one)
    <2> DEFINE v == ds[i][1]
               c == U!Count(h, 1, v)
    <2>1. v \in Vars /\ h[x].index[v] # 0 /\ B!UsesOfVar(ds, i, v) = 1
      BY <1>4
    <2> HIDE DEF v
    <2>2. c \in Qty /\ Decl[v] \in Qty
      <3>1. B!U!Count(h, 1, v) \in B!Qty
        BY <1>1, <2>1, B!CountFacts, Quantities
      <3> QED BY <2>1, <3>1, SameSteps, Quantities
    <2>3. Decl[v] # many => Decl[v] = one /\ c = zero
      BY <1>1, <2>1 DEF Payable
    <2> HIDE DEF c
    <2>4. Plus(c, Times(1, one)) <= Decl[v]
      BY <2>2, <2>3, Quantities DEF Plus, Times
    <2>5. B!Plus(B!U!Count(h, 1, v), B!Times(B!UsesOfVar(ds, i, v), one)) <= Decl[v]
      BY <2>1, <2>4, SameSteps, Quantities DEF c
    <2> QED BY <2>5 DEF B!TooMany, v
  <1>6. one \in B!Counts
    BY Quantities
  <1>7. B!U!TryAddAll(h, 1, ds).ok
    BY <1>1, <1>4, <1>5, <1>6, B!AddingAll, Quantities
  <1> QED BY <1>1, <1>7, SameUsage DEF ds, x

\* The values that unification gave are charged; the rest is left open.
LEMMA TakingArgs ==
  ASSUME problem.mult \in Qty, NEW h \in B!Heap, NEW n \in DOMAIN h, NEW params \in Seq(Param)
  PROVE  LET r == FoldLeft(TakeArg, [ok |-> TRUE, heap |-> h, node |-> n, args |-> <<>>], params)
         IN  /\ Spent(h, r.heap, n, r.node) /\ r.args \in Seq(Term \union {NoTerm})
             /\ r.ok => /\ Len(r.args) = Len(params)
                        /\ \A i \in 1..Len(params) : r.args[i] = params[i].given
  <1> DEFINE N == Len(params)
             base == [ok |-> TRUE, heap |-> h, node |-> n, args |-> <<>>]
             S == {r \in [ok : BOOLEAN, heap : B!Heap, node : Nat, args : Seq(Term \union {NoTerm})] :
                     Spent(h, r.heap, n, r.node)}
             step == [x \in S \X Param |-> TakeArg(x[1], x[2])]
             body(f) == [s \in SUBSET DOMAIN params |->
                           IF s = {} THEN base ELSE TakeArg(f[s \ {Max(s)}], params[Max(s)])]
             it == CHOOSE f : f = body(f)
  <1>1. FoldLeft(TakeArg, base, params) = it[DOMAIN params]
    BY DEF FoldLeft, MapThenFoldSet, Max
  <1>2. N \in Nat /\ DOMAIN params = 1..N /\ \A i \in 1..N : params[i] \in Param
    OBVIOUS
  <1>3. base \in S
    <2>1. B!Replaced(h, h, n, n) /\ n \in Nat
      BY DEF B!Replaced, B!Heap
    <2>2. Spent(h, h, n, n)
      BY <2>1 DEF Spent
    <2> QED BY <2>1, <2>2
  \* One argument more.
  <1>4. ASSUME NEW r \in S, NEW p \in Param
        PROVE  /\ TakeArg(r, p) \in S
               /\ TakeArg(r, p).ok => r.ok /\ TakeArg(r, p).args = Append(r.args, p.given)
    <2>1. /\ r \in [ok : BOOLEAN, heap : B!Heap, node : Nat, args : Seq(Term \union {NoTerm})]
          /\ Spent(h, r.heap, n, r.node)
      OBVIOUS
    <2>2. /\ p.given \in Term \union {NoTerm} /\ p.relevant \in BOOLEAN
      BY DEF Param
    <2>3. CASE ~r.ok
      <3>1. TakeArg(r, p) = r
        BY <2>3 DEF TakeArg
      <3> QED BY <2>3, <3>1
    <2>4. CASE r.ok /\ p.given # NoTerm
      <3> DEFINE us == U!UsesOf(p.given.vars, problem.mult)
                 a == U!TryAddAll(r.heap, r.node, us)
      <3>1. us \in Seq(Vars \X {problem.mult})
        <4>1. p.given.vars \in Seq(Vars)
          BY <2>2, <2>4 DEF Term
        <4> QED BY <4>1, UsesTyped
      <3>2. r.heap \in B!Heap /\ r.node \in DOMAIN r.heap
        BY <2>1 DEF Spent, B!Replaced
      <3> HIDE DEF us
      <3>3. Spent(r.heap, a.heap, r.node, a.node) /\ a.ok \in BOOLEAN
        BY <3>1, <3>2, Spending
      <3>4. Spent(h, a.heap, n, a.node)
        BY <2>1, <3>3, SpentAgain
      <3>5. TakeArg(r, p) = [ok |-> a.ok, heap |-> a.heap, node |-> a.node,
                             args |-> Append(r.args, p.given)]
        BY <2>4 DEF TakeArg, us
      <3> HIDE DEF a
      <3>6. a.heap \in B!Heap /\ a.node \in Nat
        BY <3>3 DEF Spent, B!Replaced, B!Heap
      <3>7. Append(r.args, p.given) \in Seq(Term \union {NoTerm})
        BY <2>1, <2>2
      <3> QED BY <2>4, <3>3, <3>4, <3>5, <3>6, <3>7
    <2>5. CASE r.ok /\ p.given = NoTerm
      <3> DEFINE y == [ok |-> ~p.relevant, heap |-> r.heap, node |-> r.node,
                       args |-> Append(r.args, NoTerm)]
      <3>1. TakeArg(r, p) = y
        BY <2>1, <2>5 DEF TakeArg
      <3>2. y \in S
        <4>1. Append(r.args, NoTerm) \in Seq(Term \union {NoTerm})
          BY <2>1
        <4> QED BY <2>1, <2>2, <4>1
      <3> QED BY <2>5, <3>1, <3>2
    <2> QED BY <2>1, <2>3, <2>4, <2>5
  <1> HIDE DEF base, S, N
  <1>5. step \in [S \X Param -> S]
    BY <1>4
  <1>6. \E f : f = body(f)
    <2>1. PICK f \in [SUBSET (1..N) -> S] : L!FoldsBy(f, N, base, step, params)
      BY <1>3, <1>5, L!FoldExists DEF N
    <2>2. ASSUME NEW s \in SUBSET DOMAIN params
          PROVE  f[s] = IF s = {} THEN base ELSE TakeArg(f[s \ {Max(s)}], params[Max(s)])
      <3>1. f[s] = IF s = {} THEN base ELSE step[<<f[s \ {Max(s)}], params[Max(s)]>>]
        BY <1>2, <2>1 DEF L!FoldsBy, Max, L!Max
      <3>2. CASE s # {}
        <4>1. f[s \ {Max(s)}] \in S /\ Max(s) \in 1..N
          <5>1. s \in SUBSET (1..N) /\ s \ {Max(s)} \in SUBSET (1..N)
            BY <1>2
          <5>2. L!Max(s) \in s
            BY <1>2, <3>2, <5>1, L!GreatestOf
          <5> QED BY <5>1, <5>2 DEF Max, L!Max
        <4>2. params[Max(s)] \in Param
          BY <1>2, <4>1
        <4> QED BY <3>1, <3>2, <4>1, <4>2
      <3> QED BY <3>1, <3>2
    <2>3. f = body(f)
      BY <1>2, <2>1, <2>2
    <2> QED BY <2>3
  <1>7. it = body(it)
    <2> HIDE DEF body
    <2> QED BY <1>6
  <1> HIDE DEF it, step
  <1>8. it[1..0] = base /\ \A i \in 1..N : it[1..i] = TakeArg(it[1..(i - 1)], params[i])
    <2>1. it[1..0] = base
      <3>1. 1..0 = {} /\ {} \in SUBSET DOMAIN params
        OBVIOUS
      <3> QED BY <1>7, <3>1
    <2>2. ASSUME NEW i \in 1..N PROVE it[1..i] = TakeArg(it[1..(i - 1)], params[i])
      <3>1. i \in Nat \ {0} /\ 1..i \in SUBSET DOMAIN params /\ 1..i # {}
        <4>1. i \in Nat \ {0} /\ 1..i \subseteq 1..N /\ 1 \in 1..i
          BY <1>2
        <4> QED BY <1>2, <4>1
      <3>2. Max(1..i) = i /\ (1..i) \ {i} = 1..(i - 1)
        BY <3>1, L!MaxUpTo DEF Max, L!Max
      <3> QED BY <1>7, <3>1, <3>2
    <2> QED BY <2>1, <2>2
  <1> HIDE DEF body
  <1> DEFINE Taken(i) == /\ it[1..i] \in S
                         /\ it[1..i].ok => /\ Len(it[1..i].args) = i
                                           /\ \A j \in 1..i : it[1..i].args[j] = params[j].given
             Good1 == {i \in 0..N : Taken(i)}
  <1>9. 0 \in Good1
    <2>1. it[1..0] \in S /\ it[1..0].args = <<>>
      BY <1>3, <1>8 DEF base
    <2> QED BY <1>2, <2>1
  <1>10. ASSUME NEW i \in 0..(N - 1), i \in Good1 PROVE i + 1 \in Good1
    <2>1. i \in Nat /\ i + 1 \in 1..N /\ (i + 1) - 1 = i /\ i + 1 \in 0..N
      BY <1>2
    <2> DEFINE q == it[1..i]
               t == it[1..(i + 1)]
               v == params[i + 1].given
    <2>2. t = TakeArg(q, params[i + 1]) /\ params[i + 1] \in Param /\ q \in S
      BY <1>2, <1>8, <1>10, <2>1
    <2>3. t \in S /\ (t.ok => q.ok /\ t.args = Append(q.args, v))
      BY <1>4, <2>2
    <2>4. ASSUME t.ok
          PROVE  Len(t.args) = i + 1 /\ \A j \in 1..(i + 1) : t.args[j] = params[j].given
      <3>1. /\ Len(q.args) = i /\ q.args \in Seq(Term \union {NoTerm})
            /\ \A j \in 1..i : q.args[j] = params[j].given
            /\ t.args = Append(q.args, v)
        BY <1>10, <2>2, <2>3, <2>4 DEF S
      <3> HIDE DEF q, t, v
      <3>2. Len(t.args) = i + 1 /\ t.args[i + 1] = v /\ \A j \in 1..i : t.args[j] = q.args[j]
        BY <2>1, <3>1
      <3>3. \A j \in 1..(i + 1) : j \in 1..i \/ j = i + 1
        BY <2>1
      <3> QED BY <3>1, <3>2, <3>3 DEF v
    <2> QED BY <2>1, <2>3, <2>4
  <1>11. Taken(N)
    <2>1. \A i \in 0..N : i \in Good1
      <3> HIDE DEF Good1
      <3> QED BY <1>2, <1>9, <1>10, L!UpTo
    <2>2. N \in Good1
      BY <1>2, <2>1
    <2> QED BY <2>2
  <1> QED BY <1>1, <1>2, <1>11 DEF S, N, base

\* The objects when a search begins.
LEMMA Beginning ==
  ASSUME Init
  PROVE  /\ Objects(heap, uses) /\ Len(uses) = 2 /\ problem \in Problems /\ problem \in Problem
         /\ Unspent(problem, heap, uses)
  <1> DEFINE root == <<U!H!RootNode>>
             us == U!UsesOf(problem.before, one)
             caller == U!AddInTurn(root, 1, us).heap
  <1>1. /\ problem \in Problems /\ problem \in Problem /\ \A v \in Vars : Before(problem, v) <= Decl[v]
        /\ problem.before \in Seq(Vars)
        /\ heap = Append(caller, U!H!ChildNode(caller, 1)) /\ uses = <<1, 2>>
    BY ProblemsAssumption DEF Init, Problem
  <1>2. us \in Seq(Vars \X {one}) /\ Len(us) = Len(problem.before) /\ DOMAIN problem.before = 1..Len(us)
        /\ \A i \in 1..Len(us) : us[i][1] = problem.before[i]
    BY <1>1, UsesTyped
  <1>3. /\ root \in B!Heap /\ 1 \in DOMAIN root /\ Len(root) = 1
        /\ \A v \in Vars : U!Count(root, 1, v) = zero
    <2>1. root = <<B!L!RootNode>>
      BY SameUsage
    <2> HIDE DEF root
    <2>2. /\ B!L!WellFormed(root, B!Counts) /\ Len(root) = 1 /\ DOMAIN root = {1}
          /\ \A k \in Vars : \A none : B!L!Value(root, 1, k, none) = none
      BY <2>1, B!L!RootAlone, Quantities
    <2>3. root \in B!Heap
      BY <2>2 DEF B!Heap, B!L!WellFormed
    <2>4. \A v \in Vars : U!Count(root, 1, v) = zero
      <3> TAKE v \in Vars
      <3>1. B!U!Count(root, 1, v) = B!L!Value(root, 1, v, B!zero)
        BY B!SameOperators, Quantities
      <3> QED BY <2>2, <3>1, SameSteps, Quantities
    <2> QED BY <2>2, <2>3, <2>4
  <1> HIDE DEF us, root
  <1>4. ASSUME NEW v \in Vars
        PROVE  /\ B!UsesOfVar(us, Len(us), v) \in Nat
               /\ Before(problem, v) = Times(B!UsesOfVar(us, Len(us), v), one)
    <2>1. Len(us) \in Nat
      BY <1>2
    <2>2. {i \in DOMAIN problem.before : problem.before[i] = v} = {j \in 1..Len(us) : us[j][1] = v}
      BY <1>2
    <2>3. B!UsesOfVar(us, Len(us), v) \in Nat
      BY <2>1, B!OneMoreTime, Quantities
    <2> QED BY <2>2, <2>3, SameCardinality DEF Before, B!UsesOfVar
  <1>5. PICK t \in [Vars -> Nat] :
          LET r == B!U!AddInTurn(root, 1, us)
          IN  /\ B!After(root, r.heap, 1, t, one)
              /\ r.ok => t = [v \in Vars |-> B!UsesOfVar(us, Len(us), v)]
              /\ ~r.ok => \E i \in 1..Len(us) : B!TooMany(root, 1, us, i, one)
    <2>1. one \in B!Counts
      BY Quantities
    <2> QED BY <1>2, <1>3, <2>1, B!AddingInTurn, Quantities
  <1>6. ASSUME NEW i \in 1..Len(us) PROVE ~B!TooMany(root, 1, us, i, one)
    <2> DEFINE v == us[i][1]
               k == B!UsesOfVar(us, i, v)
               n == B!UsesOfVar(us, Len(us), v)
    <2>1. v \in Vars
      BY <1>2
    <2> HIDE DEF v
    <2>2. k \in Nat /\ n \in Nat /\ k <= n
      <3> DEFINE A == {j \in 1..i : us[j][1] = v}
                 C == {j \in 1..Len(us) : us[j][1] = v}
      <3>1. k = Cardinality(A) /\ n = Cardinality(C)
        BY SameCardinality DEF B!UsesOfVar
      <3>2. A \subseteq C /\ C \in SUBSET (1..Len(us)) /\ Len(us) \in Nat
        BY <1>2
      <3>3. IsFiniteSet(C)
        <4> HIDE DEF A, C
        <4> QED BY <3>2, RankGrows
      <3> HIDE DEF A, C
      <3> QED BY <3>1, <3>2, <3>3, FS_Subset, FS_CardinalityType
    <2>3. Times(n, one) <= Decl[v] /\ Decl[v] \in Qty
      BY <1>1, <1>4, <2>1, Quantities
    <2> HIDE DEF k, n
    <2>4. Plus(zero, Times(k, one)) <= Decl[v]
      <3>1. Decl[v] \in {0, 1, 2} /\ (IF n < 2 THEN n ELSE 2) <= Decl[v]
        BY <2>2, <2>3, Quantities DEF Times
      <3>2. (IF k < 2 THEN k ELSE 2) <= Decl[v]
        BY <2>2, <3>1
      <3>3. Times(k, one) = (IF k < 2 THEN k ELSE 2) /\ Plus(zero, Times(k, one)) = Times(k, one)
        BY <2>2, Quantities DEF Times, Plus
      <3> QED BY <3>2, <3>3
    <2>5. B!U!Count(root, 1, v) = zero
      BY <1>3, <2>1, SameSteps
    <2>6. B!Plus(B!U!Count(root, 1, v), B!Times(k, one)) <= Decl[v]
      BY <2>4, <2>5, Quantities
    <2> QED BY <2>6 DEF B!TooMany, v, k
  <1>7. /\ t = [v \in Vars |-> B!UsesOfVar(us, Len(us), v)]
        /\ B!After(root, caller, 1, t, one)
    BY <1>5, <1>6, SameAdding
  <1> HIDE DEF caller
  <1>8. caller \in B!Heap /\ DOMAIN caller = DOMAIN root /\ Len(caller) = 1
    BY <1>3, <1>7 DEF B!After, B!Only
  <1>9. ASSUME NEW v \in Vars PROVE U!Count(caller, 1, v) = Before(problem, v)
    <2>1. B!U!Count(caller, 1, v) = B!Plus(B!U!Count(root, 1, v), B!Times(t[v], one))
      BY <1>7 DEF B!After
    <2>2. B!U!Count(root, 1, v) = zero /\ t[v] = B!UsesOfVar(us, Len(us), v)
      BY <1>3, <1>7, SameSteps
    <2>3. Plus(zero, Times(t[v], one)) = Times(t[v], one)
      <3>1. t[v] \in Nat
        BY <1>4, <2>2
      <3> QED BY <3>1, Quantities DEF Plus, Times
    <2> QED BY <1>4, <2>1, <2>2, <2>3, SameSteps, Quantities
  <1>10. Objects(caller, <<1>>)
    <2>1. <<1>> \in Seq(DOMAIN caller) /\ DOMAIN <<1>> = {1} /\ \A j \in {1} : 1..(j - 1) = {}
      BY <1>3, <1>8
    <2> QED BY <1>8, <2>1 DEF Objects
  <1>11. /\ Objects(heap, uses) /\ B!Stays(caller, heap, 1)
         /\ heap[2].outer = U!H!Levels(caller, 1) /\ \A v \in Vars : heap[2].index[v] = 0
    <2>1. uses = Append(<<1>>, Len(caller) + 1) /\ 1 \in DOMAIN <<1>> /\ <<1>>[1] = 1 /\ Len(caller) + 1 = 2
      BY <1>1, <1>8
    <2>2. heap = Append(caller, U!H!ChildNode(caller, <<1>>[1]))
      BY <1>1, <2>1
    <2>3. AddedObject(caller, <<1>>, 1, heap, uses)
      BY <1>10, <2>1, <2>2, ObjectAdded, Zenon
    <2> QED BY <2>1, <2>3 DEF AddedObject
  <1>12. /\ U!H!Levels(heap, 1) = U!H!Levels(caller, 1)
         /\ \A v \in Vars : U!Count(heap, 1, v) = U!Count(caller, 1, v)
    <2>1. /\ B!U!H!Levels(heap, 1) = B!U!H!Levels(caller, 1)
          /\ \A v \in Vars : B!U!Count(heap, 1, v) = B!U!Count(caller, 1, v)
      BY <1>11 DEF B!Stays
    <2> QED BY <2>1, SameUsage, SameSteps
  <1> QED BY <1>1, <1>9, <1>11, <1>12 DEF Unspent, Payable

-----------------------------------------------------------------------------
(* What steps have in common.                                               *)

\* Objects older than that of the pending call's task are not touched.
OlderStay ==
  \A k \in 1..(Me.use - 1) : \A v \in Vars :
    U!Count(heap', uses'[k], v) = U!Count(heap, uses[k], v)

\* A step that leaves the usage objects alone.
LEMMA UsageKept ==
  ASSUME UsageSound, UNCHANGED <<problem, heap, uses, outcome>>, Placed(tasks', Len(uses))
  PROVE  UsageSound' /\ OlderStay
BY DEF UsageSound, OlderStay

\* A step that adds something to the usage object of the pending call's task.
LEMMA UsageCharged ==
  ASSUME Inv, calls # <<>>, UNCHANGED <<problem, outcome>>, Placed(tasks', Len(uses)),
         NEW x, Spent(heap, heap', uses[Me.use], x), uses' = [uses EXCEPT ![Me.use] = x]
  PROVE  UsageSound' /\ OlderStay
  <1>1. Me.use \in 2..Len(uses)
    BY CallFacts DEF Inv, UsageSound, Placed, Me
  <1>2. Objects(heap, uses)
    BY DEF Inv, UsageSound
  <1>3. Me.use \in 1..Len(uses) /\ Len(uses) >= 2 /\ Me.use # 1
    <2>1. Len(uses) \in Nat
      BY <1>2 DEF Objects
    <2> QED BY <1>1, <2>1
  <1>6. ChargedObject(problem, heap, uses, heap', Me.use, x)
    BY <1>2, <1>3, ObjectCharged, Zenon
  <1>4. /\ Objects(heap', uses') /\ Len(uses') = Len(uses)
        /\ Unspent(problem, heap, uses) => Unspent(problem, heap', uses')
    BY <1>3, <1>6 DEF ChargedObject
  <1>5. Len(uses) >= 2 /\ (outcome \in {Searching, NoneFound} => Unspent(problem, heap, uses))
    BY DEF Inv, UsageSound
  <1>7. OlderStay
    <2>1. \A i \in 1..(Me.use - 1) : uses'[i] = uses[i] /\ B!Stays(heap, heap', uses[i])
      BY <1>6 DEF ChargedObject
    <2>2. ASSUME NEW k \in 1..(Me.use - 1), NEW v \in Vars
          PROVE  U!Count(heap', uses'[k], v) = U!Count(heap, uses[k], v)
      <3>1. uses'[k] = uses[k] /\ B!Stays(heap, heap', uses[k])
        BY <2>1
      <3>2. B!U!Count(heap', uses[k], v) = B!U!Count(heap, uses[k], v)
        BY <3>1 DEF B!Stays
      <3>3. U!Count(heap', uses[k], v) = U!Count(heap, uses[k], v)
        BY <3>2, SameSteps, Zenon
      <3> QED BY <3>1, <3>3
    <2> QED BY <2>2 DEF OlderStay
  <1> QED BY <1>4, <1>5, <1>7 DEF UsageSound

\* The usage object of the pending call's task.
LEMMA OwnObject ==
  ASSUME Inv, calls # <<>>
  PROVE  /\ heap \in B!Heap /\ uses[Me.use] \in DOMAIN heap /\ Me.use \in 2..Len(uses)
         /\ uses \in Seq(DOMAIN heap) /\ problem.mult \in Qty /\ problem \in Problem
  <1>1. Me.use \in 2..Len(uses) /\ Len(uses) \in Nat
    <2>1. uses \in Seq(DOMAIN heap)
      BY DEF Inv, UsageSound, Objects
    <2> QED BY <2>1, CallFacts DEF Inv, UsageSound, Placed, Me
  <1>2. heap \in B!Heap /\ uses \in Seq(DOMAIN heap)
    BY DEF Inv, UsageSound, Objects
  <1>3. problem \in Problem
    BY ProblemsAssumption DEF Inv, TasksSound
  <1>4. problem.mult \in Qty
    BY <1>3 DEF Problem
  <1> QED BY <1>1, <1>2, <1>3, <1>4

LEMMA FailedSound ==
  ASSUME Inv, calls # <<>>, SetFailed
  PROVE  TasksSound' /\ Placed(tasks', Len(uses)) /\ UNCHANGED <<problem, outcome>>
  <1>1. Me \in Task /\ Me = tasks[Call.task] /\ TasksSound /\ Me.result \in Term \union {NoTerm}
    <2>1. Me \in Task /\ TasksSound
      BY CallFacts DEF Inv
    <2> QED BY <2>1 DEF Task, Me
  <1> DEFINE s == "failed"
  <1>2. s \in Statuses /\ s = "failed"
    BY DEF Statuses
  <1> HIDE DEF s
  <1> DEFINE y == [[Me EXCEPT !.status = s] EXCEPT !.result = Me.result]
  <1>3. EndedTask(Me, y, s, Me.result)
    BY <1>1, <1>2, Ended
  <1>4. TasksEnded
    <2>1. y = [Me EXCEPT !.status = s]
      <3> DEFINE x == [Me EXCEPT !.status = s]
      <3>1. x \in Task
        BY <1>1, <1>2 DEF Task
      <3>2. x.result = Me.result
        BY <1>1 DEF Task
      <3> HIDE DEF x
      <3>3. x = [x EXCEPT !.result = Me.result]
        BY <3>1, <3>2 DEF Task
      <3> QED BY <3>3 DEF x
    <2>2. tasks' = [tasks EXCEPT ![Call.task] = [Me EXCEPT !.status = s]]
      BY <1>1, <1>2 DEF SetFailed
    <2> HIDE DEF y
    <2>3. tasks' = [tasks EXCEPT ![Call.task] = y]
      BY <2>1, <2>2
    <2> QED BY <1>1, <1>2, <1>3, <2>3, TaskEnds
  <1>5. Returns /\ UNCHANGED <<problem, cache, outcome>>
    BY DEF SetFailed
  <1>6. TasksSound'
    <2>1. cache' \in [Targets -> Term \union {NoTerm}]
          /\ \A t \in Targets : cache'[t] # NoTerm => Fits(problem, cache'[t], t)
      BY <1>1, <1>5 DEF TasksSound
    <2> QED BY <1>1, <1>4, <1>5, <2>1, TasksReturn DEF TasksEnded
  <1>7. Placed(tasks', Len(uses))
    BY <1>4 DEF TasksEnded, Inv, UsageSound, Placed, Grown, SameTask, SameShape
  <1> QED BY <1>5, <1>6, <1>7

LEMMA ResultSound ==
  ASSUME Inv, calls # <<>>, NEW term, SetResult(term), Fits(problem, term, Me.target)
  PROVE  TasksSound' /\ Placed(tasks', Len(uses)) /\ UNCHANGED <<problem, outcome>>
  <1>1. Me \in Task /\ Me = tasks[Call.task] /\ TasksSound /\ term \in Term
    BY CallFacts DEF Inv, Me, Fits
  <1> DEFINE s == "succeeded"
  <1>2. s \in Statuses /\ s = "succeeded"
    BY DEF Statuses
  <1> HIDE DEF s
  <1> DEFINE y == [[Me EXCEPT !.status = s] EXCEPT !.result = term]
  <1>3. TasksEnded
    <2>1. EndedTask(Me, y, s, term)
      BY <1>1, <1>2, Ended
    <2>2. y = [Me EXCEPT !.status = "succeeded", !.result = term]
      BY <1>2
    <2>3. tasks' = [tasks EXCEPT ![Call.task] = [Me EXCEPT !.status = "succeeded", !.result = term]]
      BY <1>1 DEF SetResult
    <2> HIDE DEF y
    <2>4. tasks' = [tasks EXCEPT ![Call.task] = y]
      BY <2>2, <2>3
    <2> QED BY <1>1, <2>1, <2>4, TaskEnds
  <1>4. Returns /\ UNCHANGED <<problem, outcome>>
        /\ cache' = [cache EXCEPT ![Me.target] = IF @ = NoTerm THEN term ELSE @]
    BY DEF SetResult
  <1>5. TasksSound'
    <2>1. cache \in [Targets -> Term \union {NoTerm}] /\ Me.target \in Targets
          /\ \A t \in Targets : cache[t] # NoTerm => Fits(problem, cache[t], t)
      BY <1>1 DEF TasksSound, Task
    <2>2. cache' \in [Targets -> Term \union {NoTerm}]
          /\ \A t \in Targets : cache'[t] = cache[t] \/ (t = Me.target /\ cache'[t] = term)
      BY <1>1, <1>4, <2>1
    <2>3. \A t \in Targets : cache'[t] # NoTerm => Fits(problem, cache'[t], t)
      BY <2>1, <2>2
    <2> QED BY <1>1, <1>3, <1>4, <2>2, <2>3, TasksReturn DEF TasksEnded
  <1>6. Placed(tasks', Len(uses))
    BY <1>3 DEF TasksEnded, Inv, UsageSound, Placed, Grown, SameTask, SameShape
  <1> QED BY <1>4, <1>5, <1>6

LEMMA AnySound ==
  ASSUME Inv, calls # <<>>, Me.kind = "one", NEW new, Waits("any", new, 0, <<>>),
         NewTasks(problem, new, Call.task, Me.use), \A i \in DOMAIN new : new[i].target = Me.target
  PROVE  TasksSound' /\ Placed(tasks', Len(uses)) /\ UNCHANGED <<problem, outcome>>
  <1>1. TasksSound /\ <<>> \in Seq(Term \union {NoTerm}) /\ 0 \in Nat
    BY DEF Inv
  <1>2. TasksSound' /\ TasksWait("any", 0)
    BY <1>1, TaskWaits
  <1>3. Placed(tasks', Len(uses))
    <2>1. Me.use \in 2..Len(uses)
      BY OwnObject
    <2>2. ASSUME NEW t \in DOMAIN tasks'
          PROVE  tasks'[t].use \in 2..Len(uses) /\ (tasks'[t].kind = "all" => tasks'[t].temp <= Len(uses))
      <3>1. CASE t \notin DOMAIN tasks \/ t = Call.task
        BY <1>2, <2>1, <3>1 DEF TasksWait
      <3>2. CASE t \in DOMAIN tasks /\ t # Call.task
        BY <1>2, <3>2 DEF Inv, UsageSound, Placed, TasksWait
      <3> QED BY <3>1, <3>2
    <2> QED BY <2>2 DEF Placed
  <1>4. UNCHANGED <<problem, outcome>>
    BY DEF Waits
  <1> QED BY <1>2, <1>3, <1>4

\* A task that has not begun.
FreshTask(x, tactic, name, parent, target, use) ==
  /\ x \in Task /\ x.kind = "one" /\ x.status = "in_progress" /\ x.parent = parent
  /\ x.use = use /\ x.target = target /\ x.tactic = tactic /\ x.name = name

LEMMA NothingYet == <<>> \in Seq(Nat) /\ <<>> \in Seq(Term \union {NoTerm})
OBVIOUS

LEMMA OneTask ==
  ASSUME NEW tactic \in Tactics, NEW name \in STRING \union {""}, NEW parent \in Nat,
         NEW target \in Targets, NEW depth \in Nat, NEW use \in Nat
  PROVE  FreshTask(NewTask(tactic, name, parent, target, depth, use),
                   tactic, name, parent, target, use)
  <1> DEFINE x == NewTask(tactic, name, parent, target, depth, use)
  <1>1. /\ "one" \in Kinds /\ "in_progress" \in Statuses
        /\ <<>> \in Seq(Nat) /\ <<>> \in Seq(Term \union {NoTerm})
    BY NothingYet DEF Kinds, Statuses
  <1>2. x = [kind |-> "one", tactic |-> tactic, name |-> name, parent |-> parent,
             target |-> target, depth |-> depth, use |-> use, status |-> "in_progress",
             result |-> NoTerm, subs |-> <<>>, temp |-> 0, args |-> <<>>]
    BY DEF NewTask
  <1> HIDE DEF x
  <1>3. x \in Task
    BY <1>1, <1>2 DEF Task
  <1>4. /\ x.kind = "one" /\ x.status = "in_progress" /\ x.parent = parent
        /\ x.use = use /\ x.target = target /\ x.tactic = tactic /\ x.name = name
    BY <1>2
  <1>5. FreshTask(x, tactic, name, parent, target, use)
    BY <1>3, <1>4 DEF FreshTask
  <1> QED BY <1>5 DEF x

-----------------------------------------------------------------------------
(* The tactics.                                                             *)

\* A call that begins.
LEMMA Beginners ==
  ASSUME Inv, NEW tactic, Runs(tactic)
  PROVE  /\ calls # <<>> /\ Me.kind = "one" /\ Me.tactic = tactic /\ Me \in Task
         /\ Call.task \in DOMAIN tasks /\ Call.task \in Nat /\ Me.target \in Targets
         /\ Me.depth \in Nat /\ Me.use \in Nat /\ Good(problem, tasks, Call.task)
  <1>1. calls # <<>> /\ Me.kind = "one" /\ Me.tactic = tactic
    BY DEF Runs, Begins
  <1>2. Me \in Task /\ Call.task \in DOMAIN tasks /\ Call.task \in Nat
        /\ Good(problem, tasks, Call.task)
    BY <1>1, CallFacts DEF Inv, Frame
  <1> QED BY <1>1, <1>2 DEF Task

LEMMA SearchWithKeeps ==
  ASSUME Inv, NEW tactic, Runs(tactic), NEW tactics \in Seq(Tactics \ {"try_apply"}),
         SearchWith(tactics)
  PROVE  Inv' /\ OlderStay
  <1> DEFINE hit == cache[Me.target]
             r == Charged(hit)
             new == [i \in DOMAIN tactics |-> SubTask(tactics[i])]
  <1>1. /\ calls # <<>> /\ Me.kind = "one" /\ Me.target \in Targets /\ Me.use \in Nat
        /\ Me.depth \in Nat /\ Call.task \in Nat
    BY Beginners
  <1>2. hit # NoTerm =>
          /\ Fits(problem, hit, Me.target)
          /\ Spent(heap, r.heap, uses[Me.use], r.node)
    <2> SUFFICES ASSUME hit # NoTerm
                 PROVE  /\ Fits(problem, hit, Me.target)
                        /\ Spent(heap, r.heap, uses[Me.use], r.node)
      OBVIOUS
    <2>1. Fits(problem, hit, Me.target)
      BY <1>1 DEF Inv, TasksSound
    <2>2. hit.vars \in Seq(Vars)
      BY <2>1 DEF Fits, Term
    <2> HIDE DEF hit
    <2> DEFINE us == U!UsesOf(hit.vars, problem.mult)
    <2>3. us \in Seq(Vars \X {problem.mult})
      BY <2>2, UsesTyped
    <2> HIDE DEF us
    <2>4. Spent(heap, U!TryAddAll(heap, uses[Me.use], us).heap, uses[Me.use],
                U!TryAddAll(heap, uses[Me.use], us).node)
      BY <1>1, <2>3, OwnObject, Spending
    <2>5. r = U!TryAddAll(heap, uses[Me.use], us)
      BY DEF Charged, us
    <2> QED BY <2>1, <2>4, <2>5
  <1>3. /\ NewTasks(problem, new, Call.task, Me.use)
        /\ \A i \in DOMAIN new : new[i].target = Me.target
    <2>1. ASSUME NEW i \in DOMAIN tactics
          PROVE  /\ SubTask(tactics[i]) \in Task /\ SubTask(tactics[i]).kind = "one"
                 /\ SubTask(tactics[i]).status = "in_progress"
                 /\ SubTask(tactics[i]).parent = Call.task /\ SubTask(tactics[i]).use = Me.use
                 /\ SubTask(tactics[i]).target = Me.target
                 /\ SubTask(tactics[i]).tactic # "try_apply"
      <3>1. tactics[i] \in Tactics /\ tactics[i] # "try_apply"
        OBVIOUS
      <3> DEFINE name == ""
      <3>2. name \in STRING \union {""} /\ Me.depth + 1 \in Nat
        BY <1>1
      <3>3. SubTask(tactics[i]) = NewTask(tactics[i], name, Call.task, Me.target, Me.depth + 1, Me.use)
        BY DEF SubTask
      <3> HIDE DEF name
      <3>4. FreshTask(SubTask(tactics[i]), tactics[i], name, Call.task, Me.target, Me.use)
        BY <1>1, <3>1, <3>2, <3>3, OneTask
      <3> QED BY <3>1, <3>4 DEF FreshTask
    <2>2. new \in Seq(Task)
      BY <2>1
    <2> QED BY <2>1, <2>2 DEF NewTasks, Applies
  <1> HIDE DEF hit, r, new
  <1>4. CASE /\ hit # NoTerm /\ r.ok
             /\ Overwrite(r)
             /\ SetResult(hit)
    <2>1. TasksSound' /\ Placed(tasks', Len(uses)) /\ UNCHANGED <<problem, outcome>>
      BY <1>1, <1>2, <1>4, ResultSound
    <2>2. heap' = r.heap /\ uses' = [uses EXCEPT ![Me.use] = r.node]
      BY <1>4 DEF Overwrite
    <2>3. UsageSound' /\ OlderStay
      BY <1>1, <1>2, <1>4, <2>1, <2>2, UsageCharged
    <2> QED BY <2>1, <2>3 DEF Inv
  <1>5. CASE /\ IF hit = NoTerm THEN UNCHANGED usage ELSE ~r.ok /\ Overwrite(r)
             /\ IF DetectLoop THEN SetFailed ELSE Waits("any", new, 0, <<>>)
    <2>1. TasksSound' /\ Placed(tasks', Len(uses)) /\ UNCHANGED <<problem, outcome>>
      BY <1>1, <1>3, <1>5, FailedSound, AnySound
    <2>2. UsageSound' /\ OlderStay
      <3>1. CASE hit = NoTerm
        BY <1>5, <2>1, <3>1, UsageKept DEF Inv, usage
      <3>2. CASE hit # NoTerm
        <4>1. heap' = r.heap /\ uses' = [uses EXCEPT ![Me.use] = r.node]
          BY <1>5, <3>2 DEF Overwrite
        <4> QED BY <1>1, <1>2, <2>1, <3>2, <4>1, UsageCharged
      <3> QED BY <3>1, <3>2
    <2> QED BY <2>1, <2>2 DEF Inv
  <1> QED BY <1>4, <1>5 DEF SearchWith, hit, r, new

LEMMA SearchVarKeeps == Inv /\ SearchVar => Inv' /\ OlderStay
  <1> SUFFICES ASSUME Inv, SearchVar PROVE Inv' /\ OlderStay
    OBVIOUS
  <1>1. calls # <<>> /\ Me.target \in Targets /\ Runs("search_var")
    BY Beginners DEF SearchVar
  <1>2. CASE \E i \in DOMAIN problem.ctx : Usable(problem.ctx[i])
    <2> DEFINE i == SelectInSeq(problem.ctx, Usable)
    <2>1. i \in DOMAIN problem.ctx /\ Usable(problem.ctx[i])
      <3> DEFINE I == {k \in 1..Len(problem.ctx) : Usable(problem.ctx[k])}
      <3>1. problem.ctx \in Seq([var : Vars, type : Targets]) /\ Len(problem.ctx) \in Nat
        BY <1>1, OwnObject DEF Problem
      <3>2. I # {} /\ I \in SUBSET Nat
        BY <1>2, <3>1
      <3>3. i = CHOOSE k \in I : \A j \in I : k <= j
        BY <3>2 DEF SelectInSeq, Min
      <3> HIDE DEF I, i
      <3>4. \E k \in I : \A j \in I : k <= j
        BY <3>2, L!LeastOf
      <3>5. i \in I
        BY <3>3, <3>4
      <3> QED BY <3>1, <3>5 DEF I
    <2> HIDE DEF i
    <2> DEFINE d == problem.ctx[i]
    <2>2. /\ d \in [var : Vars, type : Targets] /\ d.type = Me.target
          /\ U!Allowed(heap, uses[Me.use], d.var, problem.mult)
      <3>1. problem.ctx \in Seq([var : Vars, type : Targets])
        BY <1>1, OwnObject DEF Problem
      <3>2. d \in [var : Vars, type : Targets]
        <4>1. ASSUME NEW R, NEW q \in Seq(R), NEW k \in DOMAIN q PROVE q[k] \in R
          OBVIOUS
        <4> QED BY <2>1, <3>1, <4>1, Zenon
      <3> QED BY <2>1, <3>2 DEF Usable
    <2>3. /\ heap' = U!Added(heap, uses[Me.use], d.var, problem.mult)
          /\ uses' = uses /\ SetResult(VarTerm(d))
      BY <1>2 DEF SearchVar, i
    <2> HIDE DEF d
    <2>4. Fits(problem, VarTerm(d), Me.target)
      BY <2>2, VarFits
    <2>5. TasksSound' /\ Placed(tasks', Len(uses)) /\ UNCHANGED <<problem, outcome>>
      BY <1>1, <2>3, <2>4, ResultSound
    <2>6. Spent(heap, heap', uses[Me.use], uses[Me.use])
      <3>1. d.var \in Vars
        BY <2>2
      <3> QED BY <1>1, <2>2, <2>3, <3>1, OwnObject, SpendingOne
    <2>7. uses' = [uses EXCEPT ![Me.use] = uses[Me.use]]
      BY <1>1, <2>3, OwnObject
    <2>8. UsageSound' /\ OlderStay
      BY <1>1, <2>5, <2>6, <2>7, UsageCharged
    <2> QED BY <2>5, <2>8 DEF Inv
  <1>3. CASE ~ \E i \in DOMAIN problem.ctx : Usable(problem.ctx[i])
    <2>1. SetFailed /\ UNCHANGED <<heap, uses>>
      BY <1>3 DEF SearchVar, usage
    <2>2. TasksSound' /\ Placed(tasks', Len(uses)) /\ UNCHANGED <<problem, outcome>>
      BY <1>1, <2>1, FailedSound
    <2> QED BY <2>1, <2>2, UsageKept DEF Inv
  <1> QED BY <1>2, <1>3

LEMMA SearchClosedKeeps ==
  ASSUME Inv, NEW tactic, NEW types, SearchClosed(tactic, types)
  PROVE  Inv' /\ OlderStay
  <1>1. calls # <<>> /\ Me.target \in Targets
    BY Beginners DEF SearchClosed
  <1>2. TasksSound' /\ Placed(tasks', Len(uses)) /\ UNCHANGED <<problem, outcome>>
    BY <1>1, EmptyFits, ResultSound, FailedSound DEF SearchClosed
  <1>3. UNCHANGED <<heap, uses>>
    BY DEF SearchClosed, usage
  <1> QED BY <1>2, <1>3, UsageKept DEF Inv

LEMMA SearchAppKeeps == Inv /\ SearchApp => Inv' /\ OlderStay
  <1> SUFFICES ASSUME Inv, SearchApp PROVE Inv' /\ OlderStay
    OBVIOUS
  <1> DEFINE S == {i \in DOMAIN problem.globals : Viable(problem.globals[i])}
             gs == InOrder(S)
             new == [k \in DOMAIN gs |->
                       NewTask("try_apply", problem.globals[gs[k]].name, Call.task,
                               Me.target, Me.depth, Me.use)]
  <1>1. /\ calls # <<>> /\ Me.kind = "one" /\ Me.target \in Targets /\ Me.use \in Nat
        /\ Me.depth \in Nat /\ Call.task \in Nat
    BY Beginners DEF SearchApp
  <1>2. problem.globals \in Seq(GlobalDecl) /\ DOMAIN problem.globals = 1..Len(problem.globals)
        /\ Len(problem.globals) \in Nat
    BY <1>1, OwnObject DEF Problem
  <1>3. gs \in Seq(S) /\ \A k \in DOMAIN gs : gs[k] \in S
    <2>1. S \in SUBSET (1..Len(problem.globals))
      BY <1>2
    <2> HIDE DEF S
    <2>2. gs \in Seq(S)
      BY <1>2, <2>1, Ordered
    <2> QED BY <2>2
  <1>4. ASSUME NEW i \in S
        PROVE  LET g == problem.globals[i]
               IN  /\ g \in ToSet(problem.globals) /\ g.name \in STRING /\ g.ret = Me.target
                   /\ Permitted(problem, {g.name})
    <2> DEFINE g == problem.globals[i]
    <2>1. g \in ToSet(problem.globals) /\ g \in GlobalDecl /\ Viable(g)
      BY <1>2 DEF ToSet
    <2> HIDE DEF g
    <2>2. \A f \in ToSet(problem.globals) : f.name = g.name => f = g
      BY <2>1, ProblemsAssumption DEF Inv, TasksSound
    <2>3. /\ g.kind = "axiom" => problem.mult = zero
          /\ g.kind = "mutable" => problem.mutable
      BY <2>1 DEF Viable, GlobalDecl
    <2>4. Permitted(problem, {g.name})
      BY <2>2, <2>3 DEF Permitted
    <2> QED BY <2>1, <2>4 DEF Viable, GlobalDecl, g
  <1> HIDE DEF S, gs
  <1>5. ASSUME NEW k \in DOMAIN gs
        PROVE  /\ new[k] \in Task /\ new[k].kind = "one" /\ new[k].status = "in_progress"
               /\ new[k].parent = Call.task /\ new[k].use = Me.use /\ new[k].target = Me.target
               /\ Applies(problem, new[k])
    <2> DEFINE g == problem.globals[gs[k]]
               tactic == "try_apply"
    <2>1. /\ g \in ToSet(problem.globals) /\ g.name \in STRING /\ g.ret = Me.target
          /\ Permitted(problem, {g.name})
      BY <1>3, <1>4
    <2>2. tactic \in Tactics
      BY DEF Tactics
    <2>3. new[k] = NewTask(tactic, g.name, Call.task, Me.target, Me.depth, Me.use)
      OBVIOUS
    <2> HIDE DEF g, tactic, new
    <2>4. FreshTask(new[k], tactic, g.name, Call.task, Me.target, Me.use)
      BY <1>1, <2>1, <2>2, <2>3, OneTask
    <2> QED BY <2>1, <2>4 DEF FreshTask, Applies
  <1>6. new \in Seq(Task)
    <2>1. gs \in Seq(S) /\ new = [k \in DOMAIN gs |-> new[k]]
      BY <1>3
    <2> HIDE DEF new
    <2>2. DOMAIN gs = 1..Len(gs) /\ Len(gs) \in Nat
      BY <2>1
    <2> QED BY <1>5, <2>1, <2>2
  <1>7. NewTasks(problem, new, Call.task, Me.use) /\ \A i \in DOMAIN new : new[i].target = Me.target
    <2>1. DOMAIN new = DOMAIN gs
      OBVIOUS
    <2> HIDE DEF new
    <2> QED BY <1>5, <1>6, <2>1 DEF NewTasks
  <1>8. Waits("any", new, 0, <<>>) /\ UNCHANGED <<heap, uses>>
    BY DEF SearchApp, S, gs, usage
  <1> HIDE DEF new
  <1>9. TasksSound' /\ Placed(tasks', Len(uses)) /\ UNCHANGED <<problem, outcome>>
    BY <1>1, <1>7, <1>8, AnySound
  <1> QED BY <1>8, <1>9, UsageKept DEF Inv

\* The global that a task applies.
LEMMA EmptyIsPermitted == ASSUME NEW p PROVE Permitted(p, {})
  BY Zenon DEF Permitted

LEMMA OneGlobal ==
  ASSUME NEW p \in Problems, NEW x, x.tactic = "try_apply", Applies(p, x)
  PROVE  LET g == GlobalOf(p, x.name)
         IN  /\ g \in ToSet(p.globals) /\ g.name = x.name /\ g.ret = x.target /\ g \in GlobalDecl
             /\ Permitted(p, {g.name})
             /\ \A i \in DOMAIN g.params :
                  LET given == g.params[i].given
                  IN  given # NoTerm => Fits(p, given, g.params[i].type)
  <1> DEFINE g == GlobalOf(p, x.name)
  <1>1. PICK f \in ToSet(p.globals) : /\ f.name = x.name /\ f.ret = x.target
                                      /\ Permitted(p, {f.name})
    BY DEF Applies
  <1>2. g \in ToSet(p.globals) /\ g.name = x.name
    BY <1>1 DEF GlobalOf
  <1> HIDE DEF g
  <1>3. f = g
    BY <1>1, <1>2, ProblemsAssumption
  <1>4. g \in GlobalDecl
    <2>1. p.globals \in Seq(GlobalDecl)
      BY ProblemsAssumption DEF Problem
    <2> QED BY <1>2, <2>1 DEF ToSet
  <1>5. ASSUME NEW i \in DOMAIN g.params, g.params[i].given # NoTerm
        PROVE  Fits(p, g.params[i].given, g.params[i].type)
    <2>1. g.params[i].given \in Term
      <3>1. g.params \in Seq(Param)
        BY <1>4 DEF GlobalDecl
      <3>2. g.params[i] \in Param
        BY <3>1
      <3> QED BY <1>5, <3>2 DEF Param
    <2>2. /\ g.params[i].given.type = g.params[i].type /\ g.params[i].given.sound
          /\ g.params[i].given.globals = {}
      BY <1>2, <1>5, ProblemsAssumption
    <2>3. Permitted(p, {})
      BY EmptyIsPermitted
    <2> QED BY <2>1, <2>2, <2>3 DEF Fits
  <1> QED BY <1>1, <1>2, <1>3, <1>4, <1>5 DEF g

LEMMA TryApplyKeeps == Inv /\ TryApply => Inv' /\ OlderStay
  <1> SUFFICES ASSUME Inv, TryApply PROVE Inv' /\ OlderStay
    OBVIOUS
  <1> DEFINE g == Global
             r == FoldLeft(TakeArg, [ok |-> TRUE, heap |-> heap, node |-> uses[Me.use],
                                     args |-> <<>>], g.params)
             missing == InOrder(Missing(r.args))
             temp == Len(uses) + 1
             held == [uses EXCEPT ![Me.use] = r.node]
             new == [i \in DOMAIN missing |-> ArgTask(g.params[missing[i]], temp)]
  <1>1. /\ calls # <<>> /\ Me.kind = "one" /\ Me.tactic = "try_apply" /\ Me.target \in Targets
        /\ Me.use \in Nat /\ Me.depth \in Nat /\ Call.task \in Nat /\ Applies(problem, Me)
    BY Beginners DEF TryApply, Good, Me
  <1>2. g = GlobalOf(problem, Me.name)
    BY DEF Global, GlobalOf
  <1>3. /\ g \in ToSet(problem.globals) /\ g.name = Me.name /\ g.ret = Me.target /\ g \in GlobalDecl
        /\ Permitted(problem, {g.name})
        /\ \A i \in DOMAIN g.params :
             g.params[i].given # NoTerm => Fits(problem, g.params[i].given, g.params[i].type)
    BY <1>1, <1>2, OneGlobal DEF Inv, TasksSound
  <1> HIDE DEF g
  <1>4. g.params \in Seq(Param) /\ g.name \in STRING /\ Len(g.params) \in Nat
        /\ DOMAIN g.params = 1..Len(g.params)
    BY <1>3 DEF GlobalDecl
  <1>5. /\ Spent(heap, r.heap, uses[Me.use], r.node) /\ r.args \in Seq(Term \union {NoTerm})
        /\ r.ok => /\ Len(r.args) = Len(g.params)
                   /\ \A i \in 1..Len(g.params) : r.args[i] = g.params[i].given
    BY <1>1, <1>4, OwnObject, TakingArgs
  <1> HIDE DEF r
  <1>6. CASE ~r.ok /\ Overwrite(r) /\ SetFailed
    <2>1. TasksSound' /\ Placed(tasks', Len(uses)) /\ UNCHANGED <<problem, outcome>>
      BY <1>1, <1>6, FailedSound
    <2>2. heap' = r.heap /\ uses' = [uses EXCEPT ![Me.use] = r.node]
      BY <1>6 DEF Overwrite
    <2> QED BY <1>1, <1>5, <2>1, <2>2, UsageCharged DEF Inv
  <1>7. CASE /\ r.ok /\ missing = <<>>
             /\ Overwrite(r)
             /\ SetResult(App(g.name, g.ret, g.params, r.args))
    <2>1. Missing(r.args) = {}
      <3>1. Missing(r.args) \in SUBSET (1..Len(r.args)) /\ Len(r.args) \in Nat
        BY <1>5 DEF Missing
      <3>2. Len(missing) = Cardinality(Missing(r.args)) /\ IsFiniteSet(Missing(r.args))
        BY <3>1, Ordered, RankGrows
      <3>3. Cardinality(Missing(r.args)) = 0
        BY <1>7, <3>2
      <3> QED BY <3>2, <3>3, FS_EmptySet
    <2>2. \A i \in 1..Len(g.params) : Fits(problem, r.args[i], g.params[i].type)
      <3> SUFFICES ASSUME NEW i \in 1..Len(g.params)
                   PROVE  Fits(problem, r.args[i], g.params[i].type)
        OBVIOUS
      <3>1. r.args[i] = g.params[i].given /\ i \in DOMAIN r.args
        BY <1>5, <1>7
      <3>2. r.args[i] # NoTerm
        BY <2>1, <3>1 DEF Missing
      <3> QED BY <1>3, <1>4, <3>1, <3>2
    <2>3. DOMAIN r.args = 1..Len(g.params)
      BY <1>5, <1>7
    <2>4. Fits(problem, App(g.name, Me.target, g.params, r.args), Me.target)
      BY <1>1, <1>3, <1>4, <2>2, <2>3, AppFits
    <2>5. SetResult(App(g.name, Me.target, g.params, r.args))
      BY <1>3, <1>7
    <2>6. TasksSound' /\ Placed(tasks', Len(uses)) /\ UNCHANGED <<problem, outcome>>
      BY <1>1, <2>4, <2>5, ResultSound
    <2>7. heap' = r.heap /\ uses' = [uses EXCEPT ![Me.use] = r.node]
      BY <1>7 DEF Overwrite
    <2> QED BY <1>1, <1>5, <2>6, <2>7, UsageCharged DEF Inv
  <1>8. CASE /\ r.ok /\ missing # <<>>
             /\ heap' = Append(r.heap, U!H!ChildNode(r.heap, r.node))
             /\ uses' = Append(held, Len(r.heap) + 1)
             /\ Waits("all", new, temp, r.args)
    <2>1. Me.use \in 2..Len(uses) /\ Len(uses) \in Nat /\ Objects(heap, uses) /\ temp \in Nat
          /\ Me.use < temp
      <3>1. Objects(heap, uses) /\ uses \in Seq(DOMAIN heap) /\ Me.use \in 2..Len(uses)
        BY <1>1, OwnObject DEF Inv, UsageSound
      <3>2. Len(uses) \in Nat
        BY <3>1
      <3> QED BY <3>1, <3>2
    \* The sub-tasks.
    <2>2. /\ missing \in Seq(Missing(r.args)) /\ Len(missing) = Cardinality(Missing(r.args))
          /\ Cardinality(Missing(r.args)) \in Nat
          /\ \A i \in Missing(r.args) :
               /\ Rank(Missing(r.args), i) \in 1..Cardinality(Missing(r.args))
               /\ missing[Rank(Missing(r.args), i)] = i
      <3>1. Missing(r.args) \in SUBSET (1..Len(r.args)) /\ Len(r.args) \in Nat
        BY <1>5 DEF Missing
      <3> QED BY <3>1, Ordered
    <2>3. Missing(r.args) \subseteq 1..Len(g.params)
      BY <1>5, <1>8 DEF Missing
    <2> HIDE DEF missing, temp
    <2>4. ASSUME NEW k \in DOMAIN missing
          PROVE  /\ new[k] \in Task /\ new[k].kind = "one" /\ new[k].status = "in_progress"
                 /\ new[k].parent = Call.task /\ new[k].use = temp
                 /\ new[k].target = g.params[missing[k]].type /\ Applies(problem, new[k])
      <3> DEFINE p == g.params[missing[k]]
                 tactic == IF p.loops THEN "quick_search" ELSE "proof_search"
                 name == ""
      <3>1. p \in Param
        <4>1. missing[k] \in Missing(r.args)
          BY <2>2
        <4> QED BY <1>4, <2>3, <4>1
      <3>2. p.type \in Targets
        BY <3>1 DEF Param
      <3>3. tactic \in Tactics /\ tactic # "try_apply" /\ name \in STRING \union {""}
        BY DEF Tactics
      <3>4. new[k] = NewTask(tactic, name, Call.task, p.type, Me.depth, temp)
        BY DEF ArgTask
      <3> HIDE DEF tactic, name, new, p
      <3>5. FreshTask(new[k], tactic, name, Call.task, p.type, temp)
        BY <1>1, <2>1, <3>2, <3>3, <3>4, OneTask
      <3> QED BY <3>3, <3>5 DEF FreshTask, Applies, p
    <2>5. DOMAIN new = DOMAIN missing /\ DOMAIN missing = 1..Len(missing) /\ Len(missing) \in Nat
          /\ new = [k \in DOMAIN missing |-> new[k]]
      BY <2>2
    <2> HIDE DEF new
    <2>6. new \in Seq(Task) /\ Len(new) = Len(missing)
      BY <2>4, <2>5
    <2>7. NewTasks(problem, new, Call.task, temp)
      BY <2>4, <2>5, <2>6 DEF NewTasks
    <2>8. ASSUME NEW i \in Missing(r.args)
          PROVE  /\ Rank(Missing(r.args), i) \in DOMAIN new
                 /\ new[Rank(Missing(r.args), i)].target = g.params[i].type
      BY <2>2, <2>4, <2>5
    <2>9. /\ Len(r.args) = Len(g.params) /\ Len(new) = Cardinality(Missing(r.args))
          /\ \A i \in DOMAIN r.args : r.args[i] = g.params[i].given
          /\ Waits("all", new, temp, r.args)
      <3>1. Len(r.args) = Len(g.params) /\ DOMAIN r.args = 1..Len(g.params)
        BY <1>5, <1>8
      <3>2. \A i \in DOMAIN r.args : r.args[i] = g.params[i].given
        BY <1>5, <1>8, <3>1
      <3> QED BY <1>8, <2>2, <2>6, <3>1, <3>2
    <2>10. TasksSound' /\ TasksWait("all", temp)
      <3>1. TasksSound
        BY DEF Inv
      <3> QED BY <1>1, <1>2, <1>5, <2>1, <2>7, <2>8, <2>9, <3>1, TaskWaits
    <2>11. Placed(tasks', Len(uses) + 1)
      <3>1. temp = Len(uses) + 1 /\ temp \in 2..(Len(uses) + 1) /\ Me.use \in 2..(Len(uses) + 1)
        BY <2>1 DEF temp
      <3>2. ASSUME NEW t \in DOMAIN tasks'
            PROVE  /\ tasks'[t].use \in 2..(Len(uses) + 1)
                   /\ tasks'[t].kind = "all" => tasks'[t].temp <= Len(uses) + 1
        <4>1. CASE t \notin DOMAIN tasks \/ t = Call.task
          BY <2>10, <3>1, <4>1 DEF TasksWait
        <4>2. CASE t \in DOMAIN tasks /\ t # Call.task
          <5>1. /\ tasks'[t] = tasks[t] /\ tasks[t].use \in 2..Len(uses)
                /\ tasks[t].kind = "all" => tasks[t].temp <= Len(uses)
            BY <2>10, <4>2 DEF Inv, UsageSound, Placed, TasksWait
          <5>2. tasks[t].temp \in Nat
            <6>1. tasks[t] \in Task
              BY <4>2 DEF Inv, TasksSound
            <6> QED BY <6>1 DEF Task
          <5> QED BY <2>1, <5>1, <5>2
        <4> QED BY <4>1, <4>2
      <3> QED BY <3>2 DEF Placed
    \* The usage objects.
    <2>12. ChargedObject(problem, heap, uses, r.heap, Me.use, r.node) /\ Me.use # 1
      <3>1. Me.use \in 1..Len(uses) /\ Len(uses) >= 2 /\ Me.use # 1
        BY <2>1
      <3> QED BY <1>5, <2>1, <3>1, ObjectCharged
    <2>13. /\ Objects(r.heap, held) /\ Len(held) = Len(uses)
           /\ Unspent(problem, heap, uses) => Unspent(problem, r.heap, held)
      BY <2>12 DEF ChargedObject
    <2>14. held[Me.use] = r.node /\ Me.use \in DOMAIN held /\ Len(held) >= 2
      <3>1. uses \in Seq(DOMAIN heap)
        BY <2>1 DEF Objects
      <3> QED BY <2>1, <2>13, <3>1
    <2> HIDE DEF held
    <2>15. AddedObject(r.heap, held, Me.use, heap', uses')
      <3>1. heap' = Append(r.heap, U!H!ChildNode(r.heap, held[Me.use]))
            /\ uses' = Append(held, Len(r.heap) + 1)
        BY <1>8, <2>14
      <3> QED BY <2>13, <2>14, <3>1, ObjectAdded, Zenon
    <2>16. /\ Objects(heap', uses') /\ Len(uses') = Len(uses) + 1
           /\ Unspent(problem, heap, uses) => Unspent(problem, heap', uses')
      BY <2>13, <2>14, <2>15 DEF AddedObject
    <2>17. UNCHANGED <<problem, outcome>>
      BY <2>9 DEF Waits
    <2>18. UsageSound'
      <3>1. Len(uses) >= 2 /\ Len(uses) + 1 >= 2
            /\ (outcome \in {Searching, NoneFound} => Unspent(problem, heap, uses))
        BY <2>1 DEF Inv, UsageSound
      <3> QED BY <2>11, <2>16, <2>17, <3>1 DEF UsageSound
    <2>19. OlderStay
      <3>1. ASSUME NEW k \in 1..(Me.use - 1), NEW v \in Vars
            PROVE  U!Count(heap', uses'[k], v) = U!Count(heap, uses[k], v)
        <4>1. held[k] = uses[k] /\ B!Stays(heap, r.heap, uses[k])
          BY <2>12 DEF ChargedObject, held
        <4>2. k \in DOMAIN held
          <5>1. Len(held) \in Nat /\ DOMAIN held = 1..Len(held)
            BY <2>13 DEF Objects
          <5> QED BY <2>1, <2>13, <5>1
        <4>3. uses'[k] = uses[k] /\ B!Stays(r.heap, heap', uses[k])
          BY <2>15, <4>1, <4>2 DEF AddedObject
        <4>4. B!U!Count(heap', uses[k], v) = B!U!Count(heap, uses[k], v)
          <5>1. B!U!Count(r.heap, uses[k], v) = B!U!Count(heap, uses[k], v)
            BY <4>1 DEF B!Stays
          <5>2. B!U!Count(heap', uses[k], v) = B!U!Count(r.heap, uses[k], v)
            BY <4>3 DEF B!Stays
          <5> HIDE DEF r
          <5> QED BY <5>1, <5>2
        <4>5. U!Count(heap', uses[k], v) = U!Count(heap, uses[k], v)
          BY <4>4, SameSteps, Zenon
        <4> QED BY <4>3, <4>5
      <3> QED BY <3>1 DEF OlderStay
    <2> QED BY <2>10, <2>18, <2>19 DEF Inv
  <1> QED BY <1>6, <1>7, <1>8, Zenon DEF TryApply, g, r

-----------------------------------------------------------------------------
(* The turns of sub-tasks, and the rounds.                                  *)

\* A step that only changes the calls.
LEMMA CallsOnly ==
  ASSUME Inv, UNCHANGED <<problem, heap, uses, tasks, cache, outcome>>,
         calls' \in Seq(Frame), \A i \in DOMAIN calls' : CallIn(tasks, calls'[i])
  PROVE  Inv' /\ OlderStay
  <1>1. TasksSound'
    BY DEF Inv, TasksSound
  <1>2. UsageSound' /\ OlderStay
    BY DEF Inv, UsageSound, OlderStay
  <1> QED BY <1>1, <1>2 DEF Inv

\* A call returns and its task goes on.
LEMMA ToBeContinuedKeeps ==
  ASSUME Inv, calls # <<>>, Returns, UNCHANGED <<problem, heap, uses, tasks, cache, outcome>>
  PROVE  Inv' /\ OlderStay
  <1>1. calls' \in Seq(Frame) /\ \A i \in DOMAIN calls' : i \in DOMAIN calls /\ calls'[i] = calls[i]
    BY CallFacts DEF Inv, Returns
  <1>2. \A i \in DOMAIN calls' : CallIn(tasks, calls'[i])
    BY <1>1 DEF Inv, TasksSound
  <1> QED BY <1>1, <1>2, CallsOnly

LEMMA GiveUpKeeps == Inv /\ GiveUp => Inv' /\ OlderStay
  <1> SUFFICES ASSUME Inv, GiveUp PROVE Inv' /\ OlderStay
    OBVIOUS
  <1>1. calls # <<>> /\ SetFailed /\ UNCHANGED <<heap, uses>>
    BY DEF GiveUp, usage
  <1>2. TasksSound' /\ Placed(tasks', Len(uses)) /\ UNCHANGED <<problem, outcome>>
    BY <1>1, FailedSound
  <1> QED BY <1>1, <1>2, UsageKept DEF Inv

LEMMA AllFailsKeeps == Inv /\ AllFails => Inv' /\ OlderStay
  <1> SUFFICES ASSUME Inv, AllFails PROVE Inv' /\ OlderStay
    OBVIOUS
  <1>1. calls # <<>> /\ SetFailed /\ UNCHANGED <<heap, uses>>
    BY DEF AllFails, InLoop, usage
  <1>2. TasksSound' /\ Placed(tasks', Len(uses)) /\ UNCHANGED <<problem, outcome>>
    BY <1>1, FailedSound
  <1> QED BY <1>1, <1>2, UsageKept DEF Inv

LEMMA AnyEndsKeeps == Inv /\ AnyEnds => Inv' /\ OlderStay
  <1> SUFFICES ASSUME Inv, AnyEnds PROVE Inv' /\ OlderStay
    OBVIOUS
  <1>1. calls # <<>> /\ UNCHANGED <<heap, uses>> /\ (SetFailed \/ ToBeContinued)
    BY DEF AnyEnds, InLoop, usage
  <1>2. CASE SetFailed
    <2>1. TasksSound' /\ Placed(tasks', Len(uses)) /\ UNCHANGED <<problem, outcome>>
      BY <1>1, <1>2, FailedSound
    <2> QED BY <1>1, <2>1, UsageKept DEF Inv
  <1>3. CASE ToBeContinued
    BY <1>1, <1>3, ToBeContinuedKeeps DEF ToBeContinued
  <1> QED BY <1>1, <1>2, <1>3

\* The sub-tasks of the pending call's task.
LEMMA SubTasks ==
  ASSUME Inv, calls # <<>>, Call.at > 0
  PROVE  /\ Me.kind \in {"any", "all"} /\ Me.subs \in Seq(Nat) /\ Len(Me.subs) \in Nat
         /\ Call.at \in Nat /\ Turns \in 0..Len(Me.subs)
         /\ \A k \in 1..Len(Me.subs) : Me.subs[k] \in DOMAIN tasks
         /\ Me.kind = "any" =>
              \A k \in 1..Len(Me.subs) : tasks[Me.subs[k]].target = Me.target
  <1>1. /\ Call \in Frame /\ CallIn(tasks, Call) /\ Call.task \in DOMAIN tasks
        /\ Me \in Task /\ Good(problem, tasks, Call.task)
    BY CallFacts DEF Inv
  <1>2. Me.kind # "one" /\ Call.at <= Len(Me.subs) + 1 /\ Call.at \in Nat
    BY <1>1 DEF CallIn, Me, Frame
  <1>3. Me.kind \in {"any", "all"} /\ Me.subs \in Seq(Nat) /\ Len(Me.subs) \in Nat
    <2>1. Me.kind \in Kinds /\ Me.subs \in Seq(Nat)
      BY <1>1 DEF Task
    <2> QED BY <1>2, <2>1 DEF Kinds
  <1>4. Turns \in 0..Len(Me.subs)
    BY <1>2, <1>3 DEF Turns
  <1>5. CASE Me.kind = "any"
    <2>1. Alternatives(tasks, Me)
      BY <1>1, <1>5 DEF Good, Me
    <2> QED BY <1>2, <1>3, <1>4, <2>1 DEF Alternatives
  <1>6. CASE Me.kind = "all"
    <2> DEFINE S == Missing(Me.args)
    <2>1. Sorted(problem, tasks, Me)
      BY <1>1, <1>6 DEF Good, Me
    <2>2. S \in SUBSET (1..Len(Me.args)) /\ Len(Me.args) \in Nat
      <3>1. Me.args \in Seq(Term \union {NoTerm})
        BY <1>1 DEF Task
      <3> QED BY <3>1 DEF Missing
    <2> HIDE DEF S
    <2>3. ASSUME NEW k \in 1..Len(Me.subs) PROVE Me.subs[k] \in DOMAIN tasks
      <3>1. k \in 1..Cardinality(S)
        BY <2>1 DEF Sorted, S
      <3>2. PICK i \in S : Rank(S, i) = k
        BY <2>2, <3>1, RankReaches
      <3> QED BY <2>1, <3>2 DEF Sorted, S
    <2> QED BY <1>2, <1>3, <1>4, <1>6, <2>3
  <1> QED BY <1>3, <1>5, <1>6

LEMMA AnyWinsKeeps == Inv /\ AnyWins => Inv' /\ OlderStay
  <1> SUFFICES ASSUME Inv, AnyWins PROVE Inv' /\ OlderStay
    OBVIOUS
  <1>1. /\ calls # <<>> /\ Call.at > 0 /\ Me.kind = "any" /\ Turns > 0 /\ Succeeded(JustRan)
        /\ SetResult(tasks[JustRan].result) /\ UNCHANGED <<heap, uses>>
    BY DEF AnyWins, InLoop, usage
  <1>2. JustRan \in DOMAIN tasks /\ tasks[JustRan].target = Me.target
    <2>1. Turns \in 1..Len(Me.subs)
      BY <1>1, SubTasks
    <2> QED BY <1>1, <2>1, SubTasks DEF JustRan
  <1>3. Fits(problem, tasks[JustRan].result, Me.target)
    BY <1>1, <1>2 DEF Inv, TasksSound, Good, Succeeded
  <1>4. TasksSound' /\ Placed(tasks', Len(uses)) /\ UNCHANGED <<problem, outcome>>
    BY <1>1, <1>3, ResultSound
  <1> QED BY <1>1, <1>4, UsageKept DEF Inv

\* The calls when the pending one goes on to its next turn.
LEMMA NextTurn ==
  ASSUME Inv, calls # <<>>, Me.kind # "one", Call.at <= Len(Me.subs)
  PROVE  LET looped == [calls EXCEPT ![Len(calls)].at = @ + 1]
         IN  looped \in Seq(Frame) /\ \A i \in DOMAIN looped : CallIn(tasks, looped[i])
  <1> DEFINE n == Len(calls)
             c == [task |-> Call.task, at |-> Call.at + 1]
             looped == [calls EXCEPT ![n].at = @ + 1]
  <1>1. /\ Call \in Frame /\ CallIn(tasks, Call) /\ n \in 1..n /\ Call = calls[n]
        /\ calls \in Seq(Frame) /\ \A i \in DOMAIN calls : CallIn(tasks, calls[i])
    BY CallFacts DEF Inv, TasksSound
  <1>2. [Call EXCEPT !.at = @ + 1] = c
    BY <1>1 DEF Frame
  <1>3. looped = [calls EXCEPT ![n] = c]
    BY <1>1, <1>2
  <1>4. c \in Frame /\ CallIn(tasks, c)
    <2>1. Me.subs \in Seq(Nat)
      BY CallFacts DEF Inv, Task
    <2>2. Call.at \in Nat /\ Call.task \in Nat /\ Len(Me.subs) \in Nat
      BY <1>1, <2>1 DEF Frame
    <2>3. Call.task \in DOMAIN tasks
      BY <1>1 DEF CallIn
    <2> QED BY <2>2, <2>3 DEF Frame, CallIn, Me
  <1> HIDE DEF c, looped
  <1>5. looped \in Seq(Frame) /\ DOMAIN looped = DOMAIN calls
        /\ \A i \in DOMAIN calls : looped[i] = c \/ looped[i] = calls[i]
    <2>1. ASSUME NEW R, NEW q \in Seq(R), NEW i \in DOMAIN q, NEW x \in R
          PROVE  [q EXCEPT ![i] = x] \in Seq(R)
      OBVIOUS
    <2>2. n \in DOMAIN calls
      BY <1>1
    <2>3. looped \in Seq(Frame)
      BY <1>1, <1>3, <1>4, <2>1, <2>2, Zenon
    <2> QED BY <1>3, <2>3
  <1> QED BY <1>1, <1>4, <1>5 DEF looped, n

LEMMA EnterKeeps == Inv /\ Enter => Inv' /\ OlderStay
  <1> SUFFICES ASSUME Inv, Enter PROVE Inv' /\ OlderStay
    OBVIOUS
  <1>1. /\ calls # <<>> /\ Call.at = 0 /\ Me.kind # "one"
        /\ calls' = [calls EXCEPT ![Len(calls)].at = 1]
        /\ UNCHANGED <<problem, heap, uses, tasks, cache, outcome>>
    BY DEF Enter, Begins
  <1>2. Call.at <= Len(Me.subs)
    <2>1. Me.subs \in Seq(Nat)
      BY <1>1, CallFacts DEF Inv, Task
    <2> QED BY <1>1, <2>1
  <1>3. calls' = [calls EXCEPT ![Len(calls)].at = @ + 1]
    <2>1. calls[Len(calls)].at = 0
      BY <1>1, CallFacts DEF Inv
    <2> QED BY <1>1, <2>1
  <1>4. calls' \in Seq(Frame) /\ \A i \in DOMAIN calls' : CallIn(tasks, calls'[i])
    BY <1>1, <1>2, <1>3, NextTurn
  <1> QED BY <1>1, <1>4, CallsOnly

LEMMA RunSubKeeps == Inv /\ RunSub => Inv' /\ OlderStay
  <1> SUFFICES ASSUME Inv, RunSub PROVE Inv' /\ OlderStay
    OBVIOUS
  <1> DEFINE next == Me.subs[Turns + 1]
             looped == [calls EXCEPT ![Len(calls)].at = @ + 1]
             new == [task |-> next, at |-> 0]
  <1>1. /\ calls # <<>> /\ Call.at > 0 /\ Turns < Len(Me.subs)
        /\ calls' = looped \/ calls' = Append(looped, new)
        /\ UNCHANGED <<problem, heap, uses, tasks, cache, outcome>>
    BY DEF RunSub, InLoop, TurnsLeft
  <1>2. /\ Me.kind # "one" /\ Turns + 1 \in 1..Len(Me.subs) /\ Call.at <= Len(Me.subs)
        /\ next \in DOMAIN tasks /\ next \in Nat
    <2>1. /\ Me.kind # "one" /\ Turns \in 0..Len(Me.subs) /\ Len(Me.subs) \in Nat /\ Call.at \in Nat
          /\ Me.subs \in Seq(Nat)
      BY <1>1, SubTasks
    <2>2. Turns + 1 \in 1..Len(Me.subs) /\ Call.at <= Len(Me.subs)
      BY <1>1, <2>1 DEF Turns
    <2> QED BY <1>1, <2>1, <2>2, SubTasks
  <1>3. looped \in Seq(Frame) /\ \A i \in DOMAIN looped : CallIn(tasks, looped[i])
    BY <1>1, <1>2, NextTurn
  <1>4. new \in Frame /\ CallIn(tasks, new)
    BY <1>2 DEF Frame, CallIn
  <1> HIDE DEF looped, new
  <1>5. Append(looped, new) \in Seq(Frame)
        /\ \A i \in DOMAIN Append(looped, new) : CallIn(tasks, Append(looped, new)[i])
    <2>1. /\ Append(looped, new) \in Seq(Frame) /\ DOMAIN Append(looped, new) = 1..(Len(looped) + 1)
          /\ Append(looped, new)[Len(looped) + 1] = new /\ Len(looped) \in Nat
          /\ \A i \in 1..Len(looped) : i \in DOMAIN looped /\ Append(looped, new)[i] = looped[i]
      BY <1>3, <1>4
    <2>2. \A i \in 1..(Len(looped) + 1) : i \in 1..Len(looped) \/ i = Len(looped) + 1
      BY <2>1
    <2> QED BY <1>3, <1>4, <2>1, <2>2
  <1> QED BY <1>1, <1>3, <1>5, CallsOnly

LEMMA NextRoundKeeps == Inv /\ NextRound => Inv' /\ OlderStay
  <1> SUFFICES ASSUME Inv, NextRound PROVE Inv' /\ OlderStay
    OBVIOUS
  <1> DEFINE c == [task |-> Main, at |-> 0]
  <1>1. calls' = <<c>> /\ UNCHANGED <<problem, heap, uses, tasks, cache, outcome>>
    BY DEF NextRound
  <1>2. c \in Frame /\ CallIn(tasks, c)
    <2>1. tasks \in Seq(Task) /\ tasks # <<>>
      BY DEF Inv, TasksSound
    <2> QED BY <2>1 DEF Frame, CallIn, Main
  <1> HIDE DEF c
  <1>3. calls' \in Seq(Frame) /\ \A i \in DOMAIN calls' : calls'[i] = c
    BY <1>1, <1>2
  <1> QED BY <1>1, <1>2, <1>3, CallsOnly

LEMMA AllEndsKeeps == Inv /\ AllEnds => Inv' /\ OlderStay
  <1> SUFFICES ASSUME Inv, AllEnds PROVE Inv' /\ OlderStay
    OBVIOUS
  <1>1. calls # <<>> /\ Call.at > 0 /\ Me.kind = "all"
    BY DEF AllEnds, InLoop
  <1>2. CASE ~ \A i \in DOMAIN Me.subs : Succeeded(Me.subs[i])
    <2>1. ToBeContinued /\ UNCHANGED <<heap, uses>>
      BY <1>2 DEF AllEnds, usage
    <2> QED BY <1>1, <2>1, ToBeContinuedKeeps DEF ToBeContinued
  <1>3. CASE \A i \in DOMAIN Me.subs : Succeeded(Me.subs[i])
    <2> DEFINE g == GlobalOf(problem, Me.name)
               term == App(Me.name, Me.target, g.params, Filled)
               us == U!DirectUses(heap[uses[Me.temp]].data)
               r == U!TryAddAll(heap, uses[Me.use], us)
    <2>1. /\ Me \in Task /\ Call.task \in DOMAIN tasks /\ Applies(problem, Me)
          /\ Sorted(problem, tasks, Me) /\ Me.use < Me.temp
      BY <1>1, CallFacts DEF Inv, Good, Me
    <2>2. Me.target \in Targets /\ Me.args \in Seq(Term \union {NoTerm}) /\ Me.temp \in Nat
          /\ Me.subs \in Seq(Nat)
      BY <2>1 DEF Task
    <2>3. /\ g.name = Me.name /\ g.ret = Me.target /\ g \in GlobalDecl /\ Permitted(problem, {g.name})
          /\ \A i \in DOMAIN g.params :
               g.params[i].given # NoTerm => Fits(problem, g.params[i].given, g.params[i].type)
      BY <2>1, OneGlobal DEF Inv, TasksSound, Sorted
    <2>4. Global = g
      BY DEF Global, GlobalOf
    <2>5. /\ Len(Me.args) = Len(g.params) /\ Len(Me.args) \in Nat
          /\ DOMAIN Me.args = 1..Len(Me.args) /\ DOMAIN g.params = 1..Len(g.params)
          /\ g.name \in STRING
          /\ \A i \in DOMAIN Me.args : Me.args[i] = g.params[i].given
      <3>1. g.params \in Seq(Param) /\ g.name \in STRING
        BY <2>3 DEF GlobalDecl
      <3>2. /\ Len(Me.args) = Len(g.params)
            /\ \A i \in DOMAIN Me.args : Me.args[i] = g.params[i].given
        BY <2>1 DEF Sorted
      <3> QED BY <2>2, <3>1, <3>2
    <2> HIDE DEF g
    \* The results are proofs for the parameters whose places they take.
    <2>6. ASSUME NEW i \in 1..Len(Me.args) PROVE Fits(problem, Filled[i], g.params[i].type)
      <3>1. CASE Me.args[i] # NoTerm
        <4>1. Filled[i] = Me.args[i] /\ Me.args[i] = g.params[i].given
          BY <2>5, <3>1 DEF Filled
        <4> QED BY <2>3, <2>5, <3>1, <4>1
      <3>2. CASE Me.args[i] = NoTerm
        <4> DEFINE S == Missing(Me.args)
                   s == Me.subs[Rank(S, i)]
        <4>1. i \in S /\ S \in SUBSET (1..Len(Me.args))
          BY <2>5, <3>2 DEF Missing
        <4>2. Filled[i] = tasks[s].result
          BY <2>5, <3>2 DEF Filled, Rank
        <4> HIDE DEF S
        <4>3. Rank(S, i) \in 1..Cardinality(S)
          BY <2>5, <4>1, RankGrows
        <4>4. s \in DOMAIN tasks /\ tasks[s].target = g.params[i].type /\ Rank(S, i) \in DOMAIN Me.subs
          <5>1. Len(Me.subs) = Cardinality(S) /\ s \in DOMAIN tasks /\ tasks[s].target = g.params[i].type
            BY <2>1, <4>1 DEF Sorted, g, S
          <5> QED BY <2>2, <4>3, <5>1
        <4>5. Succeeded(s)
          BY <1>3, <4>4
        <4> QED BY <4>2, <4>4, <4>5 DEF Inv, TasksSound, Good, Succeeded
      <3> QED BY <3>1, <3>2
    <2>7. Fits(problem, term, Me.target)
      <3>1. DOMAIN Filled = 1..Len(Me.args)
        BY <2>5 DEF Filled
      <3>2. Me.name \in STRING /\ Permitted(problem, {Me.name})
        BY <2>3, <2>5
      <3> QED BY <2>2, <2>5, <2>6, <3>1, <3>2, AppFits
    \* What they used is added to the object of the task.
    <2>8. Spent(heap, r.heap, uses[Me.use], r.node)
      <3>1. heap \in B!Heap /\ uses \in Seq(DOMAIN heap) /\ uses[Me.use] \in DOMAIN heap
            /\ Me.use \in 2..Len(uses)
        BY <1>1, OwnObject
      <3>2. uses[Me.temp] \in DOMAIN heap
        <4>1. Me.temp <= Len(uses)
          BY <1>1, <2>1 DEF Inv, UsageSound, Placed, Me
        <4>2. Me.temp \in 1..Len(uses)
          BY <2>1, <2>2, <3>1, <4>1
        <4> QED BY <3>1, <4>2
      <3>3. us \in Seq(Vars \X {one})
        BY <3>1, <3>2, DirectTyped
      <3>4. one \in Qty
        BY Quantities
      <3> HIDE DEF us
      <3> QED BY <3>1, <3>3, <3>4, Spending
    <2>9. Overwrite(r) /\ IF r.ok THEN SetResult(term) ELSE SetFailed
      BY <1>3, <2>4 DEF AllEnds
    <2> HIDE DEF r, term
    <2>10. TasksSound' /\ Placed(tasks', Len(uses)) /\ UNCHANGED <<problem, outcome>>
      BY <1>1, <2>7, <2>9, ResultSound, FailedSound
    <2>11. heap' = r.heap /\ uses' = [uses EXCEPT ![Me.use] = r.node]
      BY <2>9 DEF Overwrite
    <2> QED BY <1>1, <2>8, <2>10, <2>11, UsageCharged DEF Inv
  <1> QED BY <1>2, <1>3

LEMMA FinishKeeps == Inv /\ Finish => Inv'
  <1> SUFFICES ASSUME Inv, Finish PROVE Inv'
    OBVIOUS
  <1> DEFINE us == U!DirectUses(heap[uses[2]].data)
             r == U!TryAddAll(heap, uses[1], us)
  <1>1. /\ outcome = Searching /\ Done(Main) /\ UNCHANGED <<problem, tasks, calls, cache>>
        /\ IF Failed(Main) THEN outcome' = NoneFound /\ UNCHANGED usage
           ELSE /\ heap' = r.heap /\ uses' = [uses EXCEPT ![1] = r.node]
                /\ outcome' = IF r.ok THEN tasks[Main].result ELSE NoneFound
    BY DEF Finish
  <1>2. Objects(heap, uses) /\ Len(uses) >= 2 /\ Unspent(problem, heap, uses)
        /\ Placed(tasks, Len(uses))
    BY <1>1 DEF Inv, UsageSound
  <1>3. CASE Failed(Main)
    <2>1. outcome' = NoneFound /\ UNCHANGED <<heap, uses>>
      BY <1>1, <1>3 DEF usage
    <2>2. TasksSound'
      BY <1>1, <2>1 DEF Inv, TasksSound
    <2>3. UsageSound'
      BY <1>1, <1>2, <2>1 DEF UsageSound
    <2> QED BY <2>2, <2>3 DEF Inv
  <1>4. CASE ~Failed(Main)
    <2>1. r.ok
      BY <1>2, Committing
    <2>2. Fits(problem, tasks[Main].result, problem.goal)
      <3>1. /\ tasks \in Seq(Task) /\ tasks # <<>> /\ tasks[1].target = problem.goal
            /\ \A t \in DOMAIN tasks : Good(problem, tasks, t)
        BY DEF Inv, TasksSound
      <3>2. 1 \in DOMAIN tasks /\ tasks[1] \in Task
        BY <3>1
      <3>3. tasks[1].status = "succeeded"
        <4>1. tasks[1].status \in Statuses
          BY <3>2 DEF Task
        <4> QED BY <1>1, <1>4, <4>1 DEF Done, Failed, Main, Statuses
      <3> QED BY <3>1, <3>2, <3>3 DEF Good, Main
    <2>3. heap \in B!Heap /\ uses \in Seq(DOMAIN heap) /\ uses[1] \in DOMAIN heap /\ uses[2] \in DOMAIN heap
          /\ Len(uses) \in Nat /\ 1 \in 1..Len(uses)
      <3>1. heap \in B!Heap /\ uses \in Seq(DOMAIN heap)
        BY <1>2 DEF Objects
      <3>2. 1 \in DOMAIN uses /\ 2 \in DOMAIN uses
        BY <1>2, <3>1
      <3> QED BY <1>2, <3>1, <3>2
    <2>4. Spent(heap, r.heap, uses[1], r.node)
      <3>1. us \in Seq(Vars \X {one})
        BY <2>3, DirectTyped
      <3>2. one \in Qty
        BY Quantities
      <3> HIDE DEF us
      <3> QED BY <2>3, <3>1, <3>2, Spending
    <2> HIDE DEF r
    <2>5. ChargedObject(problem, heap, uses, r.heap, 1, r.node)
      BY <1>2, <2>3, <2>4, ObjectCharged, Zenon
    <2>6. Objects(heap', uses') /\ Len(uses') = Len(uses)
      BY <1>1, <1>4, <2>5 DEF ChargedObject
    <2>7. outcome' = tasks[Main].result /\ outcome' \notin {Searching, NoneFound}
      BY <1>1, <1>4, <2>1, <2>2, NotTerms DEF Fits
    <2>8. TasksSound'
      BY <1>1, <2>2, <2>7 DEF Inv, TasksSound
    <2>9. UsageSound'
      BY <1>1, <1>2, <2>6, <2>7 DEF UsageSound
    <2> QED BY <2>8, <2>9 DEF Inv
  <1> QED BY <1>3, <1>4

-----------------------------------------------------------------------------
(* The invariant of the search.                                             *)

LEMMA InitSound == Init => Inv
  <1> SUFFICES ASSUME Init PROVE Inv
    OBVIOUS
  <1> DEFINE tactic == "proof_search"
             name == ""
             x == NewTask(tactic, name, 0, problem.goal, 0, 2)
  <1>1. /\ Objects(heap, uses) /\ Len(uses) = 2 /\ problem \in Problems /\ problem \in Problem
        /\ Unspent(problem, heap, uses)
    BY Beginning
  <1>2. tactic \in Tactics /\ tactic # "try_apply" /\ name \in STRING \union {""}
        /\ problem.goal \in Targets
    BY <1>1 DEF Tactics, Problem
  <1>3. tasks = <<x>> /\ calls = <<>> /\ cache = [t \in Targets |-> NoTerm] /\ outcome = Searching
    BY DEF Init
  <1> HIDE DEF tactic, name
  <1>4. FreshTask(x, tactic, name, 0, problem.goal, 2)
    BY <1>2, OneTask
  <1> HIDE DEF x
  <1>5. tasks \in Seq(Task) /\ DOMAIN tasks = {1} /\ tasks[1] = x /\ tasks # <<>>
    BY <1>3, <1>4 DEF FreshTask
  <1>6. Good(problem, tasks, 1)
    BY <1>2, <1>4, <1>5 DEF FreshTask, Good, Applies, Linked
  <1>7. cache \in [Targets -> Term \union {NoTerm}] /\ \A t \in Targets : cache[t] = NoTerm
    BY <1>3
  <1>8. calls \in Seq(Frame) /\ DOMAIN calls = {}
    BY <1>3
  <1>9. TasksSound
    BY <1>1, <1>3, <1>4, <1>5, <1>6, <1>7, <1>8 DEF TasksSound, FreshTask
  <1>10. UsageSound
    BY <1>1, <1>4, <1>5 DEF UsageSound, Placed, FreshTask
  <1> QED BY <1>9, <1>10 DEF Inv

LEMMA TacticKeeps == Inv /\ Tactic => Inv' /\ OlderStay
  <1> SUFFICES ASSUME Inv, Tactic PROVE Inv' /\ OlderStay
    OBVIOUS
  <1>1. CASE Proof
    <2> DEFINE tactics == Append(Immediate, "search_app")
    <2>1. tactics \in Seq(Tactics \ {"try_apply"})
      BY DEF Immediate, Tactics
    <2> HIDE DEF tactics
    <2>2. Runs("proof_search") /\ SearchWith(tactics)
      BY <1>1 DEF Proof, tactics
    <2> QED BY <2>1, <2>2, SearchWithKeeps
  <1>2. CASE Quick
    <2>1. Immediate \in Seq(Tactics \ {"try_apply"})
      BY DEF Immediate, Tactics
    <2>2. Runs("quick_search") /\ SearchWith(Immediate)
      BY <1>2 DEF Quick
    <2> QED BY <2>1, <2>2, SearchWithKeeps
  <1>3. CASE SearchTrueT \/ SearchTrivialValue
    BY <1>3, SearchClosedKeeps DEF SearchTrueT, SearchTrivialValue
  <1>4. CASE SearchVar \/ SearchApp \/ TryApply
    BY <1>4, SearchVarKeeps, SearchAppKeeps, TryApplyKeeps
  <1> QED BY <1>1, <1>2, <1>3, <1>4 DEF Tactic

LEMMA NextKeeps == Inv /\ [Next]_vars => Inv' /\ (calls # <<>> => OlderStay)
  <1> SUFFICES ASSUME Inv, [Next]_vars PROVE Inv' /\ (calls # <<>> => OlderStay)
    OBVIOUS
  <1>1. CASE Step
    <2>1. CASE Finish
      <3>1. calls = <<>>
        BY <2>1 DEF Finish
      <3> QED BY <2>1, <3>1, FinishKeeps
    <2>2. CASE ~Finish
      BY <1>1, <2>2, TacticKeeps, NextRoundKeeps, GiveUpKeeps, EnterKeeps, RunSubKeeps,
         AnyWinsKeeps, AnyEndsKeeps, AllFailsKeeps, AllEndsKeeps DEF Step
    <2> QED BY <2>1, <2>2
  <1>2. CASE Expire \/ Returned \/ UNCHANGED vars
    <2>1. UNCHANGED <<problem, heap, uses, tasks, calls, cache, outcome>>
      BY <1>2 DEF Expire, Returned, vars
    <2>2. calls' \in Seq(Frame) /\ \A i \in DOMAIN calls' : CallIn(tasks, calls'[i])
      BY <2>1 DEF Inv, TasksSound
    <2> QED BY <2>1, <2>2, CallsOnly
  <1> QED BY <1>1, <1>2 DEF Next

\* The tasks, the cache and the usage objects stay sound throughout a search.
THEOREM SearchStaysSound == Spec => []Inv
  <1> QED BY InitSound, NextKeeps, PTL DEF Spec

\* search_proof() returns proofs of what was asked, or none.
THEOREM FindsProofs == Spec => []FoundIsProof
  <1>1. Inv => FoundIsProof
    BY DEF Inv, TasksSound, FoundIsProof, Found, Fits
  <1> QED BY <1>1, SearchStaysSound, PTL

\* A search that finds nothing costs the caller nothing.
THEOREM FailuresAreFree == Spec => []FailureLeavesUsage
  <1>1. Inv => FailureLeavesUsage
    BY DEF Inv, UsageSound, Unspent, FailureLeavesUsage
  <1> QED BY <1>1, SearchStaysSound, PTL

-----------------------------------------------------------------------------
(* The tree of tasks.                                                       *)

Parent(t) == tasks[t].parent
Above(f, n) ==
  f = [s \in 1..n |-> IF Parent(s) = 0 THEN {} ELSE {Parent(s)} \union f[Parent(s)]]

LEMMA AboveExists ==
  ASSUME Inv
  PROVE  \E f : Above(f, Len(tasks))
  <1> DEFINE N == Len(tasks)
             Have == {m \in 0..N : \E f : Above(f, m)}
  <1>1. N \in Nat /\ DOMAIN tasks = 1..N
    BY DEF Inv, TasksSound
  <1>2. \A s \in 1..N : Parent(s) = 0 \/ Parent(s) \in 1..(s - 1)
    BY <1>1 DEF Inv, TasksSound, Good, Linked, Parent
  <1> HIDE DEF N
  <1>3. 0 \in Have
    <2> DEFINE f == [s \in 1..0 |-> {}]
    <2>1. f = [s \in 1..0 |-> IF Parent(s) = 0 THEN {} ELSE {Parent(s)} \union f[Parent(s)]]
      <3>1. 1..0 = {}
        OBVIOUS
      <3> QED BY <3>1
    <2> HIDE DEF f
    <2>2. Above(f, 0)
      BY <2>1 DEF Above
    <2> QED BY <1>1, <2>2
  <1>4. ASSUME NEW m \in 0..(N - 1), m \in Have PROVE m + 1 \in Have
    <2>1. PICK f : Above(f, m)
      BY <1>4
    <2> DEFINE e == m + 1
               x == IF Parent(e) = 0 THEN {} ELSE {Parent(e)} \union f[Parent(e)]
               g == [s \in 1..e |-> IF s = e THEN x ELSE f[s]]
    <2>2. e \in 1..N /\ e \in 0..N /\ m \in Nat /\ \A s \in 1..e : s # e => s \in 1..m
      BY <1>1
    <2>3. \A s \in 1..e : Parent(s) # 0 => Parent(s) \in 1..e /\ Parent(s) # e
      <3> SUFFICES ASSUME NEW s \in 1..e, Parent(s) # 0 PROVE Parent(s) \in 1..e /\ Parent(s) # e
        OBVIOUS
      <3>1. s \in 1..N /\ Parent(s) \in 1..(s - 1)
        BY <1>1, <1>2, <2>2
      <3> QED BY <2>2, <3>1
    <2> HIDE DEF e, x
    <2>4. ASSUME NEW s \in 1..e
          PROVE  g[s] = IF Parent(s) = 0 THEN {} ELSE {Parent(s)} \union g[Parent(s)]
      <3>1. Parent(s) # 0 => g[Parent(s)] = f[Parent(s)]
        BY <2>3
      <3>2. CASE s = e
        BY <3>1, <3>2 DEF x
      <3>3. CASE s # e
        <4>1. f[s] = IF Parent(s) = 0 THEN {} ELSE {Parent(s)} \union f[Parent(s)]
          BY <2>1, <2>2, <3>3 DEF Above
        <4> QED BY <3>1, <3>3, <4>1
      <3> QED BY <3>2, <3>3
    <2>5. g = [s \in 1..e |-> g[s]]
      OBVIOUS
    <2> HIDE DEF g
    <2>6. Above(g, e)
      BY <2>4, <2>5 DEF Above
    <2> QED BY <2>2, <2>6 DEF e
  <1>5. N \in Have
    <2> HIDE DEF Have
    <2>1. \A i \in 0..N : i \in Have
      BY <1>1, <1>3, <1>4, L!UpTo
    <2> QED BY <1>1, <2>1
  <1> QED BY <1>5 DEF N

\* A task below one that waits for all spends from a younger object.
LEMMA YoungerBelow ==
  ASSUME Inv, NEW s \in DOMAIN tasks, NEW t \in Ancestors(s)
  PROVE  t \in DOMAIN tasks /\ (tasks[t].kind = "all" => tasks[t].use < tasks[s].use)
  <1> DEFINE N == Len(tasks)
             body(f) == [u \in DOMAIN tasks |-> IF tasks[u].parent = 0 THEN {}
                                               ELSE {tasks[u].parent} \union f[tasks[u].parent]]
             above == CHOOSE f : f = body(f)
             Below(u, x) == /\ x \in DOMAIN tasks
                            /\ tasks[x].kind = "all" => tasks[x].temp <= tasks[u].use
             Sound(i) == \A u \in 1..i : \A x \in above[u] : Below(u, x)
             Have == {i \in 0..N : Sound(i)}
  <1>1. N \in Nat /\ DOMAIN tasks = 1..N
    BY DEF Inv, TasksSound
  <1>2. Ancestors(s) = above[s]
    BY DEF Ancestors
  <1>3. above = body(above)
    <2>1. PICK f : Above(f, N)
      BY AboveExists
    <2>2. f = body(f)
      BY <1>1, <2>1 DEF Above, Parent
    <2> HIDE DEF body
    <2> QED BY <2>2
  <1> HIDE DEF above
  <1>4. ASSUME NEW u \in 1..N
        PROVE  /\ tasks[u].use \in Int /\ tasks[u].temp \in Int
               /\ tasks[u].kind = "all" => tasks[u].use < tasks[u].temp
               /\ tasks[u].parent = 0 \/
                    LET p == tasks[u].parent
                    IN  /\ p \in 1..(u - 1) /\ tasks[p].kind # "one"
                        /\ tasks[u].use = IF tasks[p].kind = "all" THEN tasks[p].temp ELSE tasks[p].use
    <2>1. tasks[u] \in Task /\ Good(problem, tasks, u)
      BY <1>1 DEF Inv, TasksSound
    <2>2. tasks[u].use \in Int /\ tasks[u].temp \in Int
      <3>1. tasks[u].use \in Nat
        BY <2>1 DEF Task
      <3>2. tasks[u].temp \in Nat
        BY <2>1 DEF Task
      <3> QED BY <3>1, <3>2
    <2> QED BY <2>1, <2>2 DEF Good, Linked
  <1> HIDE DEF N
  <1>5. 0 \in Have
    BY <1>1
  <1>6. ASSUME NEW i \in 0..(N - 1), i \in Have PROVE i + 1 \in Have
    <2> DEFINE u == i + 1
               p == tasks[u].parent
    <2>1. u \in 1..N /\ u \in 0..N /\ \A y \in 1..u : y \in 1..i \/ y = u
      BY <1>1
    <2>2. ASSUME NEW x \in above[u] PROVE Below(u, x)
      <3>1. p # 0 /\ (x = p \/ x \in above[p])
        BY <1>1, <1>3, <2>1
      <3>2. p \in 1..(u - 1) /\ tasks[p].kind # "one"
            /\ tasks[u].use = IF tasks[p].kind = "all" THEN tasks[p].temp ELSE tasks[p].use
        BY <1>4, <2>1, <3>1
      <3>3. p \in 1..i /\ p \in 1..N
        BY <1>1, <2>1, <3>2
      <3> HIDE DEF u, p
      <3>4. tasks[p].use <= tasks[u].use /\ (tasks[p].kind = "all" => tasks[p].temp <= tasks[u].use)
        BY <1>4, <2>1, <3>2, <3>3
      <3>5. CASE x = p
        BY <1>1, <3>3, <3>4, <3>5
      <3>6. CASE x \in above[p]
        <4>1. Below(p, x)
          BY <1>6, <3>3, <3>6
        <4>2. tasks[x].temp \in Int /\ tasks[p].use \in Int /\ tasks[u].use \in Int
          BY <1>1, <1>4, <2>1, <3>3, <4>1
        <4> QED BY <3>4, <4>1, <4>2
      <3> QED BY <3>1, <3>5, <3>6
    <2>3. Sound(u)
      <3> HIDE DEF u, Below
      <3> QED BY <1>6, <2>1, <2>2
    <2> QED BY <2>1, <2>3
  <1>7. Sound(N)
    <2> HIDE DEF Sound
    <2>1. \A i \in 0..N : i \in Have
      <3> HIDE DEF Have
      <3> QED BY <1>1, <1>5, <1>6, L!UpTo
    <2> QED BY <1>1, <2>1
  <1>8. Below(s, t)
    BY <1>1, <1>2, <1>7
  <1>9. t \in 1..N /\ s \in 1..N
    BY <1>1, <1>8
  <1> QED BY <1>1, <1>4, <1>8, <1>9

\* The steps of sub-tasks leave the usage object of a task that waits for them
\* all as it was: what they spend is added only when they have all succeeded.
THEOREM SubTasksSpendApart == Spec => SpendingIsTemporary
  <1> DEFINE Untouched ==
        \A t \in DOMAIN tasks :
          /\ tasks[t].kind = "all" /\ tasks[t].status = "in_progress"
          /\ calls # <<>> /\ t \in Ancestors(Call.task)
          => \A v \in Vars : U!Count(heap', uses'[tasks[t].use], v)
                                = U!Count(heap, uses[tasks[t].use], v)
  <1>1. Inv /\ [Next]_vars => Untouched
    <2> SUFFICES ASSUME Inv, [Next]_vars, NEW t \in DOMAIN tasks, tasks[t].kind = "all",
                        calls # <<>>, t \in Ancestors(Call.task), NEW v \in Vars
                 PROVE  U!Count(heap', uses'[tasks[t].use], v) = U!Count(heap, uses[tasks[t].use], v)
      OBVIOUS
    <2>1. OlderStay
      BY NextKeeps
    <2>2. Call.task \in DOMAIN tasks
      BY CallFacts DEF Inv
    <2>3. tasks[t].use < Me.use
      BY <2>2, YoungerBelow DEF Me
    <2>4. tasks[t].use \in 1..(Me.use - 1)
      <3>1. tasks[t].use \in 2..Len(uses) /\ Me.use \in 2..Len(uses)
        BY <2>2 DEF Inv, UsageSound, Placed, Me
      <3> QED BY <2>3, <3>1
    <2> QED BY <2>1, <2>4 DEF OlderStay
  <1>2. Inv /\ [Next]_vars => [Untouched]_vars
    BY <1>1
  <1> QED BY <1>2, SearchStaysSound, PTL DEF Spec, SpendingIsTemporary
=============================================================================
