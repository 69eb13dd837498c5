----------------------------- MODULE ProofSearch ----------------------------
(***************************************************************************)
(* dep0::typecheck::search_proof(): the search for a term of a given type, *)
(* by a tree of tasks that the main loop runs in rounds.  One call of      *)
(* search_task_t::run() is a frame of `calls`; a step of this module is    *)
(* one tactic, or one turn of the loop over the sub-tasks of a task.       *)
(*                                                                         *)
(*   problem  what is searched, where, with which quantity                 *)
(*   heap     the nodes behind the usage objects (see UsageCount)          *)
(*   uses     the usage objects, which share them: the node each holds now.*)
(*            1 is the caller's, 2 that of the main task                   *)
(*   tasks    every task created, the main task first                      *)
(*   calls    the stack of pending calls of run(): `at` is 0 on entry, and *)
(*            n + 1 once n sub-tasks had their turn                        *)
(*   cache    the first term found of each type                            *)
(*   expired  the deadline has passed                                      *)
(*   outcome  searching, none found, or the term                           *)
(*                                                                         *)
(* All the tasks of one search have the same quantity and the same         *)
(* permission to use mutable functions: they are part of the problem.      *)
(*                                                                         *)
(* Of the terms a search builds only this is kept:                         *)
(*   type     the type it was built for                                    *)
(*   vars     its variables, left to right, those in the arguments of an   *)
(*            application included: what usage_t::try_add(ctx, expr) adds  *)
(*   globals  the global functions and axioms the search applied in it     *)
(*   sound    every argument has the type of its parameter                 *)
(*                                                                         *)
(* Types are ground: what unification gives for one target is written      *)
(* down with the global.  A parameter is                                   *)
(*   [type, given, relevant, loops]                                        *)
(* where `given` is the value unification found for it (NoTerm: none),     *)
(* `relevant` says that a later parameter's type mentions it, and `loops`  *)
(* that the return type of its function unifies with its own type.  The    *)
(* quantity of a parameter has no part in a search.                        *)
(***************************************************************************)
EXTENDS Naturals, Sequences, SequencesExt, FiniteSets, Quantity

CONSTANTS
  Targets,         \* the types that can be searched
  Vars, Decl,      \* the variables of the context and their quantities
  Problems,        \* the searches to run
  MaxSearchDepth,  \* 10 in the code
  CanExpire        \* whether the deadline may pass during the search

NoTerm == [type |-> "none"]
Term == [type : Targets, vars : Seq(Vars), globals : SUBSET STRING, sound : BOOLEAN]

Param == [type : Targets, given : Term \union {NoTerm}, relevant : BOOLEAN, loops : BOOLEAN]
GlobalDecl == [name : STRING, kind : {"pure", "mutable", "axiom"}, absurd : BOOLEAN,
               ret : Targets, params : Seq(Param)]
Problem == [goal : Targets, ctx : Seq([var : Vars, type : Targets]), globals : Seq(GlobalDecl),
            trivial : SUBSET Targets, proved : SUBSET Targets, mutable : BOOLEAN,
            mult : Qty, before : Seq(Vars)]

\* What may be used where the search p is: no axiom at run-time, nothing
\* mutable unless that is allowed.
Permitted(p, names) ==
  \A g \in ToSet(p.globals) : g.name \in names =>
    /\ g.kind = "axiom" => p.mult = zero
    /\ g.kind = "mutable" => p.mutable

\* The count of v before the search, as quantities count.
Before(p, v) == Times(Cardinality({i \in DOMAIN p.before : p.before[i] = v}), one)

ASSUME TargetsAssumption ==
  Targets \intersect {"none", "searching", "none_found"} = {}
ASSUME DeclAssumption == Decl \in [Vars -> Qty]

\* The environment has one definition of each name; the caller has used no
\* variable more often than it may; and what unification takes from the target
\* has the type of the parameter and applies nothing that the search chose.
ASSUME ProblemsAssumption ==
  \A p \in Problems :
    /\ p \in Problem
    /\ \A g, f \in ToSet(p.globals) : g.name = f.name => g = f
    /\ \A v \in Vars : Before(p, v) <= Decl[v]
    /\ \A g \in ToSet(p.globals) : \A i \in DOMAIN g.params :
         LET given == g.params[i].given
         IN  given # NoTerm =>
               given.type = g.params[i].type /\ given.sound /\ given.globals = {}

VARIABLES problem, heap, uses, tasks, calls, cache, expired, outcome

vars == <<problem, heap, uses, tasks, calls, cache, expired, outcome>>
usage == <<heap, uses>>

U == INSTANCE UsageCount

-----------------------------------------------------------------------------
\* expr_t::var_t of a declaration of the context.
VarTerm(d) ==
  [type |-> d.type, vars |-> <<d.var>>, globals |-> {}, sound |-> TRUE]

\* An initializer list, which uses nothing.
EmptyList(type) ==
  [type |-> type, vars |-> <<>>, globals |-> {}, sound |-> TRUE]

\* expr_t::app_t of the global named g, of return type `type`.
App(g, type, params, args) ==
  [type    |-> type,
   vars    |-> FlattenSeq([i \in DOMAIN args |-> args[i].vars]),
   globals |-> {g} \union UNION {args[i].globals : i \in DOMAIN args},
   sound   |-> \A i \in DOMAIN args : args[i].sound /\ args[i].type = params[i].type]

Occurrences(term, v) == Cardinality({i \in DOMAIN term.vars : term.vars[i] = v})
-----------------------------------------------------------------------------
Main == 1
Searching == [type |-> "searching"]
NoneFound == [type |-> "none_found"]

NewTask(tactic, name, parent, target, depth, use) ==
  [kind |-> "one", tactic |-> tactic, name |-> name, parent |-> parent,
   target |-> target, depth |-> depth, use |-> use, status |-> "in_progress",
   result |-> NoTerm, subs |-> <<>>, temp |-> 0, args |-> <<>>]

Init ==
  /\ problem \in Problems
  /\ LET caller == U!AddInTurn(<<U!H!RootNode>>, 1, U!UsesOf(problem.before, one)).heap
     IN  heap = Append(caller, U!H!ChildNode(caller, 1))
  /\ uses = <<1, 2>>
  /\ tasks = <<NewTask("proof_search", "", 0, problem.goal, 0, 2)>>
  /\ calls = <<>>
  /\ cache = [t \in Targets |-> NoTerm]
  /\ expired = FALSE
  /\ outcome = Searching

Done(t) == tasks[t].status # "in_progress"
Failed(t) == tasks[t].status = "failed"
Succeeded(t) == tasks[t].status = "succeeded"

Call == Last(calls)
Me == tasks[Call.task]
Returns == calls' = Front(calls)

\* The end of a call of run() that sets the task's status.
SetFailed ==
  /\ tasks' = [tasks EXCEPT ![Call.task].status = "failed"]
  /\ Returns
  /\ UNCHANGED <<problem, cache, expired, outcome>>

SetResult(term) ==
  /\ tasks' = [tasks EXCEPT ![Call.task].status = "succeeded",
                            ![Call.task].result = term]
  /\ cache' = [cache EXCEPT ![Me.target] = IF @ = NoTerm THEN term ELSE @]
  /\ Returns
  /\ UNCHANGED <<problem, expired, outcome>>

\* The task becomes one that waits for any, or for all, of the new ones.
Waits(kind, new, temp, args) ==
  /\ tasks' = [tasks EXCEPT ![Call.task].kind = kind,
                            ![Call.task].temp = temp,
                            ![Call.task].args = args,
                            ![Call.task].subs = [i \in DOMAIN new |-> Len(tasks) + i]]
              \o new
  /\ Returns
  /\ UNCHANGED <<problem, cache, expired, outcome>>

-----------------------------------------------------------------------------
\* The tactics.  The usage object of this task, after adding a term to it:
Charged(term) == U!TryAddAll(heap, uses[Me.use], U!UsesOf(term.vars, problem.mult))

Overwrite(r) == heap' = r.heap /\ uses' = [uses EXCEPT ![Me.use] = r.node]

\* `depth.value() > 10ul or state.expired()`
TooFar == Me.depth > MaxSearchDepth \/ expired

\* At the start of run(), if it goes on.
Begins == calls # <<>> /\ Call.at = 0 /\ ~TooFar

Runs(tactic) ==
  /\ Begins
  /\ Me.kind = "one" /\ Me.tactic = tactic

Ancestors(t) ==
  LET above[s \in DOMAIN tasks] ==
        IF tasks[s].parent = 0 THEN {}
        ELSE {tasks[s].parent} \union above[tasks[s].parent]
  IN  above[t]

DetectLoop == \E a \in Ancestors(Call.task) : tasks[a].target = Me.target

SubTask(tactic) ==
  NewTask(tactic, "", Call.task, Me.target, Me.depth + 1, Me.use)

\* Mutant: a cached term costs nothing.
SearchWith_freeHit(tactics) ==
  LET hit == cache[Me.target]
  IN  /\ IF hit # NoTerm THEN SetResult(hit)
         ELSE IF DetectLoop THEN SetFailed
         ELSE Waits("any", [i \in DOMAIN tactics |-> SubTask(tactics[i])], 0, <<>>)
      /\ UNCHANGED usage

\* proof_search_impl: the cached term, if it can be paid for; if not, a new
\* search, which keeps the usage object that the failed attempt rolled back.
SearchWith(tactics) ==
  LET hit == cache[Me.target]
      r == Charged(hit)
  IN  \/ /\ hit # NoTerm /\ r.ok
         /\ Overwrite(r)
         /\ SetResult(hit)
      \/ /\ IF hit = NoTerm THEN UNCHANGED usage ELSE ~r.ok /\ Overwrite(r)
         /\ IF DetectLoop THEN SetFailed
            ELSE Waits("any", [i \in DOMAIN tactics |-> SubTask(tactics[i])], 0, <<>>)

Immediate == <<"search_var", "search_true_t", "search_trivial_value">>

Proof == Runs("proof_search") /\ SearchWith(Append(Immediate, "search_app"))
Quick == Runs("quick_search") /\ SearchWith(Immediate)

\* search_var: the first declaration of the right type that may be used.
Usable(d) ==
  /\ d.type = Me.target
  /\ U!Allowed(heap, uses[Me.use], d.var, problem.mult)

SearchVar ==
  /\ Runs("search_var")
  /\ IF \E i \in DOMAIN problem.ctx : Usable(problem.ctx[i])
     THEN LET i == SelectInSeq(problem.ctx, Usable)
          IN  /\ heap' = U!Added(heap, uses[Me.use], problem.ctx[i].var, problem.mult)
              /\ UNCHANGED uses
              /\ SetResult(VarTerm(problem.ctx[i]))
     ELSE SetFailed /\ UNCHANGED usage

\* search_true_t and search_trivial_value: the types that {} is a value of.
SearchClosed(tactic, types) ==
  /\ Runs(tactic)
  /\ IF Me.target \in types THEN SetResult(EmptyList(Me.target)) ELSE SetFailed
  /\ UNCHANGED usage

SearchTrueT == SearchClosed("search_true_t", problem.proved)
SearchTrivialValue == SearchClosed("search_trivial_value", problem.trivial)

\* The members of a finite set of positions, in order.
InOrder(S) ==
  [k \in 1..Cardinality(S) |-> CHOOSE i \in S : Cardinality({j \in S : j <= i}) = k]

\* search_app: one task for each global that could return the target.
Viable(g) ==
  /\ g.ret = Me.target
  /\ CASE g.kind = "axiom"   -> problem.mult = zero /\ ~g.absurd
       [] g.kind = "mutable" -> problem.mutable
       [] g.kind = "pure"    -> TRUE

SearchApp ==
  /\ Runs("search_app")
  /\ LET gs == InOrder({i \in DOMAIN problem.globals : Viable(problem.globals[i])})
     IN  Waits("any", [k \in DOMAIN gs |->
           NewTask("try_apply", problem.globals[gs[k]].name, Call.task,
                   Me.target, Me.depth, Me.use)], 0, <<>>)
  /\ UNCHANGED usage

\* try_apply: the values that unification found are added to the usage as
\* they are met; what is left to find must be irrelevant.
TakeArg(r, p) ==
  IF ~r.ok THEN r
  ELSE IF p.given # NoTerm
       THEN LET added == U!TryAddAll(r.heap, r.node, U!UsesOf(p.given.vars, problem.mult))
            IN  [ok |-> added.ok, heap |-> added.heap, node |-> added.node,
                 args |-> Append(r.args, p.given)]
       ELSE [r EXCEPT !.ok = ~p.relevant, !.args = Append(@, NoTerm)]

Global == CHOOSE g \in ToSet(problem.globals) : g.name = Me.name

Missing(args) == {i \in DOMAIN args : args[i] = NoTerm}

\* Mutant: the sub-tasks spend from the usage object of the task itself.
ArgTask_direct(p, temp) ==
  NewTask(IF p.loops THEN "quick_search" ELSE "proof_search",
          "", Call.task, p.type, Me.depth, Me.use)

ArgTask(p, temp) ==
  NewTask(IF p.loops THEN "quick_search" ELSE "proof_search",
          "", Call.task, p.type, Me.depth, temp)

TryApply ==
  /\ Runs("try_apply")
  /\ LET g == Global
         r == FoldLeft(TakeArg, [ok |-> TRUE, heap |-> heap, node |-> uses[Me.use],
                                 args |-> <<>>], g.params)
         missing == InOrder(Missing(r.args))
         temp == Len(uses) + 1
         held == [uses EXCEPT ![Me.use] = r.node]
     IN  \/ ~r.ok /\ Overwrite(r) /\ SetFailed
         \/ /\ r.ok /\ missing = <<>>
            /\ Overwrite(r)
            /\ SetResult(App(g.name, g.ret, g.params, r.args))
         \/ /\ r.ok /\ missing # <<>>
            /\ heap' = Append(r.heap, U!H!ChildNode(r.heap, r.node))
            /\ uses' = Append(held, Len(r.heap) + 1)
            /\ Waits("all", [i \in DOMAIN missing |-> ArgTask(g.params[missing[i]], temp)],
                     temp, r.args)

-----------------------------------------------------------------------------
\* run() itself.

\* Too deep or too late.
GiveUp ==
  /\ calls # <<>> /\ Call.at = 0 /\ TooFar
  /\ SetFailed
  /\ UNCHANGED usage

Enter ==
  /\ Begins
  /\ Me.kind # "one"
  /\ calls' = [calls EXCEPT ![Len(calls)].at = 1]
  /\ UNCHANGED <<problem, heap, uses, tasks, cache, expired, outcome>>

InLoop(kind) == calls # <<>> /\ Call.at > 0 /\ Me.kind = kind
Turns == Call.at - 1
JustRan == Me.subs[Turns]
TurnsLeft == Turns < Len(Me.subs)

\* The next sub-task has its turn, if it is not done.
RunSub ==
  /\ \/ InLoop("any") /\ (Turns > 0 => ~Succeeded(JustRan))
     \/ InLoop("all") /\ (Turns > 0 => ~Failed(JustRan))
  /\ TurnsLeft
  /\ LET next == Me.subs[Turns + 1]
         looped == [calls EXCEPT ![Len(calls)].at = @ + 1]
     IN  calls' = IF Done(next) THEN looped ELSE Append(looped, [task |-> next, at |-> 0])
  /\ UNCHANGED <<problem, heap, uses, tasks, cache, expired, outcome>>

AnyWins ==
  /\ InLoop("any") /\ Turns > 0 /\ Succeeded(JustRan)
  /\ SetResult(tasks[JustRan].result)
  /\ UNCHANGED usage

\* Return with the task still in progress.
ToBeContinued == Returns /\ UNCHANGED <<problem, tasks, cache, expired, outcome>>

\* Mutant: a task whose alternatives all failed goes on waiting.
AnyEnds_waits ==
  /\ InLoop("any") /\ ~TurnsLeft
  /\ Turns > 0 => ~Succeeded(JustRan)
  /\ ToBeContinued
  /\ UNCHANGED usage

AnyEnds ==
  /\ InLoop("any") /\ ~TurnsLeft
  /\ Turns > 0 => ~Succeeded(JustRan)
  /\ IF \A i \in DOMAIN Me.subs : Failed(Me.subs[i]) THEN SetFailed ELSE ToBeContinued
  /\ UNCHANGED usage

AllFails ==
  /\ InLoop("all") /\ Turns > 0 /\ Failed(JustRan)
  /\ SetFailed
  /\ UNCHANGED usage

\* Mutant: result i goes to argument i, the last one to all that follow.
Filled_byPosition ==
  [i \in DOMAIN Me.args |->
     IF Me.args[i] # NoTerm THEN Me.args[i]
     ELSE tasks[Me.subs[IF i <= Len(Me.subs) THEN i ELSE Len(Me.subs)]].result]

\* build_result: the results go to the places that were left open, in order.
Filled ==
  [i \in DOMAIN Me.args |->
     IF Me.args[i] # NoTerm THEN Me.args[i]
     ELSE tasks[Me.subs[Cardinality({j \in Missing(Me.args) : j <= i})]].result]

AllEnds ==
  /\ InLoop("all") /\ ~TurnsLeft
  /\ Turns > 0 => ~Failed(JustRan)
  /\ IF \A i \in DOMAIN Me.subs : Succeeded(Me.subs[i])
     THEN LET r == U!TryAddAll(heap, uses[Me.use], U!DirectUses(heap[uses[Me.temp]].data))
          IN  /\ Overwrite(r)
              /\ IF r.ok THEN SetResult(App(Me.name, Me.target, Global.params, Filled))
                         ELSE SetFailed
     ELSE ToBeContinued /\ UNCHANGED usage

-----------------------------------------------------------------------------
\* search_proof: rounds until the main task is done; then its usage is added
\* to the caller's.
NextRound ==
  /\ outcome = Searching /\ calls = <<>> /\ ~Done(Main)
  /\ calls' = <<[task |-> Main, at |-> 0]>>
  /\ UNCHANGED <<problem, heap, uses, tasks, cache, expired, outcome>>

\* Mutant: the usage is added before looking at the result.
Finish_chargeFirst ==
  /\ outcome = Searching /\ calls = <<>> /\ Done(Main)
  /\ LET r == U!TryAddAll(heap, uses[1], U!DirectUses(heap[uses[2]].data))
     IN  /\ heap' = r.heap
         /\ uses' = [uses EXCEPT ![1] = r.node]
         /\ outcome' = IF Succeeded(Main) /\ r.ok THEN tasks[Main].result ELSE NoneFound
  /\ UNCHANGED <<problem, tasks, calls, cache, expired>>

Finish ==
  /\ outcome = Searching /\ calls = <<>> /\ Done(Main)
  /\ LET r == U!TryAddAll(heap, uses[1], U!DirectUses(heap[uses[2]].data))
     IN  IF Failed(Main) THEN outcome' = NoneFound /\ UNCHANGED usage
         ELSE /\ heap' = r.heap
              /\ uses' = [uses EXCEPT ![1] = r.node]
              /\ outcome' = IF r.ok THEN tasks[Main].result ELSE NoneFound
  /\ UNCHANGED <<problem, tasks, calls, cache, expired>>

\* The three seconds are over.
Expire ==
  /\ CanExpire /\ outcome = Searching
  /\ ~expired /\ expired' = TRUE
  /\ UNCHANGED <<problem, heap, uses, tasks, calls, cache, outcome>>

Tactic == \/ Proof \/ Quick \/ SearchVar \/ SearchTrueT
          \/ SearchTrivialValue \/ SearchApp \/ TryApply

Step == \/ NextRound \/ GiveUp \/ Enter \/ RunSub \/ Tactic
        \/ AnyWins \/ AnyEnds \/ AllFails \/ AllEnds \/ Finish

\* search_proof has returned.
Returned == outcome # Searching /\ UNCHANGED vars

Next == Step \/ Expire \/ Returned

Spec == Init /\ [][Next]_vars

\* The loop of search_proof runs in the caller's thread: it never just stops.
\* This is WF_vars(Step): a step is possible until the search has returned, or
\* TLC would report a deadlock; the deadline passes only once.
FairSpec == Spec /\ ([]<><<Next>>_vars \/ <>[](outcome # Searching))

-----------------------------------------------------------------------------
Found == outcome \notin {Searching, NoneFound}

Limited(v) == Decl[v] # many

\* A search that finds nothing leaves the caller's count of every variable as
\* it was ("`usage` is guaranteed to be unchanged").
FailureLeavesUsage ==
  outcome = NoneFound =>
    \A v \in Vars : U!Count(heap, 1, v) = Before(problem, v) /\ uses[1] = 1

\* The caller pays for every variable of the term it gets, whether the term
\* was built, taken from the cache, or made of both; and no limited variable
\* appears more often than it is still available.
FoundIsPaidFor ==
  Found => \A v \in Vars :
    LET used == Before(problem, v) + Times(Occurrences(outcome, v), problem.mult)
        count == U!Count(heap, uses[1], v)
    IN  IF Limited(v) THEN used <= count /\ count <= Decl[v]
                      ELSE (used > 0) => (count > 0)

\* What is found is a proof of what was asked: each function in it gets
\* arguments of its parameters' types, wherever they came from, and each may
\* be used where the search is: no axiom at run-time, nothing mutable unless
\* that is allowed.
FoundIsProof ==
  Found =>
    /\ outcome.type = problem.goal /\ outcome.sound
    /\ Permitted(problem, outcome.globals)

\* Sub-tasks of a task that waits for all spend from a usage object of their
\* own: the object of the task itself is not touched by their steps.
SpendingIsTemporary ==
  [][\A t \in DOMAIN tasks :
       /\ tasks[t].kind = "all" /\ tasks[t].status = "in_progress"
       /\ calls # <<>> /\ t \in Ancestors(Call.task)
       => \A v \in Vars : U!Count(heap', uses'[tasks[t].use], v)
                             = U!Count(heap, uses[tasks[t].use], v)]_vars

\* Every search ends, whether or not the deadline passes: the depth of its
\* tasks is bounded, and so is the number of tasks each can start.
SearchEnds == <>(outcome # Searching)
=============================================================================
