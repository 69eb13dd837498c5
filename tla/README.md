# Verification of DepC

DepC (`src/dep0`) is a compiler, written in C++, for a small language with
dependent and quantitative types: a function may ask for proofs as arguments,
and a variable is declared as erased (used at compile time only), linear (used
at most once at run time) or unrestricted. This directory holds TLA+ models of
the compiler's own logic, TLC runs over small instances of them, and proofs,
checked by TLAPS, of some of their properties for every instance.

Paths below are relative to `src/dep0/`; `03/` stands for
`lib/03_typecheck/src/`, `05/` for `lib/05_llvmgen/src/`. `PROJECT.json` lists
for every definition the lines it models, for every property the change of the
code it was seen to catch, and every hazard with its line.

* [1. The system](#1-the-system)
* [2. The modules and how they follow the code](#2-the-modules-and-how-they-follow-the-code)
* [3. The runs, their bounds and what they show](#3-the-runs-their-bounds-and-what-they-show)
* [4. Fairness and liveness](#4-fairness-and-liveness)
* [5. What is proved](#5-what-is-proved)
* [6. Where the code and its documents disagree](#6-where-the-code-and-its-documents-disagree)
* [7. What is not modelled](#7-what-is-not-modelled)
* [8. Plan](#8-plan)

## 1. The system

The compiler is one process with one thread. A file is parsed, checked,
transformed and turned into an LLVM module, which is printed, compiled or
linked; the layers of `lib/` are these stages, each using those before it.

    main -> job -> pipeline:  parse -> typecheck -> transform -> llvmgen -> compile -> link
                                          |
             environment (globals) -- contexts (locals) -- usage (counts)
                        \                 |                 /
                         `----------  scope_map  ----------'
                                          |
                   proof search, normalisation, equivalence, unification

What makes such a program hard to test is not concurrency but *sharing and
order*: mutable tables that outlive the scope they were made for and are seen
through other tables, speculative work that must be undone, rewriting of trees
whose names are reused, loops over lists that are edited meanwhile, and
failures half way through.

| Component | State | Operations | Talks to | Hard behaviour | What makes it correct |
|---|---|---|---|---|---|
| scope_map, `lib/00_core/include/dep0/scope_map.hpp` | nodes shared by maps: entries, index, parent, how much of the parent is visible | construct, extend, innermost_copy, deep_copy, try_emplace, lookup, iterate, write, move, destroy | used by the three tables below | a level goes on growing after it was inherited | a map behaves like a flat dictionary of its own |
| environment, `03/environment.cpp` | what every global name stands for | extend, try_emplace (a rule for each kind), import, lookup | module checker, normalisation | a definition overwrites a declaration in a level others share | no name hides another; a meaning is final |
| contexts, `03/context.cpp` | local variables, their types, the scope they belong to | extend, add, rewrite, lookup | checking of expressions, proof search | a deep copy is rewritten in place; two contexts count shadowed names on their own | a name means what the reader of the source thinks; facts stay where they hold |
| usage, `03/usage.cpp` | how often each variable was used | extend, merge, three forms of try_add | checking, proof search | a failed addition is rolled back; branches start from the same count | linear at most once on any path, erased never |
| checking of statements and expressions, `03/check.cpp`, `type_assign.cpp` | none of its own | one function for each form | all of the above | speculation, facts learnt from conditions | an accepted program obeys the typing rules |
| module checker, `03/check.cpp`, `complete_type.cpp`, `c_types.cpp` | the environment, the set of declarations | check each entry, account for declarations | environment | placeholders while a body is checked | acceptance depends on the text of the module alone |
| proof search, `03/proof_search.cpp`, `03/tactics/` | a tree of tasks, a cache, a deadline, usage | rounds of `run()`, one tactic for each task | contexts, usage, unification | cache hits, temporary spending, half-built terms, the deadline | the term proves the goal and is paid for; the search ends |
| terms, `lib/01_ast/include/dep0/ast/*_impl.hpp` | none: functions on trees | occurs_in, replace, rename, alpha_equivalent, hash_code | everything | names are reused and renamed in place | as if bound variables had no names |
| substitution, unification, rewriting, `03/substitute.cpp`, `unification.cpp`, `rewrite.cpp` | none | | normalisation, proof search | renaming while walking the list that holds the names | nothing is captured |
| normalisation, `03/beta_reduction.cpp`, `delta_unfold.cpp`, `beta_delta_*.cpp` | none | passes over bodies and expressions | equivalence, transform | statements erased and spliced while iterating | a normal form means the same |
| fixed-width arithmetic, `03/cpp_int_*.cpp`, `delta_unfold.cpp`, `05/gen_val.cpp` | none | fold, or emit an instruction | normalisation, generation | two implementations of one operation | folding is execution; no accepted division traps |
| transform, `lib/04_transform` | the module | normalise every function | driver | | as normalisation |
| generation, `05/gen_*.cpp` | blocks under construction, local variables and their addresses, values to destruct | one function per form | LLVM | blocks are opened by one function and closed by another; what is made in one place is freed in another | the code does what the source says; every box is owned once |
| prelude, `03/prelude.cpp` | none: a list of axioms and functions | | proof search, and whoever writes a program | an axiom is believed | no axiom is false of a number a program computes |
| driver, `app/dep0/*.cpp`, `lib/06_compile`, `lib/07_link` | the files of a job, temporary files | start, stages, rename, collect, link | all stages | failures between two renames; moves of owners | exit code 0 means that everything is there; no temporary file is left |
| temporary files, `lib/00_core/src/temp_file.cpp` | a path, a FILE, whether to keep it | create, move, destroy, rename_and_keep | driver | rename across file systems copies, reopens, removes | as the driver |
| parser, errors, tracing, test support | | | | | see [7](#7-what-is-not-modelled) |

## 2. The modules and how they follow the code

A module whose name begins with `MC` gives the constants of a run their values
and holds nothing else; where there is none (`contexts`) the configuration has
the values. Operators named `Definition_mutation` are the plausible
faults a property was seen to catch; they are used by no specification.

**ScopeHeap, ScopeMap, ScopeSnapshot.** `ScopeHeap` has the nodes of scope_map
as a sequence and its operations as operators on that sequence; usage,
environment, contexts and proof search are built on it too, as they are in the
code. `ScopeMap` adds the objects (`state[m]` is the node that m owns) and one
action per operation. A node in the code has `parent` and `max_parent_index`;
here it has `outer`, the levels found by following `parent`, and
`OuterFollowsParent` (part of `HeapSound`) says that the two are the same.
`ScopeSnapshot` is the abstract specification: maps are flat dictionaries from
names to cells, without levels. `ImplementsPromise` is the refinement, with the
places of the heap for cells. `CopiesSeparate` compares a deep copy with its
original, `LookupIsLastVisible` compares the two ways to read a map.

**Quantity, UsageCount, BranchUsage.** `UsageCount` is `usage_t`: `TryAdd` and
the two forms for a whole term, with the rollback. `BranchUsage` is the way the
checker uses it: `frames` is the stack of pending calls of check_stmt and
type_assign_pair, with an action for each point at which they extend, merge,
add or drop a usage object. Next to the counts it keeps `use`, what really
happens on the worst path; the properties relate the two.

**ProofSearch.** A step is one tactic, or one turn of a loop over
sub-tasks; `calls` is the stack of `run()`. A term is kept as its type, its
variables, the globals the search applied in it and whether it is well typed.
What unification answers is written down with each global, which is how
polymorphism is taken out.
`Expire` is the deadline, which may pass before any step.

**EnvTable, ModuleCheck, ModuleRules.** `EnvTable` is the table of global symbols
and its rules for every kind of symbol, on the levels of `ScopeHeap`.
`ModuleCheck` has the loop of `check()`, one action per kind of entry, with the
environments it makes for structs and bodies, which are kept with the bodies
and go on seeing the table they extend (`MeaningIsFinal` speaks of all of them).
`ModuleRules` says what should be accepted a second time, of the text alone:
without environments, without an order of checking.

**TempFile, Driver.** `TempFile` has `temp_file_t` as operators on an object and
a disk, every failure of every call included; `Driver` has the stages of every
kind of job, which end, fail or go on. Checking and printing write no file, and
printing transforms the program first.

**Statements, BetaBody, GenBody, BodyFlow.** A body of statements and the
questions asked about it; normalisation of bodies; generation of basic blocks
with the inlining of lambdas; and the way of one function through all of this
to a call, executed one instruction at a time (`Step`) in a world that answers
mutable conditions as it likes. `Meaning` in `Statements` is the reference: what
the source says a body does.

**Layout, GenValue, Memory, Ownership.** What `BodyFlow` leaves out: values.
`Layout` has types and typed expressions, `GenValue` generates structured code for a
function over them (one operator per form of expression, and for copies,
allocations, loops and destructors), moves the allocations of known size to the
entry, and records where the generator or LLVM would fail an assertion
(`asserts`) and where LLVM's verifier would refuse the code (`invalid`).
`Memory` is a sequence of objects made of cells, and how a value lies in it.
`Ownership` makes the call: `Init` generates, passes the arguments and leaves room
for the result; there is one action per instruction. `IsDefined` says when an
instruction is defined; where it is not, `Fault` is the only step. `Run` is the
reference: the value the source means. A struct and a tuple are generated
alike; the one difference, the sort of a tuple's list, is `TupleList`.

**FixedWidth, ConstantFolding.** The arithmetic of an integer type, as folded and
as executed; and expressions of literals, operators, comparisons and
connectives in postfix order, which is the order of checking. A type is its
signedness and half of 2^width, so a theorem for every `half` is one for every
width. What C++ leaves undefined (the product of two 16-bit numbers that
overflows `int`) is a choice of any value.

**Prelude.** The axioms of the prelude, one conjunct each, as claims about the
numbers that `ConstantFolding` executes; what takes a proof of a `bool_t` and
returns one is a conjunct too. The C++ builds the type of each as a tree;
`believe_me` is left out, as it claims everything.

**Terms, Nameless, Substitution, TermSteps.** Trees with the forms that bind, and
the algorithms on their names. All forms that do not bind are one form with
different operators. `Nameless` is the reference: the same trees with numbers
for bound variables. `TermSteps` takes two expressions, gives both their
arguments, and compares what comes out. `PassArgument` is what an application
does to a function or its type, `GiveElement` what a list does to a tuple or a
struct: it records the type each element was checked against, which
`SubscriptHasElementType` compares with the type that a subscript of that list has,
which another loop computes. The sort that the C++ keeps with every node is not
part of a tree here; unification compares those of variables and constants
(`SortOf`).

**CtxTable, Contexts.** `ctx_t` as two nodes, one in each of two heaps; and the
constructs that make contexts from contexts, nested. `binders` is what a reader
of the source would list. A reason adds what it proves to a context of its own
(`BeginBecause`), or nothing if it is itself a type (`BeginBecauseOfType`). A variable is a name and a shadow id, which the code
takes from an unbounded count; here `HasShadow` and `CanAddUnnamed` keep a
construct from starting what the supply is too small for, so that running out
is a bound of the model and never a wrong variable.

**HeapLemmas, ScopeMapProofs, UsageProofs, SearchProofs, ModuleProofs,
ContextsProofs, DriverProofs, FoldingProofs.** Theorems about `ScopeHeap`,
`ScopeMap`, `BranchUsage`, `ProofSearch`, `ModuleRules`, `Contexts`, `Driver` and
`Prelude`, with the invariants they need; section 5 has the arguments.

Sharing between components is modelled where it matters: `UsageCount`,
`EnvTable` and `CtxTable` are instances of `ScopeHeap`; `BranchUsage` and
`ProofSearch` of `UsageCount`; `ModuleCheck` of `EnvTable`; `Driver` of
`TempFile`; `BodyFlow` joins checking, normalisation, generation and execution;
`Ownership` joins generation of values and execution.

## 3. The runs, their bounds and what they show

Deadlock is checked in `contexts`, `module_check` and `ownership`,
which can always go on, and in `proof_search`, where a stuck search would be a
deadlock. Elsewhere the modelled thing ends (an exit code, a finished call, the
end of an expression) or reaches a bound.

| Run | Bounds | What it shows |
|---|---|---|
| `scope_map` | 2 objects, 2 keys, 2 values, 4 nodes, 3 entries; symmetric in objects, keys and values | the heap is sound, lookup agrees with iteration, a lookup never changes unless its own map gets an entry, copies share nothing, and levels cannot be told from flat dictionaries |
| `branch_usage` | 3 variables, one of each quantity; 5 nodes, so an if-else in a branch or an attempt in an attempt | the count is exactly the worst path, and nothing is overused |
| `proof_search` | 2 of 10 globals in every order and context, 3 in the plainest context; depth 3; all deadlines | what is found is a proof, is paid for, a failure costs nothing, and every search ends |
| `module_check` | up to 5 of 18 entries, one module after another | acceptance is what the rules say, in both directions; run-time names are defined; structs are finite; unfolding ends; what a name stands for is final in every environment that is still reachable |
| `driver` | 1 and 3 input files, all jobs, all failures | exit code 0 means done, every job ends and leaves no temporary file, the linker's objects exist |
| `body_flow` | about 26000 bodies, 2 conditions, at most 2 answers when bodies are compared | `impossible` is unreachable, normalising changes nothing, generated code behaves like the source, LLVM refuses only for the five reasons named |
| `ownership` | 519 functions of one or two statements over vectors, pairs, vectors of vectors, matrices and references, on three inputs each | the caller finds the value the source means; nothing is read, written or freed that is not there; every box is owned by the result, once, or was freed |
| `constant_folding` | 6 types, literals around all their boundaries, 5 steps, 3 operands at a time | values fit, divisions are defined, folding agrees with execution but where stated, no axiom of the prelude is false |
| `term_steps` | pairs that differ in at most two of seven choices, arguments with the same names | substitution, equivalence, hashing, unification and rewriting agree with the nameless reference; a subscript has the type its element was checked against |
| `contexts` | 1 name, 4 frames, 2 parameters, 1 new fact for each construct | names, facts and addresses follow the source |
| `signed_division` | the numbers of a test, 2 and -1, in 8 bits | expected violation: the trace has `-1 / 2`, folded to 127 and executed to 0 |
| `substitution_capture` | as `term_steps`, with an argument about `t:1` | expected violation: the argument's `t:1` is captured |

*Why the bounds are enough.* In `scope_map` three levels with a destroyed parent
and a complete deep copy of two levels fit into four nodes; a lookup compares one key with at most two
others. Two of three variables in `branch_usage` are at their limit after one
use, and a branch in a branch shows whatever a deeper one would, since a frame
touches only its own object and its parent's; the proof of this is in UsageProofs. In `proof_search` the searches
that matter are those in which two arguments want one variable, in which a
cached term is wanted again after it was spent, and in which one argument fails
after another succeeded; each of them takes two globals, and a third one lets
the tasks of the second end in another round. The widths of `constant_folding`
are scaled (2, 4 and 8 bits, and an `int` of 8), and the theorems below remove that
bound. One name is the worst case of `contexts`, in which every declaration
shadows all those before it; a second name would only be untouched; its 15
shadow ids are never all in use. The theorems about contexts and about searches
remove those bounds, but for `FoundIsPaidFor` and `SearchEnds`. In
`ownership` every form of expression appears in every other that can hold it;
vectors have lengths 0, 1 and 2, so that loops over elements run not at all,
once (where the generator leaves the loop out) and twice. `Vector` is a tuple
whose array is sized by its first field, `Clash` has a field with the name of
an argument.

*Preconditions.* `PlainCallsRunLikeSource` speaks of bodies whose inlined lambdas
return a value and only at the end, `ImpossibleIsUnreachable` of bodies with at
most one mutable condition, `FoldingFollowsExecution` of operands that agree
and operations other than those in `FoldsTruly`, `WrittenStructsAreFinite` of
fields without computed types, `UnfoldingEnds` of functions that were not
declared before. `MeaningIsFinal` lets a declaration get its definition,
`EquivalentsHashAlike` speaks of expressions in which all names are apart, with equal
quantities and without reasons, and `RewriteIsExact` of those without lists,
members, subscripts and reasons. Where that leaves out the very case in which a
hazard bites, the hazard's note in `PROJECT.json` says so. The properties of `ownership` speak of the functions that are
`Regular`, 462 of the 519, whose generation avoids five faults of the
generator: `AddressesHold`, `LosesNothing`, `SizesAreValues`, `NamesApart` and
`CopiesInOneLoop`; without any one of them TLC finds a counterexample. Outside of them the code does not do what one would expect;
[6](#6-where-the-code-and-its-documents-disagree) says what it does.

## 4. Fairness and liveness

Two components have a liveness property. A job of the driver ends, and however
it ends its temporary files are gone for good: `NoTempFileLeft`, which is
`<>[](...)`, under `WF_vars(Next)`. The compiler is one thread that runs its
stages in order; it waits only for the linker and for file system calls, and
those return, if with a failure. A crash is not among the steps: nothing is
promised after one.

A search for a proof ends, `SearchEnds`: whatever the globals, whether or not the deadline passes, the loop of `search_proof` ends. It
is checked under `FairSpec`, which says that the loop goes on until it returns.
The code justifies it: it is a `while` in the only thread, which blocks on
nothing. `FairSpec` has the form `[]<><<Next>>_vars \/ <>[](outcome # Searching)`.
This is `WF_vars(Step)`, written without ENABLED: deadlock is checked in this
run, so a step is possible as long as the search goes on, and `Expire` can happen
once only. No fairness is assumed of the deadline: it need not pass.

That unfolding ends is a safety property (`UnfoldingEnds`): no set of
definitions leads back to itself. Termination of the other algorithms is not
stated: each of them is a recursion over a tree.

## 5. What is proved

All theorems are about the specifications that TLC checks, with no instance
fixed. They rest on named assumptions only, each stated in the module that
declares the constants:

| Assumption | What it says | Why the code justifies it |
|---|---|---|
| `BoundsAssumption` (ScopeMap) | the bounds of the model are natural numbers | they are ours |
| `DeclAssumption`, `TermsAssumption` (BranchUsage) | a variable is declared with one of the three quantities; a term lists its variables | `qty_t` is an enumeration |
| `TargetsAssumption` (ProofSearch) | no type is one of the marks for a missing term | they are marks of ours |
| `DeclAssumption`, `ProblemsAssumption` (ProofSearch) | a variable has one of the three quantities; the environment has one definition of each name; the caller has used no variable more often than it may; a value that unification takes from the target has the type of its parameter, and the search applied nothing in it | `env_t::try_emplace` refuses a second definition; the caller's object was filled by `try_add`, see `NothingOverused`; `unify` only takes subterms of a target that was checked. That is a property of the type system, not of the search: neither the type of such a value nor the globals in it are looked at again (`tactics/search_app.cpp:66`) |
| `NamesAssumption` (Contexts) | no name of the source is the mark for a variable without a name or for a missing one; the types of declarations are the two of the model; bounds are natural numbers | they are ours: `auto` is a keyword |
| `PreludeAssumption` (ModuleCheck) | the prelude names each thing once; it has types, axioms, builtin declarations and functions | `prelude_text` in `03/prelude.cpp` is a fixed text of axioms, functions and builtins, checked once, and `make_base_env` imports it |
| `EntriesAssumption` (ModuleCheck) | an entry has one of the six kinds and no name of the prelude | `global_t{nullopt, name}`: those of the prelude have a module |
| `JobsAssumption`, `PathsAssumption`, `ContentAssumption` (Driver) | a job has inputs, linking has an output; outputs of different files differ and are no temporary files; there are more temporary names than inputs; a result of the compiler is something | `main` refuses an empty list and links to `a.out` without `-o`; an extension is appended to the name; a temporary name is made of thread and time in a directory of its own |
| `FixedWidthAssumption` (ConstantFolding) | a type has at least one bit | the types are `i8_t` to `u64_t`; the remaining conditions are bounds of ours |

*HeapLemmas.* What the operations of ScopeHeap do to the structure of a heap and to
lookups, for any keys and values: the proofs about usage counts, environments and
scope maps cite it. `WellFormed` says that a node's levels lead to
older nodes with as many entries as they show, and that index and data agree.
Under it there are a lemma for what each operation builds (`ChildSees`,
`SameSees`, `CopySees`, `AddedSees`, `WrittenSees`) and one for what it leaves alone
(`SameNodesSameLookups`). `LeastOf` (a non-empty set of naturals has a least element) stands in
for induction, because induction theorems over predicates cannot be
instantiated with the provers in use: a lookup that walks the levels stops at
the *first* level with the key.

*ScopeMapProofs.*
- `TypeCorrect`: `Spec => []TypeOK`.
- `HeapStaysSound`: `Spec => []HeapSound`: no two objects own one node,
  `outer` is what following `parent` gives, index and data agree at every level.
- `LookupsNeverShift`: `Spec => LookupsStay`.
- `SharingIsInvisible`: `Spec => ImplementsPromise`: scope maps implement the flat
  dictionaries of ScopeSnapshot.
- `CopiesAreSeparate`: `Spec => CopiesSeparate`.

The inductive invariant is `Inv == TypeOK /\ HeapSound`. Neither half is
inductive alone: `Write` changes the cell that a lookup returns, and that this is a
cell at all (`FindType`) rests on levels that lead to older nodes with enough entries
(`SoundLevel`), while to say so of a new node needs its types. There is one lemma
for what each operation builds (`ChildSound`, `SameNodeSound`, `CopiesSound`,
`EmplacedSound`, `WrittenSound`) and one for why the rest of the heap is not
disturbed (`OldNodesKept`, `FollowsKept`). The theorem about lookups is an action
property: `FindKept` shows that an entry added anywhere is, for every other map,
either at a level it does not see or beyond the limit to which it sees it.

The refinement maps a place of the heap to a cell of the abstract store. An
operation that builds nodes may put new cells into the store and must show the new
map what the abstract one asks for (`NewMapParts` and the lemmas on it): the
view of its source for `Extend`, fresh cells with the same values for a copy. A deep
copy (`DeepCopySees`) looks a name up in the copies of the levels, and stops
at the copy of the level where the original stops. `TryEmplace` is a step or,
where the map has the key in its own scope, a stutter; it needs that nobody
else owns the node (`OwnersDistinct`) and that the abstract store has room
(`RoomForEntry`, from `Bounded`). Destroying and moving only hand views over.

*UsageProofs.*
- `AccountsStaySound`: `Spec => []Inv`.
- `NothingOverused`: `Spec => []NeverOverused`.
- `CountsStayExact`: `Spec => []CountIsExact`.
- `CommittingSucceeds`: `Spec => []CommitsSucceed`.

For any variables, terms and depth of nesting. `CountIsExact` is not
inductive. That merging a branch adds what it used and no more rests on how the
objects of the frames extend each other: an object extends the one of the frame below *as
that is now*, so nothing was added below since, and has an entry of
its own only for what had no use there yet (`Extends`); and it is younger than
all below (`Younger`), so adding to the topmost changes no other count. `Inv` says so
of the whole stack. `AddingAll` is about a whole term: adding its uses one by
one is exact if it succeeds, and if it does not, every count is what it was,
which is what the rollback is for. `CommittingSucceeds` says that the rejections check_stmt and type_assign_pair
provide for when they combine branches never happen: whatever is wrong was
rejected inside of a branch.

*SearchProofs.*
- `SearchStaysSound`: `Spec => []Inv`.
- `FindsProofs`: `Spec => []FoundIsProof`.
- `FailuresAreFree`: `Spec => []FailureLeavesUsage`.
- `SubTasksSpendApart`: `Spec => SpendingIsTemporary`.

For any types, variables, globals, depth, and whenever the deadline passes.
`FoundIsProof` speaks of the term of the main task; `Inv` says of *every* task what
its result is (`Fits`), which needs to know what the result is *for*: the
sub-tasks of an alternative look for what their task looks for (`Alternatives`),
and those of an application for the parameters whose arguments are still open,
each at its rank among them (`Sorted`; `Ordered` is the lemma about ranks). Tasks end in
different rounds, and the results are put back by counting. A hit in the cache
fits because the cache maps a type only to terms that fit it.

`FailureLeavesUsage` is about the caller's usage object. It changes when the search
commits, so no other step may change it, and that commit must not fail half
way: `Unspent` says that while nothing is found it counts what it did before, and
`Payable` that the object of the main task extends it and has entries of its
own only for what can still be added. That an addition to one object changes no
older one is `Objects`: objects have different nodes, and an object extends no node that a
younger object has (`Apart`). Adding a term's variables to an object replaces its
node and keeps all of this (`ObjectCharged`, resting on lemmas of UsageProofs).
`SpendingIsTemporary` follows from the same and from an argument about the tree: every
task below one that waits for all its arguments has an object at least as young
as the temporary one (`YoungerBelow`), since a task passes down either its own object or a
younger one.

*ModuleProofs.*
- `EnvironmentExplains`: `Spec => []Inv`.
- `VerdictFollowsRules`: `Spec => []RulesDecide`.
- `RuntimeNamesAreDefined`: `Spec => []RuntimeIsDefined`.
- `StructsAreFinite`: `Spec => []WrittenStructsAreFinite`.
- `UnfoldingIsFinite`: `Spec => []UnfoldingEnds`.
- `MeaningNeverShifts`: `Spec => MeaningIsFinal`.

For any prelude, any set of entries and any number of modules. `RulesDecide` is about
verdicts, and a verdict depends on the environment; the invariant says
what the environment *is*: `Environments` (both environments have the prelude,
and the base has nothing else), `Known` (every name that has an entry stands for what
the entries say, in the order of the text, and no other name for anything),
`Explained` and `BodySees` (an accepted entry passed the rules and the
environment that its body keeps has the names before it and the function itself as a declaration).
`Judged` ties the status to them. Finiteness follows without induction: the longest
chain would have to start at a first entry (`LeastOf`), and each step of a
chain goes to an earlier one.

*ContextsProofs.*
- `ContextsStaySound`: `Spec => []Inv`.
- `NamesFollowSource`: `Spec => []ContextsFollowSource`.
- `ReturnTypesSeeParameters`: `Spec => []ReturnTypeSeesParameters`.
- `AddressesDoNotOutlive`: `Spec => []NoAddressOutlives`.

For any names, nesting, number of parameters and of facts. What a context sees
(`Sees`: the variable a name stands for, its type and its scope) is not inductive.
Two things could disturb it. A new variable could be one that is already in
use: shadow ids grow along the list of binders with the same name (`Distinct`),
and only bound variables have entries (`Registered`), so the successor of what a
name stands for is new, although contexts count on their own. And a declaration or a
fact could reach a construct further out: a construct writes only to nodes that
were allocated since it was entered (`Placed`), which none further out sees. Leaving a
construct cuts heap and binders back to where they were (`Forgetting`). The one operation that
copies, learning a fact, rewrites the types of its copy and nothing else
(`CopiesSee`, `RewrittenMeans`): both chains of levels are walked in step, and a name is
found in the copy of the level where the original has it. Addresses follow
because identifiers of scopes increase from the outermost construct inwards.

*DriverProofs.*
- `FilesAreOwned`: `Spec => []Inv`.
- `SuccessIsTrue`: `Spec => []ZeroMeansDone`.
- `LinkerFindsObjects`: `Spec => []ObjectsAreThere`.
- `ReturningCleansUp`: `Spec => []NoneLeft`: whoever returns 0 or 1 has left no temporary
  file. This is the safety half of `NoTempFileLeft`; that a job
  returns is left to TLC.

`Inv` says where a job of each kind may be (`OnTrack`), that the objects of the
vector own pairwise different files, each with the object code of the input at its place
(`Collected`), that a result not yet kept owns one more (`Holding`), that
nothing else is there (`AllOwned`), and that the outputs of the inputs before the current one are
made. Renaming is the step that could break it: onto an output that another input
was compiled to, or away from under the object that removes it (`Renaming`,
`Kept`).

*FoldingProofs.*
- `ConstantsFit`: `Spec => []TypeOK`.
- `AcceptedDivisions`: `Spec => []DivisionsAreDefined`.
- `FoldingIsSound`: `Spec => FoldingFollowsExecution`.
- `PreludeIsSound`: `Spec => []AxiomsAreTrue`.

They hold for every width and signedness. The argument is arithmetic modulo
2^width: a bit pattern is congruent to its value (`Remainder`, `Reading`), the
operations respect congruence (`Arithmetic`), and two congruent values of a
type are equal (`NearIsEqual`, `Wrapping`). The same argument does not apply to
division, which is why a signed one is folded wrongly. Comparisons look at
patterns and keep the order (`ComparingIsExecuting`). `TypeOK` is inductive as
it is.

The axioms rest on `ConstantsFit` (the operands are values of the type) and
`ComparingIsExecuting` (`RelationsAreTrue`: each comparison is that of the
integers, so the laws of order are those of the integers). Those about
`a + 1` and `a - 1` need `WrappingKeeps`: the sum is exact because the premise
keeps it between two values of the type. Those of `bool_t` are proved by cases
over 0 and 1.

*Only model-checked.*
- Liveness (`NoTempFileLeft`, `SearchEnds`): fairness and ENABLED are out of the
  prover's reach.
- The modules with RECURSIVE operators, which are recursive because the code
  walks trees: `Statements` to `BodyFlow`, `Layout` to `Ownership`, and `Terms` to
  `TermSteps`.
- `LookupIsLastVisible`: the list of all visible entries is a flattened and filtered sequence, so
  what it holds of every chain of levels is induction over data.
- `FoundIsPaidFor`: that the occurrences in a term are all counted is a statement
  about sums over the arguments of an application, which are charged one by one to an
  object that siblings share, and which saturate; so it is induction over data too.

## 6. Where the code and its documents disagree

Two disagreements are runs that are expected to fail:

- *Signed division is folded wrongly* (`03/cpp_int_div.cpp:19`, run
  `signed_division`). Bit patterns are divided as unsigned numbers. In the trace,
  which is in 8 bits, `-1 / 2` becomes 127, while the generated `sdiv` gives 0;
  likewise the `2 / -1` of `testfiles/0019_div_expr/pass_001.depc` becomes 0
  instead of -2. A program changes its result when it is normalised, and a false
  equation about run time can be proved.
- *Substitution may capture* (`03/substitute.cpp:226`, run
  `substitution_capture`). A binder is renamed to an index that is fresh for its
  own scope, but not for the argument, so a `t:1` in the argument is caught by the
  binder that was just renamed to `t:1`.

The following were found while modelling. The models do what the code does; the
properties exclude the cases by the preconditions above, or do not speak of
them.

Proof search: the quantity of a parameter does not scale what its argument
spends (`tactics/search_app.cpp:129`), so a linear variable can be given to an
unrestricted parameter; values that unification found stay charged in the object
of a failed task when that attempt is given up (`search_app.cpp:68`); a cached
term is preferred to a simpler one (`proof_search.cpp:314`); variables of the
global environment are never tried (`tactics/search_var.cpp:16`).

Environments and modules: hiding a name is refused although `environment.hpp:61`
documents shadowing (`environment.cpp:137`); a definition that overwrites a
declaration is seen through references and by environments made before, so a function
that was declared and then defined recursively is unfolded for ever by
normalisation; any application is taken for a complete type
(`complete_type.cpp:48`).

Bodies: a branch that ends in a call leaves its block out of the list of open
blocks (`gen_body.cpp:345`), and an `if` whose other branch is impossible lists a
block that is terminated (`gen_body.cpp:373`): LLVM refuses both modules. A
return without a value in an inlined lambda returns from the host
(`gen_body.cpp:403`); one that is followed by a statement is overwritten by it
(`gen_body.cpp:412`). A fact about a mutable condition is kept after it was
evaluated (`check.cpp:344`), so `impossible` may be reached. Lifting the branch
of a constant condition can lose a return (`beta_reduction.cpp:262`). Folding
an element of a list drops the effects of the others.

Values (the names of preconditions of `ownership` are in brackets): the address
of a variable that is not in memory is that of a slot written where the address
is first taken, and is cached for all blocks (`gen_val.cpp:524`), also those
which that block does not come before [`AddressesHold`]. The loop that copies or
destructs elements names its first block as its own predecessor
(`gen_loop.cpp:43`, `:83`), so a loop in a loop makes an invalid module
[`CopiesInOneLoop`], and an allocation in such a loop, if its size is a constant,
is moved to the entry, where all elements share it (`llvm_func.cpp:40`). A lambda
invoked in place loses the values it had to destruct (`gen_body.cpp:409`), which
a debug build asserts against (`context.hpp:163`) [`LosesNothing`]. In a list, a
field that is built by a call is bound to the place where it will be instead of
to its value (`gen_val.cpp:1037`), so the size of a later field is a pointer
[`SizesAreValues`]. The fields of a list hide variables of the same name from
the values that come after (`gen_val.cpp:697`, `:728`): with
`struct s {i32_t x; i32_t y;}` and two arguments x and y, `{y, x}` is `{y, y}`
[`NamesApart`]; and the sort of a tuple's list has earlier values put in below a
binder that may catch their names (`check.cpp:709`). A destructor is generated
in an empty local context (`gen_body.cpp:111`), which does not know an argument of
the function that sizes a field; a function that was declared before is defined
in an empty one too (`gen_func.cpp:167`) and does not know its own arguments.

Names: rewriting drops what it found inside lists, members, subscripts and
reasons (`rewrite.cpp:318`); alpha-equivalent expressions may differ in hash
(`hash_code.hpp:19` says they do not) when they contain reasons, differ in
quantities, or use one name both bound and free; equivalence ignores the
quantities of parameters, and the scope of `scopeof`.

Files: the move of a temp_file_t leaves `m_open_mode` uninitialised in the new
object (`temp_file.cpp:64`); the linker does not look at the error of
make_temp_file (`x86_64_linux.cpp:29`). `Driver` has both as a choice of outcomes.

## 7. What is not modelled

- *Parser*: one pass over the tree antlr4 builds, without state between nodes.
- *Typing rules of each expression form*: the judgement is a function of the tree;
  what it does to shared state (usage, contexts, environment, facts) is modelled
  where that state is.
- *Equivalence up to normalisation, unfolding of globals*: only whether unfolding
  ends and what it does to statements and constants.
- *Of values*: string literals, globals used as values, closures, the slice
  builtin; the table that generates each destructor once per type (an invocation
  executes the destructor's code in place, which is the same for a program that
  may not change its own code); the removal of instructions nobody uses; padding
  and alignment, as memory is counted in cells.
- *Of the prelude*: `believe_me`, and the proof terms of the functions that have
  a body; what they claim is modelled.
- *Importing a second module*: the compiler imports the prelude only, before
  anything else is there, which `MakeBaseEnv` does; that an import fails as a whole
  cannot be observed there.
- *Names that hide names*: that no environment hides a name of one it extends is not
  stated, because the environment of a body holds the declaration of its own
  function and the table gets the definition of it later.
- *Quantities of arguments*: a function whose argument is erased at run time is
  generated without it; here every argument is passed.
- *Sorts of expressions*: `substitute` also puts the argument into the sort of every
  node (`substitute.cpp:54`), while renaming and rewriting leave sorts as they are.
  A tree of the models has no sorts, so nothing is said of whether the sort of a
  node still fits it afterwards.
- *Errors, source text, tracing, mmap, test support*: values passed on and printed.
- *LLVM, the assembler and the linker*: external; LLVM's verifier is modelled
  by the rule the generator relies on (every block ends in one terminator).

## 8. Plan

The order is by importance: what everything else rests on first.

| # | Modules | Composes | State |
|---|---|---|---|
| 1 | ScopeHeap, ScopeMap, ScopeSnapshot, ScopeMapProofs | refinement of ScopeSnapshot | checked, five theorems |
| 2 | Quantity, UsageCount, BranchUsage, UsageProofs | ScopeHeap | checked, four theorems |
| 3 | ProofSearch, SearchProofs | UsageCount | checked, four theorems |
| 4 | EnvTable | ScopeHeap | checked as part of 5 |
| 5 | ModuleCheck, ModuleRules, ModuleProofs | EnvTable | checked, six theorems |
| 6 | TempFile, Driver, DriverProofs | | checked, four theorems |
| 7 | Statements, BetaBody, GenBody, BodyFlow | checking to execution | checked |
| 8 | FixedWidth, ConstantFolding, FoldingProofs | folding and execution | checked, three theorems |
| 9 | Terms, Nameless, Substitution, TermSteps | refers to Nameless | checked |
| 10 | CtxTable, Contexts, ContextsProofs | ScopeHeap | checked, four theorems |
| 11 | Layout, GenValue, Memory, Ownership: generation and execution of values | | checked |
| 12 | Lists and subscripts in TermSteps | Substitution | checked |
| 13 | Prelude, FoldingProofs | ConstantFolding | checked, one theorem |

*Theorems next*: `FoundIsPaidFor`. It would take the account of every usage object
as an invariant: what the object counts for a variable is what its parent counted when it
was made and the sum, as quantities add up, of what was charged to it since; and a
way to speak of that sum that does not need induction, for instance a history
variable with the charges of each object in the order in which they were made.

*Abstract specifications next*: a search as one step from a goal to a proof or
to none, which ProofSearch implements; a usage account per path, which
UsageCount implements.
