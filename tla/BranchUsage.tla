---------------------------- MODULE BranchUsage -----------------------------
(***************************************************************************)
(* How the type checker accounts for the uses of variables while it walks  *)
(* a function body: the branches of an if-else are checked each with a     *)
(* usage object that extends the one outside, merged and added to it       *)
(* afterwards (check_stmt); the sides of a comparison are checked          *)
(* speculatively in the same way (type_assign_pair); a term that the       *)
(* checker made up itself is added as a whole or not at all (try_add).     *)
(*                                                                         *)
(* `frames` is the stack of pending calls, innermost last:                 *)
(*   kind    body; then, else (branches); left, right (attempts at a pair) *)
(*   cur     the usage object of the frame (a node of `heap`)              *)
(*   alt     the object of the other branch or attempt                     *)
(*   use     for each variable, the most it is used on any path so far     *)
(*   saved   for then, left and right: `use` on entry; for else: `use` at  *)
(*           the end of the true branch                                    *)
(* `use` and `saved` are what really happens in the program, not part of   *)
(* the code; `status` is how checking goes.  A branch that returns counts, *)
(* as it does in the code, like one that goes on after the if-else.        *)
(***************************************************************************)
EXTENDS Naturals, Sequences, SequencesExt, FiniteSetsExt, Quantity

CONSTANTS
  Vars,       \* the variables of the context
  Decl,       \* the quantity each of them was declared with
  Terms,      \* the variables, left to right, of terms the checker may make up
  MaxNodes,   \* bound: usage objects ever created
  MaxDepth    \* bound: nesting of branches and attempts

ASSUME DeclAssumption == Decl \in [Vars -> Qty]
ASSUME TermsAssumption == Terms \subseteq Seq(Vars)

VARIABLES heap, frames, status

vars == <<heap, frames, status>>

U == INSTANCE UsageCount

Top == Last(frames)
Below == Front(frames)
Parent == Last(Below)
Speculating == \E i \in DOMAIN frames : frames[i].kind \in {"left", "right"}

NoUse == [v \in Vars |-> zero]

Frame == [kind  : {"body", "then", "else", "left", "right"},
          cur   : 1..Len(heap), alt : 0..Len(heap),
          use   : [Vars -> Qty], saved : [Vars -> Qty]]

\* Only real uses are recorded: no entry ever holds `zero`.
TypeOK ==
  /\ heap \in Seq([outer : Seq([node : Nat, limit : Nat]),
                   data  : Seq([key : Vars, val : {one, many}]),
                   index : [Vars -> Nat]])
  /\ frames \in Seq(Frame)
  /\ status \in {"checking", "overused", "ill_typed"}

\* check_func_def: `usage_t usage;`.
Init ==
  /\ heap = <<U!H!RootNode>>
  /\ frames = <<[kind |-> "body", cur |-> 1, alt |-> 0, use |-> NoUse, saved |-> NoUse]>>
  /\ status = "checking"

Room(n) == status = "checking" /\ Len(heap) + n <= MaxNodes

\* Give up the frames fs: the innermost pair of which only the left side was
\* tried goes on to the right side; without one the function is rejected.
GiveUp(fs, why) ==
  LET lefts == {i \in DOMAIN fs : fs[i].kind = "left"}
  IN  IF lefts = {}
      THEN status' = why /\ UNCHANGED frames
      ELSE LET i == Max(lefts)
           IN  /\ frames' = [SubSeq(fs, 1, i) EXCEPT
                   ![i] = [kind  |-> "right", cur |-> @.alt, alt |-> @.cur,
                           use   |-> @.saved, saved |-> @.saved]]
               /\ UNCHANGED status

\* A variable is used, with the multiplier of the place where it appears.
Use(v, mult) ==
  /\ Room(0)
  /\ IF U!Allowed(heap, Top.cur, v, mult)
     THEN /\ heap' = U!Added(heap, Top.cur, v, mult)
          /\ frames' = Append(Below,
               [Top EXCEPT !.use[v] = Plus(@, Times(one, mult))])
          /\ UNCHANGED status
     ELSE GiveUp(frames, "overused") /\ UNCHANGED heap

\* try_add(ctx, expr, mult) of an expression with variables vs; if it fails
\* the caller looks for another term.
AddTerm(vs, mult) ==
  /\ Room(1)
  /\ LET r == U!TryAddAll(heap, Top.cur, U!UsesOf(vs, mult))
         times(v) == Cardinality({i \in DOMAIN vs : vs[i] = v})
     IN  /\ heap' = r.heap
         /\ frames' = Append(Below,
              IF r.ok
              THEN [Top EXCEPT !.use = [v \in Vars |->
                      Plus(Top.use[v], Times(times(v), mult))]]
              ELSE [Top EXCEPT !.cur = r.node])
  /\ UNCHANGED status

\* Two objects that extend the current one, for the two branches or attempts.
Push(kind) ==
  /\ Room(2)
  /\ Len(frames) < MaxDepth
  /\ heap' = heap \o <<U!H!ChildNode(heap, Top.cur), U!H!ChildNode(heap, Top.cur)>>
  /\ frames' = Append(frames,
       [kind |-> kind, cur |-> Len(heap) + 1, alt |-> Len(heap) + 2,
        use |-> Top.use, saved |-> Top.use])
  /\ UNCHANGED status

BeginIf == ~Speculating /\ Push("then")

BeginElse ==
  /\ Room(0)
  /\ Top.kind = "then"
  /\ frames' = Append(Below,
       [kind |-> "else", cur |-> Top.alt, alt |-> Top.cur,
        use |-> Top.saved, saved |-> Top.use])
  /\ UNCHANGED <<heap, status>>

\* The frame ends and its uses are added to the object outside.
Account(entries, use) ==
  /\ Room(0)
  /\ LET r == U!TryAddAll(heap, Parent.cur, U!DirectUses(entries))
         outside == [Parent EXCEPT !.cur = r.node]
     IN  /\ heap' = r.heap
         /\ IF r.ok
            THEN /\ frames' = Append(Front(Below), [outside EXCEPT !.use = use])
                 /\ UNCHANGED status
            ELSE GiveUp(Append(Front(Below), outside), "overused")

BranchEntries ==
  IF Top.kind = "then" THEN U!Merged(heap, Top.cur, Top.alt)
                       ELSE U!Merged(heap, Top.alt, Top.cur)

\* combine_usages: at the end of the true branch if there is no else, whose
\* object is then still empty, or of the false branch.
EndIf ==
  /\ Top.kind \in {"then", "else"}
  /\ Account(BranchEntries, [v \in Vars |-> QtyMax(Top.use[v], Top.saved[v])])

BeginPair == Push("left")

\* The attempt assigned a type: commit it.
EndAttempt ==
  /\ Top.kind \in {"left", "right"}
  /\ Account(heap[Top.cur].data, Top.use)

\* The attempt did not assign a type.
AttemptFails ==
  /\ Room(0)
  /\ Top.kind \in {"left", "right"}
  /\ GiveUp(frames, "ill_typed")
  /\ UNCHANGED heap

Next ==
  \/ \E v \in Vars, mult \in Qty : Use(v, mult)
  \/ \E vs \in Terms, mult \in {one, many} : AddTerm(vs, mult)
  \/ BeginIf \/ BeginElse \/ EndIf
  \/ BeginPair \/ EndAttempt \/ AttemptFails

Spec == Init /\ [][Next]_vars

-----------------------------------------------------------------------------
\* A checked program never uses a variable more than its declaration allows,
\* whatever path through the branches is taken: a linear variable at most
\* once, an erased one never.
NeverOverused ==
  \A i \in DOMAIN frames, v \in Vars : frames[i].use[v] <= Decl[v]

Exact(n, use) ==
  \A v \in Vars : LET c == U!Count(heap, n, v)
                  IN  IF Decl[v] = many THEN (c = zero) = (use[v] = zero)
                      ELSE c = use[v]

\* The checker neither forgets a use nor counts one that does not happen: for
\* a variable that is counted at all, the count is the most it is used on any
\* path so far, whether what was checked was committed, merged, given up or
\* rolled back.  The object of the other branch still stands where it did.
CountIsExact ==
  \A i \in DOMAIN frames :
    LET f == frames[i]
    IN  /\ Exact(f.cur, f.use)
        /\ f.kind \in {"then", "else", "left"} => Exact(f.alt, f.saved)
=============================================================================
