------------------------------ MODULE MCDriver ------------------------------
(* Every kind of job for one file, for three, and for three with one output  *)
(* name; an executable always has a name (a.out if none was given).          *)
EXTENDS Driver

Out(f) == f \o ".out"
MCFiles == {"a", "b", "c"}
MCDefaultOut == [f \in MCFiles |-> Out(f)]
MCOutputs == {Out(f) : f \in MCFiles} \union {"named"}
MCTempPaths == {"tmp1", "tmp2", "tmp3", "tmp4"}

Job(kind, inputs, out) == [kind |-> kind, inputs |-> inputs, out |-> out]
MCJobs ==
  {Job(k, fs, o) : k \in {"typecheck", "print", "emit", "compile", "assemble"},
                   fs \in {<<"a">>, <<"a", "b", "c">>}, o \in {"no name", "named"}}
  \union {Job("link", fs, "named") : fs \in {<<"a">>, <<"a", "b", "c">>}}
=============================================================================
