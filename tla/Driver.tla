------------------------------- MODULE Driver -------------------------------
(***************************************************************************)
(* The dep0 program: one job over the input files, each taken through the  *)
(* stages of its pipeline in turn, with temporary files for what is        *)
(* compiled and linked.  A job is [kind, inputs, out]: "print" prints the  *)
(* program, "emit" writes LLVM code, "compile" assembly; out is the output *)
(* file given with -o, or NoName.                                          *)
(***************************************************************************)
EXTENDS Naturals, Sequences, SequencesExt, FiniteSets

CONSTANTS
  Absent, NoFile, NoName,
  Jobs,       \* what may be asked on the command line
  Outputs,    \* paths of output files, among them DefaultOut[f] for input f
  DefaultOut, \* an input's path with .ll, .s or .o appended
  TempPaths   \* bound: paths for temporary files, enough for every job

Kinds == {"typecheck", "print", "emit", "compile", "assemble", "link"}

\* main() refuses an empty list of files, and names an executable a.out if -o
\* does not.
ASSUME JobsAssumption ==
  /\ Jobs \subseteq [kind : Kinds, inputs : Seq(DOMAIN DefaultOut), out : Outputs \union {NoName}]
  /\ \A j \in Jobs : j.inputs # <<>> /\ (j.kind = "link" => j.out # NoName)

\* Appending an extension keeps names apart, and no output goes where a
\* temporary file was put (a name of thread and time in a directory for them).
ASSUME PathsAssumption ==
  /\ NoName \notin Outputs /\ Outputs \intersect TempPaths = {}
  /\ \A f \in DOMAIN DefaultOut : DefaultOut[f] \in Outputs
  /\ \A f, g \in DOMAIN DefaultOut : DefaultOut[f] = DefaultOut[g] => f = g
  /\ IsFiniteSet(TempPaths)
  /\ \A j \in Jobs : Len(j.inputs) < Cardinality(TempPaths)

VARIABLES
  job,
  stage,    \* what is next: a stage of the pipeline, or what its result is for
  next,     \* the place of the current input file
  disk,     \* what every output and temporary path holds
  objects,  \* the temp_file_t objects of job_t::compile_and_link_t
  paths,    \* the path of each, read when the pipeline returned it
  current,  \* the result of the pipeline or of the linker: {} or one object
  exit      \* "running", "0", "1" or "undefined"

vars == <<job, stage, next, disk, objects, paths, current, exit>>

F == INSTANCE TempFile

\* A file that was compiled is there.
ASSUME ContentAssumption ==
  \A j \in Jobs : \A f \in Range(j.inputs) : F!Content(j.kind, <<f>>) # Absent

OneOutputEach == {"emit", "compile", "assemble"}
Before(p) == IF p \in TempPaths THEN Absent ELSE F!Content("old", <<p>>)

Init ==
  /\ job \in Jobs
  /\ stage = "start" /\ next = 1
  /\ disk = [p \in Outputs \union TempPaths |-> Before(p)]
  /\ objects = <<>> /\ paths = <<>> /\ current = {}
  /\ exit = "running"

-----------------------------------------------------------------------------
Input == job.inputs[next]
LastFile == next = Len(job.inputs)
Compiled(f) == F!Content(job.kind, <<f>>)

Stages ==
  CASE job.kind = "typecheck" -> <<"parse", "typecheck">>
    [] job.kind = "print" -> <<"parse", "typecheck", "transform">>
    [] job.kind = "emit" -> <<"parse", "typecheck", "transform", "llvmgen">>
    [] OTHER -> <<"parse", "typecheck", "transform", "llvmgen", "compile">>

OutputOf(f) == IF job.out # NoName THEN job.out ELSE DefaultOut[f]

Owned == Range(objects) \union current

\* run() returns, and with it dies every object there is.
Exit(code, d, owned) ==
  /\ exit' = code
  /\ disk' = F!Released(owned, d)
  /\ objects' = <<>>
  /\ current' = {}
  /\ UNCHANGED <<job, stage, next, paths>>

\* The next file, once the result for this one is dead; or success.
NextFile(d, owned) ==
  IF LastFile THEN Exit("0", d, owned)
  ELSE /\ next' = next + 1
       /\ stage' = "parse"
       /\ disk' = F!Released(owned, d)
       /\ current' = {}
       /\ UNCHANGED <<job, objects, paths, exit>>

\* Mutant: many files may have one output name.
Start_anyJob ==
  /\ stage = "start"
  /\ stage' = "parse"
  /\ UNCHANGED <<job, next, disk, objects, paths, current, exit>>

\* Many files cannot have one output name.
Start ==
  /\ stage = "start"
  /\ IF job.kind \in OneOutputEach /\ job.out # NoName /\ Len(job.inputs) > 1
     THEN Exit("1", disk, {})
     ELSE /\ stage' = "parse"
          /\ UNCHANGED <<job, next, disk, objects, paths, current, exit>>

\* failure(f, error): any stage may find an error, and nothing follows it.
StageFails ==
  /\ stage \in {"parse", "typecheck", "transform", "llvmgen"}
  /\ Exit("1", disk, Owned)

StageSucceeds ==
  /\ \E i \in 1..(Len(Stages) - 1) : Stages[i] = stage /\ stage' = Stages[i + 1]
  /\ UNCHANGED <<job, next, disk, objects, paths, current, exit>>

\* job_t::typecheck_t and print_ast_t: nothing is written.
Typechecked ==
  /\ \/ job.kind = "typecheck" /\ stage = "typecheck"
     \/ job.kind = "print" /\ stage = "transform"
  /\ NextFile(disk, {})

\* job_t::emit_llvm_t: the output file may not open.
EmitLlvm ==
  /\ job.kind = "emit" /\ stage = "llvmgen"
  /\ \/ Exit("1", disk, {})
     \/ NextFile([disk EXCEPT ![OutputOf(Input)] = Compiled(Input)], {})

FreshPath == CHOOSE p \in TempPaths : disk[p] = Absent

\* compile::compile: a temporary file is made, moved into an `expected` and
\* written.  The file may not open, and the code may not be emitted.
Compile ==
  /\ stage = "compile"
  /\ LET o == F!Opened(FreshPath, IF job.kind = "compile" THEN "text" ELSE "binary")
         left == F!MovedFrom(o)
     IN  \E result \in F!MovedTo(o) :
           \/ /\ exit' = "1"
              /\ disk' = F!Released(Owned \union {left, result},
                                    [disk EXCEPT ![o.path] = F!Partial])
              /\ objects' = <<>>
              /\ UNCHANGED <<job, stage, next, paths, current>>
           \/ /\ disk' = F!Released({left}, [disk EXCEPT ![o.path] = Compiled(Input)])
              /\ current' = {result}
              /\ stage' = IF job.kind = "link" THEN "collect" ELSE "keep"
              /\ UNCHANGED <<job, next, objects, paths, exit>>

\* job_t::compile_only_t: the result is renamed to the output file.
Keep ==
  /\ stage = "keep"
  /\ \E o \in current : \E r \in F!Renamed(o, disk, OutputOf(Input)) :
       IF r.ok THEN NextFile(r.disk, {r.object}) ELSE Exit("1", r.disk, {r.object})

\* job_t::compile_and_link_t: push_back moves the result to the vector, which
\* first moves its elements to a larger array if it is full.
Collect ==
  /\ stage = "collect"
  /\ \E o \in current, full \in BOOLEAN :
       LET left == {F!MovedFrom(e) : e \in {o} \union IF full THEN Range(objects) ELSE {}}
       IN  /\ \E new \in F!MovedTo(o) : objects' = Append(objects, new)
           /\ paths' = Append(paths, o.path)
           /\ current' = {}
           /\ disk' = F!Released(left, disk)
           /\ stage' = IF LastFile THEN "link" ELSE "parse"
           /\ next' = IF LastFile THEN next ELSE next + 1
           /\ UNCHANGED <<job, exit>>

LinkerSees == [i \in DOMAIN paths |-> disk[paths[i]]]
AllCompiled == [i \in DOMAIN job.inputs |-> Compiled(job.inputs[i])]
Executable(objs) == F!Content("executable", [i \in DOMAIN objs |-> objs[i].of[1]])

\* link::link: if its temporary file could not be made, it is used all the
\* same.  ld may be missing or fail, as it does when an object is not there.
Link ==
  /\ stage = "link"
  /\ \/ exit' = "undefined" /\ UNCHANGED <<job, stage, next, disk, objects, paths, current>>
     \/ /\ exit' = "1"
        /\ disk' = F!Released(Owned, disk)
        /\ objects' = <<>>
        /\ UNCHANGED <<job, stage, next, paths, current>>
     \/ /\ Range(LinkerSees) \subseteq {Compiled(f) : f \in Range(job.inputs)}
        /\ disk' = [disk EXCEPT ![FreshPath] = Executable(LinkerSees)]
        /\ \E result \in F!MovedTo(F!Opened(FreshPath, "binary")) : current' = {result}
        /\ stage' = "keep executable"
        /\ UNCHANGED <<job, next, objects, paths, exit>>

KeepExecutable ==
  /\ stage = "keep executable"
  /\ \E o \in current : \E r \in F!Renamed(o, disk, OutputOf(Input)) :
       Exit(IF r.ok THEN "0" ELSE "1", r.disk, Range(objects) \union {r.object})

Next ==
  /\ exit = "running"
  /\ \/ Start \/ StageFails \/ StageSucceeds \/ Typechecked \/ EmitLlvm
     \/ Compile \/ Keep \/ Collect \/ Link \/ KeepExecutable

\* One thread: it goes on until it returns, as every stage, the linker it
\* waits for and the file system do.
Spec == Init /\ [][Next]_vars /\ WF_vars(Next)

-----------------------------------------------------------------------------
Files == DOMAIN job.inputs
\* Exit code 0: every output that was asked for is there, made from its input,
\* and an executable from all of them in order.
ZeroMeansDone ==
  exit = "0" =>
    /\ job.kind \in OneOutputEach =>
         \A i \in Files : disk[OutputOf(job.inputs[i])] = Compiled(job.inputs[i])
    /\ job.kind = "link" => disk[job.out] = Executable(AllCompiled)

\* "A temporary file that will be automatically deleted unless
\* `rename_and_keep` is invoked": every job ends, and however it ended none is
\* left.
NoTempFileLeft ==
  <>[](exit # "running" /\ (exit # "undefined" => \A p \in TempPaths : disk[p] = Absent))

\* The object files outlive the vector's growth and are there for the linker.
ObjectsAreThere == exit = "running" /\ stage = "link" => LinkerSees = AllCompiled
=============================================================================
