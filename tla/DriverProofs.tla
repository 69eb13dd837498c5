---------------------------- MODULE DriverProofs ----------------------------
(***************************************************************************)
(* That the exit code tells the truth, that the linker finds the object    *)
(* files and that whoever returns leaves no temporary file, for any jobs,  *)
(* files and paths.  (That every job returns is left to the model checker.)*)
(***************************************************************************)
EXTENDS Driver, Integers, FiniteSetTheorems, TLAPS

-----------------------------------------------------------------------------
(* The inductive invariant.                                                *)

Temp == [keep : {FALSE}, path : TempPaths, file : TempPaths, mode : F!Modes]
Paths == Outputs \union TempPaths

\* Where a job of each kind may be, and that it passed the check of Start.
OnTrack ==
  /\ job \in Jobs /\ next \in DOMAIN job.inputs /\ DOMAIN disk = Paths
  /\ stage = "compile" => job.kind \in {"compile", "assemble", "link"}
  /\ stage = "keep" => job.kind \in {"compile", "assemble"}
  /\ stage \in {"collect", "link", "keep executable"} => job.kind = "link"
  /\ stage # "start" /\ job.kind \in OneOutputEach /\ job.out # NoName => Len(job.inputs) = 1

\* Every object of the vector owns a file of its own: the object file of the
\* input at its place.
Collected ==
  /\ objects \in Seq(Temp) /\ paths \in Seq(TempPaths)
  /\ Len(objects) = IF job.kind # "link" THEN 0
                    ELSE IF stage \in {"link", "keep executable"} THEN Len(job.inputs)
                    ELSE next - 1
  /\ Len(paths) = Len(objects)
  /\ \A i \in DOMAIN objects : /\ paths[i] = objects[i].path
                               /\ disk[paths[i]] = Compiled(job.inputs[i])
  /\ \A i, j \in DOMAIN objects : paths[i] = paths[j] => i = j

\* A result that waits to be kept or collected owns one more file.
Holding ==
  IF stage \notin {"keep", "collect", "keep executable"} THEN current = {}
  ELSE \E o \in Temp :
         /\ current = {o} /\ o.path \notin Range(paths)
         /\ disk[o.path] = IF stage = "keep executable" THEN Executable(AllCompiled)
                           ELSE Compiled(Input)

\* A temporary file that is there has an owner.
AllOwned == \A p \in TempPaths : disk[p] # Absent => \E o \in Owned : o.path = p

\* The first n outputs were made.
Made(n, d) ==
  job.kind \in OneOutputEach =>
    \A i \in 1..n : d[OutputOf(job.inputs[i])] = Compiled(job.inputs[i])

Running == OnTrack /\ Collected /\ Holding /\ AllOwned /\ Made(next - 1, disk)

NoneLeft == exit \in {"0", "1"} => \A p \in TempPaths : disk[p] = Absent

Inv ==
  /\ exit \in {"running", "0", "1", "undefined"}
  /\ exit = "running" => Running
  /\ ZeroMeansDone /\ NoneLeft

\* All that was asked for is on disk d.
Done(d) ==
  /\ Made(Len(job.inputs), d)
  /\ job.kind = "link" => d[job.out] = Executable(AllCompiled)

\* The objects `os` own the temporary files on disk d and nothing else.
OwnAll(os, d) ==
  /\ DOMAIN d = Paths
  /\ \A o \in os : o.keep \/ o.path \in TempPaths
  /\ \A p \in TempPaths : d[p] # Absent => \E o \in os : ~o.keep /\ o.path = p

-----------------------------------------------------------------------------
(* Jobs, objects and paths.                                                *)

LEMMA JobFacts ==
  ASSUME OnTrack
  PROVE  /\ job.kind \in Kinds /\ job.inputs \in Seq(DOMAIN DefaultOut)
         /\ job.out \in Outputs \union {NoName} /\ (job.kind = "link" => job.out # NoName)
         /\ Len(job.inputs) \in Nat /\ Len(job.inputs) < Cardinality(TempPaths)
         /\ DOMAIN job.inputs = 1..Len(job.inputs) /\ next \in 1..Len(job.inputs)
  <1>1. job \in [kind : Kinds, inputs : Seq(DOMAIN DefaultOut), out : Outputs \union {NoName}]
    BY JobsAssumption DEF OnTrack
  <1>2. job.inputs # <<>> /\ (job.kind = "link" => job.out # NoName)
    BY JobsAssumption DEF OnTrack
  <1>3. Len(job.inputs) < Cardinality(TempPaths)
    BY PathsAssumption DEF OnTrack
  <1>4. /\ job.kind \in Kinds /\ job.inputs \in Seq(DOMAIN DefaultOut)
        /\ job.out \in Outputs \union {NoName}
    BY <1>1
  <1>5. Len(job.inputs) \in Nat /\ DOMAIN job.inputs = 1..Len(job.inputs)
    BY <1>4
  <1>6. next \in 1..Len(job.inputs)
    BY <1>5 DEF OnTrack
  <1> QED BY <1>2, <1>3, <1>4, <1>5, <1>6

LEMMA OutputFacts ==
  ASSUME OnTrack, NEW i \in 1..Len(job.inputs)
  PROVE  /\ OutputOf(job.inputs[i]) \in Outputs /\ OutputOf(job.inputs[i]) \notin TempPaths
         /\ Compiled(job.inputs[i]) # Absent
  <1>0. job.inputs \in Seq(DOMAIN DefaultOut) /\ DOMAIN job.inputs = 1..Len(job.inputs)
    BY JobFacts
  <1>1. job \in Jobs /\ job.inputs[i] \in DOMAIN DefaultOut /\ job.inputs[i] \in Range(job.inputs)
    <2>1. job.inputs[i] \in DOMAIN DefaultOut
      BY <1>0
    <2>2. job.inputs[i] \in Range(job.inputs)
      BY <1>0 DEF Range
    <2> QED BY <2>1, <2>2 DEF OnTrack
  <1>2. Compiled(job.inputs[i]) # Absent
    BY <1>1, ContentAssumption DEF Compiled
  <1>3. OutputOf(job.inputs[i]) \in Outputs
    BY <1>1, JobFacts, PathsAssumption DEF OutputOf
  <1> QED BY <1>2, <1>3, PathsAssumption

\* Two inputs with one output are the same file.
LEMMA OutputsApart ==
  ASSUME OnTrack, stage # "start", job.kind \in OneOutputEach,
         NEW i \in 1..Len(job.inputs), NEW j \in 1..Len(job.inputs),
         OutputOf(job.inputs[i]) = OutputOf(job.inputs[j])
  PROVE  job.inputs[i] = job.inputs[j]
  <1>1. CASE job.out # NoName
    <2>1. Len(job.inputs) = 1
      BY <1>1 DEF OnTrack
    <2>2. i = 1 /\ j = 1
      BY <2>1
    <2> QED BY <2>2
  <1>2. CASE job.out = NoName
    BY <1>2, JobFacts, PathsAssumption DEF OutputOf
  <1> QED BY <1>1, <1>2

\* Only a job that links keeps objects.
LEMMA NoObjects ==
  ASSUME Running, job.kind # "link"
  PROVE  objects = <<>> /\ paths = <<>> /\ Owned = current
  <1>1. Len(objects) = 0 /\ Len(paths) = 0
    BY DEF Running, Collected
  <1>2. objects = <<>> /\ paths = <<>>
    BY <1>1 DEF Running, Collected
  <1> QED BY <1>2 DEF Owned, Range

LEMMA OwnedAreTemps ==
  ASSUME Running
  PROVE  Owned \subseteq Temp /\ Range(objects) \subseteq Temp /\ current \subseteq Temp
  <1>0. objects \in Seq(Temp)
    BY DEF Running, Collected
  <1>1. Range(objects) \subseteq Temp
    BY <1>0 DEF Range
  <1>2. current \subseteq Temp
    BY DEF Running, Holding
  <1> QED BY <1>1, <1>2 DEF Owned

LEMMA OwnedOwnAll ==
  ASSUME Running
  PROVE  OwnAll(Owned, disk)
  <1>1. DOMAIN disk = Paths
    BY DEF Running, OnTrack
  <1>2. \A o \in Owned : ~o.keep /\ o.path \in TempPaths
    BY OwnedAreTemps DEF Temp
  <1>3. \A p \in TempPaths : disk[p] # Absent => \E o \in Owned : o.path = p
    BY DEF Running, AllOwned
  <1> QED BY <1>1, <1>2, <1>3 DEF OwnAll

\* Their deaths leave no temporary file, and every output as it was.
LEMMA Releasing ==
  ASSUME NEW os, NEW d, OwnAll(os, d)
  PROVE  /\ DOMAIN F!Released(os, d) = Paths
         /\ \A p \in TempPaths : F!Released(os, d)[p] = Absent
         /\ \A p \in Outputs : F!Released(os, d)[p] = d[p]
  <1>1. /\ DOMAIN F!Released(os, d) = Paths
        /\ \A p \in Paths : F!Released(os, d)[p] =
             IF \E o \in os : ~o.keep /\ o.path = p THEN Absent ELSE d[p]
    BY DEF OwnAll, F!Released
  <1>2. \A p \in Outputs : p \in Paths /\ p \notin TempPaths
    BY PathsAssumption DEF Paths
  <1>3. \A p \in TempPaths : p \in Paths
    BY DEF Paths
  <1> QED BY <1>1, <1>2, <1>3 DEF OwnAll

\* There are more paths than objects, so one is free.
LEMMA Fresh ==
  ASSUME Running, Len(objects) < Cardinality(TempPaths), current = {}
  PROVE  FreshPath \in TempPaths /\ disk[FreshPath] = Absent
  <1>1. SUFFICES ASSUME \A p \in TempPaths : disk[p] # Absent PROVE FALSE
    BY <1>1 DEF FreshPath
  <1> DEFINE n == Len(objects)
             used == {objects[i].path : i \in 1..n}
  <1>0. objects \in Seq(Temp)
    BY DEF Running, Collected
  <1>2. n \in Nat /\ Range(objects) = {objects[i] : i \in 1..n}
    BY <1>0 DEF Range
  <1>3. TempPaths \subseteq used
    BY <1>1, <1>2 DEF Running, AllOwned, Owned
  <1>4. IsFiniteSet(1..n) /\ Cardinality(1..n) = n
    <2>1. n \in Nat /\ n \in Int /\ 1 \in Int
      BY <1>2
    <2> HIDE DEF n
    <2>2. IsFiniteSet(1..n) /\ Cardinality(1..n) = IF 1 > n THEN 0 ELSE n - 1 + 1
      BY <2>1, FS_Interval
    <2> QED BY <2>1, <2>2
  <1>5. IsFiniteSet(used) /\ Cardinality(used) <= n
    <2>1. IsFiniteSet(used) /\ Cardinality(used) <= Cardinality(1..n)
      <3> DEFINE f == [i \in 1..n |-> objects[i].path]
      <3>1. f \in [1..n -> used]
        OBVIOUS
      <3>2. used = {f[i] : i \in 1..n}
        OBVIOUS
      <3> HIDE DEF f
      <3>3. f \in Surjection(1..n, used)
        BY <3>1, <3>2 DEF Surjection
      <3> QED BY <3>3, <1>4, FS_Surjection
    <2> QED BY <2>1, <1>4
  <1> HIDE DEF used
  <1>6. Cardinality(TempPaths) <= Cardinality(used)
    BY <1>3, <1>5, FS_Subset
  <1>7. Cardinality(TempPaths) \in Nat /\ Cardinality(used) \in Nat
    BY <1>5, PathsAssumption, FS_CardinalityType
  <1> QED BY <1>2, <1>5, <1>6, <1>7

-----------------------------------------------------------------------------
(* Returning, and the next file.                                           *)

LEMMA ExitInv ==
  ASSUME Running, NEW code \in {"0", "1"}, NEW d, NEW os, Exit(code, d, os),
         OwnAll(os, d), code = "0" => Done(d)
  PROVE  Inv'
  <1>1. exit' = code /\ disk' = F!Released(os, d) /\ job' = job
    BY DEF Exit
  <1>2. NoneLeft'
    BY <1>1, Releasing DEF NoneLeft
  <1>3. \A f : OutputOf(f)' = OutputOf(f) /\ Compiled(f)' = Compiled(f)
    BY <1>1 DEF OutputOf, Compiled
  <1>4. AllCompiled' = AllCompiled
    BY <1>1 DEF AllCompiled, Compiled
  <1>5. OnTrack
    BY DEF Running
  <1>6. ASSUME code = "0" PROVE ZeroMeansDone'
    <2>1. Done(d)
      BY <1>6
    <2>2. ASSUME job.kind \in OneOutputEach, NEW i \in DOMAIN job.inputs
          PROVE  disk'[OutputOf(job.inputs[i])] = Compiled(job.inputs[i])
      <3>1. i \in 1..Len(job.inputs)
        BY <1>5, <2>2, JobFacts
      <3>2. d[OutputOf(job.inputs[i])] = Compiled(job.inputs[i])
        BY <2>1, <2>2, <3>1 DEF Done, Made
      <3>3. OutputOf(job.inputs[i]) \in Outputs
        BY <1>5, <3>1, OutputFacts
      <3> QED BY <1>1, <3>2, <3>3, Releasing
    <2>3. ASSUME job.kind = "link"
          PROVE  disk'[job.out] = Executable(AllCompiled)
      <3>1. job.out \in Outputs
        BY <1>5, <2>3, JobFacts
      <3> QED BY <1>1, <2>1, <2>3, <3>1, Releasing DEF Done
    <2>4. Executable(AllCompiled)' = Executable(AllCompiled)
      BY <1>4 DEF Executable
    <2>5. Files' = DOMAIN job.inputs
      BY <1>1 DEF Files
    <2> QED BY <1>1, <1>3, <2>2, <2>3, <2>4, <2>5 DEF ZeroMeansDone
  <1>7. ZeroMeansDone'
    BY <1>1, <1>6 DEF ZeroMeansDone
  <1> QED BY <1>1, <1>2, <1>7 DEF Inv

\* What a step that goes on to another file or stage must show, for a job that
\* does not link.
LEMMA GoesOn ==
  ASSUME Running, exit = "running", job.kind # "link", stage # "start",
         next # Len(job.inputs), NEW d, NEW os, NextFile(d, os),
         OwnAll(os, d), Made(next, d)
  PROVE  Inv'
  <1>1. /\ next' = next + 1 /\ stage' = "parse" /\ disk' = F!Released(os, d) /\ current' = {}
        /\ job' = job /\ objects' = objects /\ paths' = paths /\ exit' = exit
    BY DEF NextFile, LastFile
  <1>2. OnTrack /\ objects = <<>> /\ paths = <<>>
    BY NoObjects DEF Running
  <1>3. /\ next + 1 \in 1..Len(job.inputs) /\ DOMAIN job.inputs = 1..Len(job.inputs)
        /\ next \in 1..Len(job.inputs) /\ Len(job.inputs) \in Nat
    BY <1>2, JobFacts
  <1>4. DOMAIN disk' = Paths
    BY <1>1, Releasing
  <1>5. OnTrack'
    BY <1>1, <1>2, <1>3, <1>4 DEF OnTrack
  <1>6. Collected'
    BY <1>1, <1>2 DEF Collected
  <1>7. Holding'
    BY <1>1 DEF Holding
  <1>8. AllOwned'
    BY <1>1, Releasing DEF AllOwned
  <1>9. Made(next - 1, disk)'
    <2>1. ASSUME job.kind \in OneOutputEach, NEW i \in 1..next
          PROVE  disk'[OutputOf(job.inputs[i])] = Compiled(job.inputs[i])
      <3>1. i \in 1..Len(job.inputs)
        BY <1>3
      <3>2. OutputOf(job.inputs[i]) \in Outputs
        BY <1>2, <3>1, OutputFacts
      <3>3. d[OutputOf(job.inputs[i])] = Compiled(job.inputs[i])
        BY <2>1 DEF Made
      <3> QED BY <1>1, <3>2, <3>3, Releasing
    <2>2. next' - 1 = next
      BY <1>1, <1>3
    <2>3. \A f : OutputOf(f)' = OutputOf(f) /\ Compiled(f)' = Compiled(f)
      BY <1>1 DEF OutputOf, Compiled
    <2> QED BY <1>1, <2>1, <2>2, <2>3 DEF Made
  <1>10. ZeroMeansDone' /\ NoneLeft'
    BY <1>1 DEF ZeroMeansDone, NoneLeft
  <1> QED BY <1>1, <1>5, <1>6, <1>7, <1>8, <1>9, <1>10 DEF Inv, Running

LEMMA NextFileInv ==
  ASSUME Running, exit = "running", job.kind # "link", stage # "start",
         NEW d, NEW os, NextFile(d, os), OwnAll(os, d), Made(next, d)
  PROVE  Inv'
  <1>1. CASE next = Len(job.inputs)
    <2>1. Exit("0", d, os)
      BY <1>1 DEF NextFile, LastFile
    <2>2. Done(d)
      BY <1>1 DEF Done
    <2> QED BY <2>1, <2>2, ExitInv
  <1>2. CASE next # Len(job.inputs)
    BY <1>2, GoesOn
  <1> QED BY <1>1, <1>2

-----------------------------------------------------------------------------
(* The steps.                                                              *)

LEMMA StartInv ==
  ASSUME Running, exit = "running", Start
  PROVE  Inv'
  <1>1. stage = "start" /\ current = {}
    BY DEF Start, Running, Holding
  <1>2. CASE job.kind \in OneOutputEach /\ job.out # NoName /\ Len(job.inputs) > 1
    <2>1. Exit("1", disk, {})
      BY <1>2 DEF Start
    <2>2. OwnAll({}, disk)
      BY <1>1, <1>2, NoObjects, OwnedOwnAll DEF OneOutputEach
    <2> QED BY <2>1, <2>2, ExitInv
  <1>3. CASE ~(job.kind \in OneOutputEach /\ job.out # NoName /\ Len(job.inputs) > 1)
    <2>1. /\ stage' = "parse" /\ job' = job /\ next' = next /\ disk' = disk /\ objects' = objects
          /\ paths' = paths /\ current' = current /\ exit' = exit
      BY <1>3 DEF Start
    <2>2. OnTrack /\ Len(job.inputs) \in Nat /\ next \in 1..Len(job.inputs)
      BY JobFacts DEF Running
    <2>3. job.kind \in OneOutputEach /\ job.out # NoName => Len(job.inputs) = 1
      <3> DEFINE n == Len(job.inputs)
      <3>1. n \in Nat /\ n >= 1
        BY <2>2
      <3>2. ASSUME job.kind \in OneOutputEach, job.out # NoName PROVE ~(n > 1)
        BY <1>3, <3>2
      <3> HIDE DEF n
      <3>3. ~(n > 1) => n = 1
        BY <3>1
      <3> QED BY <3>2, <3>3 DEF n
    <2>4. OnTrack'
      BY <2>1, <2>2, <2>3 DEF OnTrack
    <2>5. Collected'
      BY <1>1, <2>1 DEF Running, Collected, Compiled
    <2>6. Holding' /\ AllOwned'
      BY <1>1, <2>1 DEF Running, Holding, AllOwned, Owned
    <2>7. Made(next - 1, disk)'
      BY <2>1 DEF Running, Made, OutputOf, Compiled
    <2>8. ZeroMeansDone' /\ NoneLeft'
      BY <2>1 DEF ZeroMeansDone, NoneLeft
    <2> QED BY <2>1, <2>4, <2>5, <2>6, <2>7, <2>8 DEF Inv, Running
  <1> QED BY <1>2, <1>3

LEMMA StageFailsInv ==
  ASSUME Running, exit = "running", StageFails
  PROVE  Inv'
  BY OwnedOwnAll, ExitInv DEF StageFails

\* A stage follows another, and the code is compiled only for what is linked or
\* for an output of its own.
LEMMA StageFollows ==
  ASSUME StageSucceeds
  PROVE  /\ stage \in {"parse", "typecheck", "transform", "llvmgen"}
         /\ stage' \in {"typecheck", "transform", "llvmgen", "compile"}
         /\ stage' = "compile" => job.kind \notin {"typecheck", "print", "emit"}
  <1>1. PICK i \in 1..(Len(Stages) - 1) : Stages[i] = stage /\ stage' = Stages[i + 1]
    BY DEF StageSucceeds
  <1>2. CASE job.kind = "typecheck"
    <2>1. Stages = <<"parse", "typecheck">>
      BY <1>2 DEF Stages
    <2> HIDE DEF Stages
    <2>2. i = 1
      BY <1>1, <2>1
    <2> QED BY <1>1, <2>1, <2>2
  <1>3. CASE job.kind = "print"
    <2>1. Stages = <<"parse", "typecheck", "transform">>
      BY <1>3 DEF Stages
    <2> HIDE DEF Stages
    <2>2. i \in {1, 2}
      BY <1>1, <2>1
    <2> QED BY <1>1, <2>1, <2>2
  <1>4. CASE job.kind = "emit"
    <2>1. Stages = <<"parse", "typecheck", "transform", "llvmgen">>
      BY <1>4 DEF Stages
    <2>2. i \in {1, 2, 3}
      BY <1>1, <2>1
    <2> QED BY <1>1, <2>1, <2>2
  <1>5. CASE job.kind \notin {"typecheck", "print", "emit"}
    <2>1. Stages = <<"parse", "typecheck", "transform", "llvmgen", "compile">>
      BY <1>5 DEF Stages
    <2>2. i \in {1, 2, 3, 4}
      BY <1>1, <2>1
    <2> QED BY <1>1, <1>5, <2>1, <2>2
  <1> QED BY <1>2, <1>3, <1>4, <1>5

LEMMA StageSucceedsInv ==
  ASSUME Running, exit = "running", StageSucceeds
  PROVE  Inv'
  <1>1. /\ job' = job /\ next' = next /\ disk' = disk /\ objects' = objects
        /\ paths' = paths /\ current' = current /\ exit' = exit
    BY DEF StageSucceeds
  <1>2. OnTrack /\ job.kind \in Kinds
    BY JobFacts DEF Running
  <1>3. OnTrack'
    BY <1>1, <1>2, StageFollows DEF OnTrack, Kinds
  <1>4. Collected'
    BY <1>1, StageFollows DEF Running, Collected, Compiled
  <1>5. Holding' /\ AllOwned'
    BY <1>1, StageFollows DEF Running, Holding, AllOwned, Owned
  <1>6. Made(next - 1, disk)'
    BY <1>1 DEF Running, Made, OutputOf, Compiled
  <1>7. ZeroMeansDone' /\ NoneLeft'
    BY <1>1 DEF ZeroMeansDone, NoneLeft
  <1> QED BY <1>1, <1>3, <1>4, <1>5, <1>6, <1>7 DEF Inv, Running

LEMMA TypecheckedInv ==
  ASSUME Running, exit = "running", Typechecked
  PROVE  Inv'
  <1>1. job.kind \in {"typecheck", "print"} /\ stage \in {"typecheck", "transform"} /\ NextFile(disk, {})
    BY DEF Typechecked
  <1>2. current = {} /\ Owned = {}
    BY <1>1, NoObjects DEF Running, Holding
  <1>3. OwnAll({}, disk)
    BY <1>2, OwnedOwnAll
  <1>4. Made(next, disk)
    BY <1>1 DEF Made, OneOutputEach
  <1> QED BY <1>1, <1>3, <1>4, NextFileInv

\* The output of the current file is put on a disk that has those before it.
LEMMA MadeOneMore ==
  ASSUME Running, stage # "start", NEW d, DOMAIN d = Paths,
         \A p \in Outputs : p # OutputOf(Input) => d[p] = disk[p],
         d[OutputOf(Input)] = Compiled(Input)
  PROVE  Made(next, d)
  <1>1. OnTrack /\ next \in 1..Len(job.inputs) /\ Len(job.inputs) \in Nat
    BY JobFacts DEF Running
  <1>2. ASSUME job.kind \in OneOutputEach, NEW i \in 1..next
        PROVE  d[OutputOf(job.inputs[i])] = Compiled(job.inputs[i])
    <2>1. i \in 1..Len(job.inputs)
      BY <1>1
    <2>2. CASE OutputOf(job.inputs[i]) = OutputOf(Input)
      <3>1. job.inputs[i] = job.inputs[next]
        BY <1>1, <1>2, <2>1, <2>2, OutputsApart DEF Input
      <3> QED BY <3>1 DEF Input
    <2>3. CASE OutputOf(job.inputs[i]) # OutputOf(Input)
      <3>1. i \in 1..(next - 1)
        BY <1>1, <2>3 DEF Input
      <3>2. disk[OutputOf(job.inputs[i])] = Compiled(job.inputs[i])
        BY <1>2, <3>1 DEF Running, Made
      <3>3. OutputOf(job.inputs[i]) \in Outputs
        BY <1>1, <2>1, OutputFacts
      <3> QED BY <2>3, <3>2, <3>3
    <2> QED BY <2>2, <2>3
  <1> QED BY <1>2 DEF Made

LEMMA EmitLlvmInv ==
  ASSUME Running, exit = "running", EmitLlvm
  PROVE  Inv'
  <1>1. job.kind = "emit" /\ stage = "llvmgen" /\ OnTrack
    BY DEF EmitLlvm, Running
  <1>2. Owned = {}
    BY <1>1, NoObjects DEF Running, Holding
  <1>3. OwnAll({}, disk)
    BY <1>2, OwnedOwnAll
  <1>4. CASE Exit("1", disk, {})
    BY <1>3, <1>4, ExitInv
  <1>5. CASE NextFile([disk EXCEPT ![OutputOf(Input)] = Compiled(Input)], {})
    <2> DEFINE d == [disk EXCEPT ![OutputOf(Input)] = Compiled(Input)]
    <2>1. OutputOf(Input) \in Outputs /\ OutputOf(Input) \notin TempPaths
      BY <1>1, JobFacts, OutputFacts DEF Input
    <2>2. /\ DOMAIN disk = Paths /\ DOMAIN d = Paths
          /\ d[OutputOf(Input)] = Compiled(Input)
          /\ \A p \in Paths : p # OutputOf(Input) => d[p] = disk[p]
      BY <1>1, <2>1 DEF OnTrack, Paths
    <2>3. NextFile(d, {})
      BY <1>5
    <2> HIDE DEF d
    <2>4. Made(next, d)
      BY <1>1, <2>2, MadeOneMore DEF Paths
    <2>5. OwnAll({}, d)
      BY <1>3, <2>1, <2>2 DEF OwnAll, Paths
    <2> QED BY <1>1, <2>3, <2>4, <2>5, NextFileInv
  <1> QED BY <1>4, <1>5 DEF EmitLlvm

\* Made on disk d, the outputs of earlier files are as they were.
LEMMA MadeKept ==
  ASSUME Running, NEW d, \A p \in Outputs : d[p] = disk[p]
  PROVE  Made(next - 1, d)
  <1>1. OnTrack /\ next \in 1..Len(job.inputs) /\ Len(job.inputs) \in Nat
    BY JobFacts DEF Running
  <1>2. \A i \in 1..(next - 1) : OutputOf(job.inputs[i]) \in Outputs
    BY <1>1, OutputFacts
  <1> QED BY <1>2 DEF Running, Made

\* How a moved object releases nothing.
LEMMA MovedOwnsNothing ==
  ASSUME NEW o \in Temp
  PROVE  F!MovedFrom(o).keep = TRUE /\ F!MovedFrom(o).path = o.path
  BY DEF Temp, F!MovedFrom

LEMMA MovedIsTemp ==
  ASSUME NEW o \in Temp, NEW r \in F!MovedTo(o)
  PROVE  r \in Temp /\ r.path = o.path
  BY DEF Temp, F!MovedTo

\* Objects that own nothing release nothing.
LEMMA ReleasingNothing ==
  ASSUME NEW os, NEW d, \A o \in os : o.keep
  PROVE  /\ DOMAIN F!Released(os, d) = DOMAIN d
         /\ \A p \in DOMAIN d : F!Released(os, d)[p] = d[p]
  BY DEF F!Released

LEMMA OpenedIsTemp ==
  ASSUME NEW p \in TempPaths, NEW m \in F!Modes
  PROVE  F!Opened(p, m) \in Temp /\ F!Opened(p, m).path = p
  BY DEF Temp, F!Opened

\* What a compiler or the linker is about to write to.
LEMMA FreshIsFree ==
  ASSUME Running, stage \in {"compile", "link"}
  PROVE  /\ FreshPath \in TempPaths /\ FreshPath \notin Outputs
         /\ disk[FreshPath] = Absent /\ FreshPath \notin Range(paths)
  <1>1. OnTrack /\ Collected /\ current = {}
    BY DEF Running, Holding
  <1>2. Len(objects) \in Nat /\ Len(objects) <= Len(job.inputs)
    <2>1. Len(job.inputs) \in Nat /\ next \in 1..Len(job.inputs)
      BY <1>1, JobFacts
    <2>2. Len(objects) \in {0, Len(job.inputs), next - 1}
      BY <1>1 DEF Collected
    <2> QED BY <2>1, <2>2
  <1>3. Len(objects) < Cardinality(TempPaths)
    <2>1. Len(job.inputs) < Cardinality(TempPaths) /\ Len(job.inputs) \in Nat
      BY <1>1, JobFacts
    <2>2. Cardinality(TempPaths) \in Nat
      BY PathsAssumption, FS_CardinalityType
    <2> QED BY <1>2, <2>1, <2>2
  <1>4. FreshPath \in TempPaths /\ disk[FreshPath] = Absent
    BY <1>1, <1>3, Fresh
  <1>5. FreshPath \notin Range(paths)
    <2>1. ASSUME NEW i \in DOMAIN paths PROVE disk[paths[i]] # Absent
      <3>1. i \in 1..Len(job.inputs) /\ i \in DOMAIN objects
        <4>1. objects \in Seq(Temp) /\ paths \in Seq(TempPaths) /\ Len(paths) = Len(objects)
          BY <1>1 DEF Collected
        <4>2. i \in 1..Len(objects) /\ i \in DOMAIN objects
          BY <4>1
        <4>3. Len(job.inputs) \in Nat
          BY <1>1, JobFacts
        <4> QED BY <1>2, <4>2, <4>3
      <3>2. disk[paths[i]] = Compiled(job.inputs[i])
        BY <1>1, <3>1 DEF Collected
      <3> QED BY <1>1, <3>1, <3>2, OutputFacts
    <2> QED BY <1>4, <2>1 DEF Range
  <1> QED BY <1>4, <1>5, PathsAssumption

LEMMA PathsOfObjects ==
  ASSUME Running
  PROVE  \A i \in DOMAIN objects : i \in DOMAIN paths /\ paths[i] \in TempPaths
                                   /\ paths[i] \in Range(paths) /\ paths[i] \in Paths
  <1>1. objects \in Seq(Temp) /\ paths \in Seq(TempPaths) /\ Len(paths) = Len(objects)
    BY DEF Running, Collected
  <1>2. DOMAIN objects = DOMAIN paths /\ \A i \in DOMAIN paths : paths[i] \in TempPaths
    BY <1>1
  <1> QED BY <1>2 DEF Range, Paths

LEMMA CompileFailsInv ==
  ASSUME Running, exit = "running", stage = "compile",
         NEW left, left.keep, NEW result \in Temp, result.path = FreshPath,
         exit' = "1",
         disk' = F!Released(Owned \union {left, result}, [disk EXCEPT ![FreshPath] = F!Partial]),
         objects' = <<>>, UNCHANGED <<job, stage, next, paths, current>>
  PROVE  Inv'
  <1> DEFINE d  == [disk EXCEPT ![FreshPath] = F!Partial]
             os == Owned \union {left, result}
  <1>1. current = {}
    BY DEF Running, Holding
  <1>2. OwnAll(Owned, disk) /\ FreshPath \in TempPaths
    BY OwnedOwnAll, FreshIsFree
  <1>3. DOMAIN d = Paths /\ \A p \in Paths : p # FreshPath => d[p] = disk[p]
    BY <1>2 DEF OwnAll, Paths
  <1>4. Exit("1", d, os)
    BY <1>1 DEF Exit
  <1> HIDE DEF d
  <1>5. ~result.keep /\ result.path \in TempPaths
    BY DEF Temp
  <1>6. OwnAll(os, d)
    BY <1>2, <1>3, <1>5 DEF OwnAll, Paths
  <1> HIDE DEF os
  <1> QED BY <1>4, <1>6, ExitInv

LEMMA CompileSucceedsInv ==
  ASSUME Running, exit = "running", stage = "compile",
         NEW left, left.keep, NEW result \in Temp, result.path = FreshPath,
         disk' = F!Released({left}, [disk EXCEPT ![FreshPath] = Compiled(Input)]),
         current' = {result},
         stage' = IF job.kind = "link" THEN "collect" ELSE "keep",
         UNCHANGED <<job, next, objects, paths, exit>>
  PROVE  Inv'
  <1> DEFINE d == [disk EXCEPT ![FreshPath] = Compiled(Input)]
  <1>1. OnTrack /\ Collected /\ FreshPath \in TempPaths /\ FreshPath \notin Range(paths)
        /\ FreshPath \notin Outputs /\ FreshPath \in Paths
    BY FreshIsFree DEF Running, Paths
  <1>2. /\ DOMAIN d = Paths /\ d[FreshPath] = Compiled(Input)
        /\ \A p \in Paths : p # FreshPath => d[p] = disk[p]
    BY <1>1 DEF OnTrack
  <1>3. disk' = F!Released({left}, d)
    OBVIOUS
  <1> HIDE DEF d
  <1>4. /\ DOMAIN disk' = Paths /\ disk'[FreshPath] = Compiled(Input)
        /\ \A p \in Paths : p # FreshPath => disk'[p] = disk[p]
    <2>1. \A x \in {left} : x.keep
      OBVIOUS
    <2>2. /\ DOMAIN F!Released({left}, d) = DOMAIN d
          /\ \A p \in DOMAIN d : F!Released({left}, d)[p] = d[p]
      BY <2>1, ReleasingNothing
    <2>3. DOMAIN disk' = Paths /\ \A p \in Paths : disk'[p] = d[p]
      BY <1>2, <1>3, <2>2
    <2> QED BY <1>1, <1>2, <2>3
  <1>5. OnTrack'
    BY <1>1, <1>4 DEF OnTrack
  <1>6. Collected'
    <2>1. \A i \in DOMAIN objects : disk'[paths[i]] = disk[paths[i]]
      BY <1>1, <1>4, PathsOfObjects
    <2> QED BY <1>1, <2>1 DEF Collected, Compiled
  <1>7. Holding'
    BY <1>1, <1>4 DEF Holding, Compiled, Input
  <1>8. AllOwned'
    <2>1. ASSUME NEW p \in TempPaths, disk'[p] # Absent
          PROVE  \E o \in Owned' : o.path = p
      <3>1. result \in Owned' /\ Owned \subseteq Owned'
        BY DEF Owned, Running, Holding
      <3>2. CASE p = FreshPath
        BY <3>1, <3>2
      <3>3. CASE p # FreshPath
        <4>1. disk[p] # Absent
          BY <1>4, <2>1, <3>3 DEF Paths
        <4> QED BY <3>1, <4>1 DEF Running, AllOwned
      <3> QED BY <3>2, <3>3
    <2> QED BY <2>1 DEF AllOwned
  <1>9. Made(next - 1, disk)'
    <2>1. Made(next - 1, disk')
      BY <1>1, <1>4, MadeKept DEF Paths
    <2> QED BY <2>1 DEF Made, OutputOf, Compiled
  <1>10. ZeroMeansDone' /\ NoneLeft'
    BY DEF ZeroMeansDone, NoneLeft
  <1> QED BY <1>5, <1>6, <1>7, <1>8, <1>9, <1>10 DEF Inv, Running

LEMMA CompileInv ==
  ASSUME Running, exit = "running", Compile
  PROVE  Inv'
  <1> DEFINE m == IF job.kind = "compile" THEN "text" ELSE "binary"
             o == F!Opened(FreshPath, m)
             left == F!MovedFrom(o)
  <1>1. stage = "compile" /\ m \in F!Modes
    BY DEF Compile, F!Modes
  <1>2. FreshPath \in TempPaths
    BY <1>1, FreshIsFree
  <1> HIDE DEF m
  <1>3. o \in Temp /\ o.path = FreshPath
    BY <1>1, <1>2, OpenedIsTemp
  <1>4. PICK result \in F!MovedTo(o) :
          \/ /\ exit' = "1"
             /\ disk' = F!Released(Owned \union {left, result},
                                   [disk EXCEPT ![o.path] = F!Partial])
             /\ objects' = <<>>
             /\ UNCHANGED <<job, stage, next, paths, current>>
          \/ /\ disk' = F!Released({left}, [disk EXCEPT ![o.path] = Compiled(Input)])
             /\ current' = {result}
             /\ stage' = IF job.kind = "link" THEN "collect" ELSE "keep"
             /\ UNCHANGED <<job, next, objects, paths, exit>>
    BY DEF Compile, m
  <1> HIDE DEF o
  <1>5. left.keep
    BY <1>3, MovedOwnsNothing
  <1> HIDE DEF left
  <1>6. result \in Temp /\ result.path = FreshPath
    BY <1>3, MovedIsTemp
  <1> QED BY <1>1, <1>3, <1>4, <1>5, <1>6, CompileFailsInv, CompileSucceedsInv

\* What is left of a file that was to be renamed, and of the others.
LEMMA Renaming ==
  ASSUME Running, NEW o \in Temp, NEW new \in Outputs, NEW r \in F!Renamed(o, disk, new)
  PROVE  /\ DOMAIN r.disk = Paths
         /\ ~r.ok => r.object = o /\ \A p \in TempPaths : r.disk[p] = disk[p]
         /\ r.ok => /\ r.object.keep /\ r.disk[o.path] = Absent /\ r.disk[new] = disk[o.path]
                    /\ \A p \in Paths \ {new, o.path} : r.disk[p] = disk[p]
  <1>1. /\ DOMAIN disk = Paths /\ o.path \in Paths /\ o.path \notin Outputs
        /\ new \in Paths /\ new \notin TempPaths /\ new # o.path /\ TempPaths \subseteq Paths
    BY PathsAssumption DEF Running, OnTrack, Paths, Temp
  <1> DEFINE one(x) == [disk EXCEPT ![new] = x]
             copied == one(disk[o.path])
             failed(x) == [ok |-> FALSE, object |-> o, disk |-> x]
             done == [ok |-> TRUE, object |-> [o EXCEPT !.keep = TRUE, !.path = new, !.file = new],
                      disk |-> [copied EXCEPT ![o.path] = Absent]]
  <1>2. r \in {failed(disk), failed(one(F!Partial)), failed(one(Absent)), done}
    BY <1>1 DEF F!Renamed
  <1>3. \A x : /\ DOMAIN one(x) = Paths /\ one(x)[new] = x
               /\ \A p \in Paths : p # new => one(x)[p] = disk[p]
    BY <1>1
  <1>4. CASE r = done
    <2>1. r.ok = TRUE /\ r.disk = [copied EXCEPT ![o.path] = Absent]
      BY <1>4
    <2>2. r.object.keep
      BY <1>4 DEF Temp
    <2> HIDE DEF done, one
    <2>3. /\ DOMAIN r.disk = Paths /\ r.disk[o.path] = Absent
          /\ \A p \in Paths : p # o.path => r.disk[p] = copied[p]
      BY <1>1, <1>3, <2>1
    <2> QED BY <1>1, <1>3, <2>1, <2>2, <2>3
  <1>5. ASSUME NEW x \in {disk, one(F!Partial), one(Absent)}, r = failed(x)
        PROVE  /\ DOMAIN r.disk = Paths /\ r.ok = FALSE /\ r.object = o
               /\ \A p \in TempPaths : r.disk[p] = disk[p]
    <2>1. r.disk = x /\ r.ok = FALSE /\ r.object = o
      BY <1>5
    <2> HIDE DEF failed, one
    <2>2. DOMAIN x = Paths /\ \A p \in TempPaths : x[p] = disk[p]
      BY <1>1, <1>3, <1>5
    <2> QED BY <2>1, <2>2
  <1> HIDE DEF failed, done, one
  <1> QED BY <1>2, <1>4, <1>5

\* The disk after a result that waits in `current` was renamed, or not.
LEMMA Kept ==
  ASSUME Running, NEW o \in Temp, current = {o}, NEW new \in Outputs,
         NEW r \in F!Renamed(o, disk, new)
  PROVE  OwnAll(Range(objects) \union {r.object}, r.disk)
  <1>1. /\ DOMAIN r.disk = Paths
        /\ ~r.ok => r.object = o /\ \A p \in TempPaths : r.disk[p] = disk[p]
        /\ r.ok => /\ r.object.keep /\ r.disk[o.path] = Absent /\ r.disk[new] = disk[o.path]
                   /\ \A p \in Paths \ {new, o.path} : r.disk[p] = disk[p]
    BY Renaming
  <1>2. Owned = Range(objects) \union {o} /\ OwnAll(Owned, disk)
    BY OwnedOwnAll DEF Owned
  <1>3. CASE ~r.ok
    BY <1>1, <1>2, <1>3 DEF OwnAll
  <1>4. CASE r.ok
    <2>1. ASSUME NEW p \in TempPaths, r.disk[p] # Absent
          PROVE  \E x \in Range(objects) : ~x.keep /\ x.path = p
      <3>1. p # o.path /\ p # new /\ p \in Paths
        BY <1>1, <1>4, <2>1, PathsAssumption DEF Paths
      <3>2. disk[p] # Absent
        BY <1>1, <1>4, <2>1, <3>1
      <3> QED BY <1>2, <3>1, <3>2 DEF OwnAll
    <2>2. \A x \in Range(objects) : x.keep \/ x.path \in TempPaths
      BY <1>2 DEF OwnAll
    <2> QED BY <1>1, <1>4, <2>1, <2>2 DEF OwnAll
  <1> QED BY <1>3, <1>4

LEMMA KeepInv ==
  ASSUME Running, exit = "running", Keep
  PROVE  Inv'
  <1>1. stage = "keep" /\ OnTrack /\ job.kind # "link" /\ objects = <<>>
    BY NoObjects DEF Keep, Running, OnTrack
  <1>2. PICK o \in current : \E r \in F!Renamed(o, disk, OutputOf(Input)) :
          IF r.ok THEN NextFile(r.disk, {r.object}) ELSE Exit("1", r.disk, {r.object})
    BY DEF Keep
  <1>3. PICK r \in F!Renamed(o, disk, OutputOf(Input)) :
          IF r.ok THEN NextFile(r.disk, {r.object}) ELSE Exit("1", r.disk, {r.object})
    BY <1>2
  <1>4. o \in Temp /\ current = {o} /\ disk[o.path] = Compiled(Input)
    BY <1>1 DEF Running, Holding
  <1>5. OutputOf(Input) \in Outputs
    BY <1>1, JobFacts, OutputFacts DEF Input
  <1>6. OwnAll({r.object}, r.disk)
    <2>1. OwnAll(Range(objects) \union {r.object}, r.disk)
      BY <1>3, <1>4, <1>5, Kept
    <2>2. Range(objects) = {}
      BY <1>1 DEF Range
    <2> QED BY <2>1, <2>2
  <1>7. CASE ~r.ok
    BY <1>3, <1>6, <1>7, ExitInv
  <1>8. CASE r.ok
    <2>1. /\ DOMAIN r.disk = Paths /\ r.disk[OutputOf(Input)] = Compiled(Input)
          /\ \A p \in Paths \ {OutputOf(Input), o.path} : r.disk[p] = disk[p]
      BY <1>3, <1>4, <1>5, <1>8, Renaming
    <2>2. \A p \in Outputs : p # OutputOf(Input) => r.disk[p] = disk[p]
      BY <1>4, <2>1, PathsAssumption DEF Paths, Temp
    <2>3. Made(next, r.disk)
      BY <1>1, <2>1, <2>2, MadeOneMore
    <2> QED BY <1>1, <1>3, <1>6, <1>8, <2>3, NextFileInv
  <1> QED BY <1>7, <1>8

LEMMA SeqDomain ==
  ASSUME NEW S, NEW s \in Seq(S)
  PROVE  DOMAIN s = 1..Len(s)
  OBVIOUS

\* The files the linker is given are the object files of the inputs.
LEMMA LinkerFindsAll ==
  ASSUME Running, stage \in {"link", "keep executable"}
  PROVE  LinkerSees = AllCompiled
  <1>1. OnTrack /\ Collected /\ job.kind = "link"
    BY DEF Running, OnTrack
  <1>2. DOMAIN paths = DOMAIN job.inputs /\ DOMAIN objects = DOMAIN job.inputs
    <2>1. Len(objects) = Len(job.inputs) /\ Len(paths) = Len(job.inputs)
      BY <1>1 DEF Collected
    <2>2. objects \in Seq(Temp) /\ paths \in Seq(TempPaths)
      BY <1>1 DEF Collected
    <2>3. DOMAIN objects = 1..Len(objects) /\ DOMAIN paths = 1..Len(paths)
      BY <2>2, SeqDomain
    <2>4. DOMAIN job.inputs = 1..Len(job.inputs)
      BY <1>1, JobFacts
    <2> QED BY <2>1, <2>3, <2>4
  <1>3. \A i \in DOMAIN paths : disk[paths[i]] = Compiled(job.inputs[i])
    BY <1>1, <1>2 DEF Collected
  <1> QED BY <1>2, <1>3 DEF LinkerSees, AllCompiled

LEMMA CollectInv ==
  ASSUME Running, exit = "running", Collect
  PROVE  Inv'
  <1>1. stage = "collect" /\ OnTrack /\ Collected /\ job.kind = "link"
    BY DEF Collect, Running, OnTrack
  <1>2. PICK o \in current, full \in BOOLEAN :
          LET left == {F!MovedFrom(e) : e \in {o} \union IF full THEN Range(objects) ELSE {}}
          IN  /\ \E new \in F!MovedTo(o) : objects' = Append(objects, new)
              /\ paths' = Append(paths, o.path)
              /\ current' = {}
              /\ disk' = F!Released(left, disk)
              /\ stage' = IF LastFile THEN "link" ELSE "parse"
              /\ next' = IF LastFile THEN next ELSE next + 1
              /\ UNCHANGED <<job, exit>>
    BY DEF Collect
  <1> DEFINE left == {F!MovedFrom(e) : e \in {o} \union IF full THEN Range(objects) ELSE {}}
  <1>3. PICK new \in F!MovedTo(o) : objects' = Append(objects, new)
    BY <1>2
  <1>4. /\ paths' = Append(paths, o.path) /\ current' = {} /\ disk' = F!Released(left, disk)
        /\ stage' = IF LastFile THEN "link" ELSE "parse"
        /\ next' = IF LastFile THEN next ELSE next + 1
        /\ job' = job /\ exit' = exit
    BY <1>2
  <1>5. /\ o \in Temp /\ current = {o} /\ o.path \notin Range(paths)
        /\ disk[o.path] = Compiled(Input)
    BY <1>1 DEF Running, Holding
  <1>6. new \in Temp /\ new.path = o.path
    BY <1>5, <1>3, MovedIsTemp
  <1>7. \A x \in left : x.keep
    BY <1>5, OwnedAreTemps, MovedOwnsNothing
  <1> HIDE DEF left
  <1>8. DOMAIN disk' = Paths /\ \A p \in Paths : disk'[p] = disk[p]
    <2>1. /\ DOMAIN F!Released(left, disk) = DOMAIN disk
          /\ \A p \in DOMAIN disk : F!Released(left, disk)[p] = disk[p]
      BY <1>7, ReleasingNothing
    <2> QED BY <1>1, <1>4, <2>1 DEF OnTrack
  <1>9. /\ next \in 1..Len(job.inputs) /\ Len(job.inputs) \in Nat
        /\ DOMAIN job.inputs = 1..Len(job.inputs)
    BY <1>1, JobFacts
  <1>10. OnTrack'
    BY <1>1, <1>4, <1>8, <1>9 DEF OnTrack, LastFile, OneOutputEach
  <1>11. /\ objects \in Seq(Temp) /\ paths \in Seq(TempPaths)
         /\ Len(objects) = next - 1 /\ Len(paths) = next - 1
    BY <1>1 DEF Collected
  <1>12. /\ objects' \in Seq(Temp) /\ Len(objects') = next /\ DOMAIN objects' = 1..next
         /\ objects'[next] = new /\ \A i \in 1..(next - 1) : objects'[i] = objects[i]
    BY <1>3, <1>6, <1>9, <1>11
  <1>13. /\ paths' \in Seq(TempPaths) /\ Len(paths') = next
         /\ paths'[next] = o.path /\ \A i \in 1..(next - 1) : paths'[i] = paths[i]
    <2>1. o.path \in TempPaths
      BY <1>5 DEF Temp
    <2> QED BY <1>4, <1>9, <1>11, <2>1
  <1>14. Collected'
    <2>1. Len(objects') = IF job'.kind # "link" THEN 0
                          ELSE IF stage' \in {"link", "keep executable"} THEN Len(job'.inputs)
                          ELSE next' - 1
      BY <1>1, <1>4, <1>9, <1>12 DEF LastFile
    <2>2. ASSUME NEW i \in 1..next
          PROVE  paths'[i] = objects'[i].path /\ disk'[paths'[i]] = Compiled(job.inputs[i])
      <3>1. CASE i = next
        <4>1. o.path \in Paths
          BY <1>5 DEF Temp, Paths
        <4> QED BY <1>5, <1>6, <1>8, <1>12, <1>13, <3>1, <4>1 DEF Input
      <3>2. CASE i # next
        <4>1. i \in 1..(next - 1) /\ i \in DOMAIN objects
          BY <1>9, <1>11, <3>2
        <4>2. paths[i] = objects[i].path /\ disk[paths[i]] = Compiled(job.inputs[i])
          BY <1>1, <4>1 DEF Collected
        <4>3. paths[i] \in Paths
          BY <4>1, PathsOfObjects
        <4> QED BY <1>8, <1>12, <1>13, <4>1, <4>2, <4>3
      <3> QED BY <3>1, <3>2
    <2>3. ASSUME NEW i \in 1..next, NEW j \in 1..next, paths'[i] = paths'[j]
          PROVE  i = j
      <3>1. \A k \in 1..(next - 1) : k \in DOMAIN objects /\ paths[k] \in Range(paths)
        BY <1>11, PathsOfObjects
      <3>2. \A k \in 1..(next - 1) : paths'[k] # o.path
        BY <1>5, <1>13, <3>1
      <3>3. (i = next \/ i \in 1..(next - 1)) /\ (j = next \/ j \in 1..(next - 1))
        BY <1>9
      <3>4. \A k, l \in 1..(next - 1) : paths[k] = paths[l] => k = l
        BY <1>1, <3>1 DEF Collected
      <3> QED BY <1>13, <2>3, <3>2, <3>3, <3>4
    <2>4. \A f : Compiled(f)' = Compiled(f)
      BY <1>4 DEF Compiled
    <2> QED BY <1>4, <1>12, <1>13, <2>1, <2>2, <2>3, <2>4 DEF Collected
  <1>15. Holding'
    BY <1>4 DEF Holding
  <1>16. AllOwned'
    <2>1. ASSUME NEW p \in TempPaths, disk'[p] # Absent
          PROVE  \E x \in Range(objects') : x.path = p
      <3>1. disk[p] # Absent
        BY <1>8, <2>1 DEF Paths
      <3>2. PICK x \in Range(objects) \union {o} : x.path = p
        BY <1>5, <3>1 DEF Running, AllOwned, Owned
      <3>3. CASE x = o
        <4>1. new \in Range(objects')
          BY <1>9, <1>12 DEF Range
        <4> QED BY <1>6, <3>2, <3>3, <4>1
      <3>4. CASE x \in Range(objects)
        <4>1. PICK i \in DOMAIN objects : x = objects[i]
          BY <3>4 DEF Range
        <4>2. i \in 1..(next - 1)
          BY <1>11
        <4>3. i \in DOMAIN objects' /\ objects'[i] = x
          BY <1>9, <1>12, <4>1, <4>2
        <4>4. x \in Range(objects')
          BY <4>3 DEF Range
        <4> QED BY <3>2, <4>4
      <3> QED BY <3>2, <3>3, <3>4
    <2> QED BY <2>1 DEF AllOwned, Owned
  <1>17. Made(next - 1, disk)'
    BY <1>1, <1>4 DEF Made, OneOutputEach
  <1>18. ZeroMeansDone' /\ NoneLeft'
    BY <1>4 DEF ZeroMeansDone, NoneLeft
  <1> QED BY <1>4, <1>10, <1>14, <1>15, <1>16, <1>17, <1>18 DEF Inv, Running

LEMMA LinkedInv ==
  ASSUME Running, exit = "running", stage = "link",
         disk' = [disk EXCEPT ![FreshPath] = Executable(LinkerSees)],
         NEW result \in F!MovedTo(F!Opened(FreshPath, "binary")), current' = {result},
         stage' = "keep executable", UNCHANGED <<job, next, objects, paths, exit>>
  PROVE  Inv'
  <1>1. OnTrack /\ Collected /\ job.kind = "link" /\ FreshPath \in TempPaths
        /\ FreshPath \notin Range(paths) /\ FreshPath \notin Outputs /\ FreshPath \in Paths
    BY FreshIsFree DEF Running, OnTrack, Paths
  <1>2. result \in Temp /\ result.path = FreshPath
    BY <1>1, OpenedIsTemp, MovedIsTemp DEF F!Modes
  <1>3. /\ DOMAIN disk' = Paths /\ disk'[FreshPath] = Executable(AllCompiled)
        /\ \A p \in Paths : p # FreshPath => disk'[p] = disk[p]
    BY <1>1, LinkerFindsAll DEF OnTrack
  <1>4. OnTrack'
    BY <1>1, <1>3 DEF OnTrack
  <1>5. Collected'
    <2>1. \A i \in DOMAIN objects : disk'[paths[i]] = disk[paths[i]]
      BY <1>1, <1>3, PathsOfObjects
    <2> QED BY <1>1, <2>1 DEF Collected, Compiled
  <1>6. Holding'
    <2>1. Executable(AllCompiled)' = Executable(AllCompiled)
      BY DEF AllCompiled, Compiled, Executable
    <2> QED BY <1>1, <1>2, <1>3, <2>1 DEF Holding
  <1>7. AllOwned'
    <2>1. ASSUME NEW p \in TempPaths, disk'[p] # Absent
          PROVE  \E o \in Owned' : o.path = p
      <3>1. result \in Owned' /\ Owned \subseteq Owned'
        BY DEF Owned, Running, Holding
      <3>2. CASE p = FreshPath
        BY <1>2, <3>1, <3>2
      <3>3. CASE p # FreshPath
        <4>1. disk[p] # Absent
          BY <1>3, <2>1, <3>3 DEF Paths
        <4> QED BY <3>1, <4>1 DEF Running, AllOwned
      <3> QED BY <3>2, <3>3
    <2> QED BY <2>1 DEF AllOwned
  <1>8. Made(next - 1, disk)'
    BY <1>1 DEF Made, OneOutputEach
  <1>9. ZeroMeansDone' /\ NoneLeft'
    BY DEF ZeroMeansDone, NoneLeft
  <1> QED BY <1>4, <1>5, <1>6, <1>7, <1>8, <1>9 DEF Inv, Running

LEMMA LinkInv ==
  ASSUME Running, exit = "running", Link
  PROVE  Inv'
  <1>1. stage = "link" /\ current = {}
    BY DEF Link, Running, Holding
  <1>2. CASE exit' = "undefined"
    BY <1>2 DEF Inv, ZeroMeansDone, NoneLeft
  <1>3. CASE /\ exit' = "1"
             /\ disk' = F!Released(Owned, disk)
             /\ objects' = <<>>
             /\ UNCHANGED <<job, stage, next, paths, current>>
    <2>1. Exit("1", disk, Owned)
      BY <1>1, <1>3 DEF Exit
    <2> QED BY <2>1, OwnedOwnAll, ExitInv
  <1>4. CASE /\ disk' = [disk EXCEPT ![FreshPath] = Executable(LinkerSees)]
             /\ \E result \in F!MovedTo(F!Opened(FreshPath, "binary")) : current' = {result}
             /\ stage' = "keep executable"
             /\ UNCHANGED <<job, next, objects, paths, exit>>
    BY <1>1, <1>4, LinkedInv
  <1> QED BY <1>2, <1>3, <1>4 DEF Link

LEMMA KeepExecutableInv ==
  ASSUME Running, exit = "running", KeepExecutable
  PROVE  Inv'
  <1>1. stage = "keep executable" /\ OnTrack /\ job.kind = "link"
    BY DEF KeepExecutable, Running, OnTrack
  <1>2. PICK o \in current : \E r \in F!Renamed(o, disk, OutputOf(Input)) :
          Exit(IF r.ok THEN "0" ELSE "1", r.disk, Range(objects) \union {r.object})
    BY DEF KeepExecutable
  <1>3. PICK r \in F!Renamed(o, disk, OutputOf(Input)) :
          Exit(IF r.ok THEN "0" ELSE "1", r.disk, Range(objects) \union {r.object})
    BY <1>2
  <1>4. o \in Temp /\ current = {o} /\ disk[o.path] = Executable(AllCompiled)
    BY <1>1 DEF Running, Holding
  <1>5. OutputOf(Input) = job.out /\ job.out \in Outputs
    BY <1>1, JobFacts DEF OutputOf
  <1>6. OwnAll(Range(objects) \union {r.object}, r.disk)
    BY <1>3, <1>4, <1>5, Kept
  <1>7. CASE ~r.ok
    BY <1>3, <1>6, <1>7, ExitInv
  <1>8. CASE r.ok
    <2>1. r.disk[job.out] = Executable(AllCompiled)
      BY <1>3, <1>4, <1>5, <1>8, Renaming
    <2>2. Done(r.disk)
      BY <1>1, <2>1 DEF Done, Made, OneOutputEach
    <2> QED BY <1>3, <1>6, <1>8, <2>2, ExitInv
  <1> QED BY <1>7, <1>8

-----------------------------------------------------------------------------
(* The theorems.                                                           *)

LEMMA InitInv == Init => Inv
  <1> SUFFICES ASSUME Init PROVE Inv
    OBVIOUS
  <1>1. /\ job \in Jobs /\ stage = "start" /\ next = 1 /\ objects = <<>> /\ paths = <<>>
        /\ current = {} /\ exit = "running"
        /\ disk = [p \in Outputs \union TempPaths |-> Before(p)]
    BY DEF Init
  <1>2. DOMAIN disk = Paths /\ \A p \in TempPaths : disk[p] = Absent
    BY <1>1 DEF Paths, Before
  <1>3. OnTrack
    <2>1. job.inputs \in Seq(DOMAIN DefaultOut) /\ job.inputs # <<>>
      BY <1>1, JobsAssumption
    <2>2. 1 \in DOMAIN job.inputs
      BY <2>1
    <2> QED BY <1>1, <1>2, <2>2 DEF OnTrack
  <1>4. Collected
    BY <1>1 DEF Collected
  <1>5. Holding /\ AllOwned
    BY <1>1, <1>2 DEF Holding, AllOwned
  <1>6. Made(next - 1, disk)
    BY <1>1 DEF Made
  <1> QED BY <1>1, <1>3, <1>4, <1>5, <1>6 DEF Inv, Running, ZeroMeansDone, NoneLeft

LEMMA NextInv == Inv /\ [Next]_vars => Inv'
  <1> SUFFICES ASSUME Inv, [Next]_vars PROVE Inv'
    OBVIOUS
  <1>1. CASE UNCHANGED vars
    BY <1>1 DEF vars, Inv, Running, OnTrack, Collected, Holding, AllOwned, Owned, Made,
                OutputOf, Compiled, Executable, AllCompiled, Input, ZeroMeansDone, NoneLeft, Files
  <1>2. CASE Next
    <2>1. exit = "running" /\ Running
      BY <1>2 DEF Next, Inv
    <2> QED BY <1>2, <2>1, StartInv, StageFailsInv, StageSucceedsInv, TypecheckedInv,
               EmitLlvmInv, CompileInv, KeepInv, CollectInv, LinkInv, KeepExecutableInv
            DEF Next
  <1> QED BY <1>1, <1>2

\* While a job runs, every temporary file has exactly one object that owns it,
\* objects and paths follow the input files, and what was written is kept.
THEOREM FilesAreOwned == Spec => []Inv
  BY InitInv, NextInv, PTL DEF Spec

\* Exit code 0 is only returned when every output was made from its input, and
\* an executable from all of them in order.
THEOREM SuccessIsTrue == Spec => []ZeroMeansDone
  <1>1. Inv => ZeroMeansDone
    BY DEF Inv
  <1> QED BY <1>1, FilesAreOwned, PTL

\* The linker is given one object file for each input, and each is still there.
THEOREM LinkerFindsObjects == Spec => []ObjectsAreThere
  <1>1. Inv => ObjectsAreThere
    BY LinkerFindsAll DEF Inv, ObjectsAreThere
  <1> QED BY <1>1, FilesAreOwned, PTL

\* However a job returned, no temporary file is left (where NoTempFileLeft
\* says also that it returns).
THEOREM ReturningCleansUp == Spec => []NoneLeft
  <1>1. Inv => NoneLeft
    BY DEF Inv
  <1> QED BY <1>1, FilesAreOwned, PTL
=============================================================================
