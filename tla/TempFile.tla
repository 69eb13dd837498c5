------------------------------ MODULE TempFile ------------------------------
(***************************************************************************)
(* dep0::temp_file_t: an object that owns a file on disk and removes it    *)
(* when it dies, unless the file was renamed to where it is kept.          *)
(*                                                                         *)
(* An object is [keep, path, file, mode], its members; `file` is the path  *)
(* that its FILE was opened at.  A disk is a function from paths to what   *)
(* the files hold: [what, of], or Absent where there is none.              *)
(***************************************************************************)
CONSTANTS Absent, NoFile

Content(what, of) == [what |-> what, of |-> of]
Partial == Content("partial", <<>>)   \* left when writing fails half way
Modes == {"binary", "text"}

\* temp_file_t(file, path, open_mode)
Opened(path, mode) == [keep |-> FALSE, path |-> path, file |-> path, mode |-> mode]

\* Mutant: acquire() copies m_keep.
MovedFrom_stillOwns(o) == [o EXCEPT !.file = NoFile]

\* What is left in an object that another was constructed from.
MovedFrom(o) == [o EXCEPT !.keep = TRUE, !.file = NoFile]

\* temp_file_t(temp_file_t&&): m_open_mode is not initialised, so it may be
\* any of the two.
MovedTo(o) == {[o EXCEPT !.mode = m] : m \in Modes}

\* The disk after the destruction of some objects.
Released(os, disk) ==
  [p \in DOMAIN disk |-> IF \E o \in os : ~o.keep /\ o.path = p THEN Absent ELSE disk[p]]

\* Mutant: the file is marked as kept first.
Renamed_keepsAlways(o, disk, new) ==
  LET copied == [disk EXCEPT ![new] = disk[o.path]]
  IN  { [ok |-> FALSE, object |-> [o EXCEPT !.keep = TRUE], disk |-> disk],
        [ok |-> TRUE, object |-> [o EXCEPT !.keep = TRUE, !.path = new, !.file = new],
         disk |-> [copied EXCEPT ![o.path] = Absent]] }

\* rename_and_keep: a copy, a new FILE, then the old one and its file go.  The
\* copy may fail before or after it wrote something, and the new file may not
\* open.  A file cannot be copied onto itself.
Renamed(o, disk, new) ==
  LET copied == [disk EXCEPT ![new] = disk[o.path]]
      failed(d) == [ok |-> FALSE, object |-> o, disk |-> d]
  IN  IF new = o.path \/ disk[o.path] = Absent THEN {failed(disk)}
      ELSE { failed(disk), failed([disk EXCEPT ![new] = Partial]),
             failed([disk EXCEPT ![new] = Absent]),
             [ok |-> TRUE, object |-> [o EXCEPT !.keep = TRUE, !.path = new, !.file = new],
              disk |-> [copied EXCEPT ![o.path] = Absent]] }
=============================================================================
