------------------------------ MODULE Recorder ------------------------------
(***************************************************************************)
(* The exchange log of a device (recorder): lines are appended to a live    *)
(* file that is rotated through Keep generations before a line would take   *)
(* it past MaxSize; consecutive plain 404s are one line and a count.  A     *)
(* rotation is a chain of file operations; the bridge may crash between any *)
(* two, and opening the live file or writing to it may fail.                *)
(*                                                                         *)
(* A line is its number, its size and how many 404s it stands for.          *)
(***************************************************************************)
EXTENDS Integers, Sequences, SequencesExt

CONSTANTS MaxSize, Keep, Sizes,   \* Sizes: of a line
          MaxLines, Max404s, NoFile

VARIABLES
  file,      \* the files: 0 is the live one, 1..Keep the generations; a sequence of lines or NoFile
  isOpen,    \* r.f is not nil
  quiet404,
  todo,      \* the lines of the write under way
  pc,        \* what the write does next: "idle", "encode", "remove", "move", "open"
  gen,       \* the file "move" moves up
  accepted,  \* the lines appended, in order
  seen404,   \* plain 404s exchanged since the bridge started,
  logged404, \* those of them in the log,
  lost404,   \* and those a failed write dropped
  lines

vars == <<file, isOpen, quiet404, todo, pc, gen, accepted, seen404, logged404, lost404, lines>>

Size(f) == FoldLeft(LAMBDA sum, l : sum + l.size, 0, f)

Init ==
  /\ file = [i \in 0..Keep |-> IF i = 0 THEN <<>> ELSE NoFile]
  /\ isOpen = TRUE /\ quiet404 = 0 /\ todo = <<>> /\ pc = "idle" /\ gen = 0
  /\ accepted = <<>> /\ seen404 = 0 /\ logged404 = 0 /\ lost404 = 0 /\ lines = 0

Line(n, size, count) == [n |-> n, size |-> size, count |-> count]

\* Another plain 404 in a row: counted, not written.
Write404Again ==
  /\ pc = "idle" /\ quiet404 > 0 /\ seen404 < Max404s
  /\ quiet404' = quiet404 + 1 /\ seen404' = seen404 + 1
  /\ UNCHANGED <<gen, file, isOpen, todo, pc, accepted, logged404, lost404, lines>>

Write404First ==
  /\ pc = "idle" /\ quiet404 = 0 /\ lines < MaxLines
  /\ quiet404' = 1 /\ seen404' = seen404 + 1 /\ lines' = lines + 1
  /\ \E size \in Sizes : todo' = <<Line(lines + 1, size, 1)>>
  /\ pc' = "encode"
  /\ UNCHANGED <<gen, file, isOpen, accepted, logged404, lost404>>

\* Any other exchange writes the count of the run before it, then itself.
Write ==
  /\ pc = "idle" /\ lines < MaxLines - 1
  /\ \E size \in Sizes :
       todo' = IF quiet404 > 1 THEN <<Line(lines + 1, 1, quiet404 - 1), Line(lines + 2, size, 0)>>
               ELSE <<Line(lines + 1, size, 0)>>
  /\ quiet404' = IF quiet404 > 1 THEN quiet404 ELSE 0
  /\ lines' = lines + Len(todo')
  /\ pc' = "encode"
  /\ UNCHANGED <<gen, file, isOpen, accepted, seen404, logged404, lost404>>

\* The bridge stops in order: the run is closed with its count.  The next
\* process starts with no run.
Close ==
  /\ pc = "idle" /\ quiet404 > 1 /\ lines < MaxLines
  /\ todo' = <<Line(lines + 1, 1, quiet404 - 1)>> /\ lines' = lines + 1
  /\ quiet404' = 0 /\ pc' = "encode"
  /\ UNCHANGED <<gen, file, isOpen, accepted, seen404, logged404, lost404>>

\* The write returns an error: the lines it had left are dropped, a run that is
\* still open stays.
Fails ==
  /\ todo' = <<>> /\ pc' = "idle"
  /\ lost404' = lost404 + (IF quiet404 > 1 THEN 0 ELSE Head(todo).count)

Reopen ==
  /\ pc = "encode" /\ ~isOpen
  /\ isOpen' = TRUE /\ file' = [file EXCEPT ![0] = IF @ = NoFile THEN <<>> ELSE @]
  /\ UNCHANGED <<gen, quiet404, todo, pc, accepted, seen404, logged404, lost404, lines>>

OpenFails ==
  /\ ~isOpen /\ pc \in {"encode", "open"}
  /\ Fails
  /\ UNCHANGED <<gen, file, isOpen, quiet404, accepted, seen404, logged404, lines>>

PastCap == file[0] # <<>> /\ Size(file[0]) + Head(todo).size > MaxSize

AppendLine ==
  /\ pc = "encode" /\ isOpen /\ ~PastCap
  /\ file' = [file EXCEPT ![0] = Append(@, Head(todo))]
  /\ accepted' = Append(accepted, Head(todo).n) /\ logged404' = logged404 + Head(todo).count
  /\ todo' = Tail(todo) /\ pc' = IF Len(todo) > 1 THEN "encode" ELSE "idle"
  /\ quiet404' = IF Len(todo) > 1 THEN 0 ELSE quiet404
  /\ UNCHANGED <<gen, isOpen, seen404, lost404, lines>>

\* The disk is full: nothing of the line is written.
WriteFails ==
  /\ pc = "encode" /\ isOpen /\ ~PastCap
  /\ Fails
  /\ UNCHANGED <<gen, file, isOpen, quiet404, accepted, seen404, logged404, lines>>

\* A rotation: the oldest generation goes, the others and the live file move up.
Rotate ==
  /\ pc = "encode" /\ isOpen /\ PastCap
  /\ isOpen' = FALSE /\ pc' = "remove"
  /\ UNCHANGED <<gen, file, quiet404, todo, accepted, seen404, logged404, lost404, lines>>

RemoveOldest ==
  /\ pc = "remove"
  /\ file' = [file EXCEPT ![Keep] = NoFile]
  /\ pc' = "move" /\ gen' = Keep - 1
  /\ UNCHANGED <<isOpen, quiet404, todo, accepted, seen404, logged404, lost404, lines>>

\* On to the next newer file, down to the live one.
Moved ==
  /\ pc' = IF gen = 0 THEN "open" ELSE "move"
  /\ gen' = IF gen = 0 THEN 0 ELSE gen - 1
  /\ UNCHANGED <<isOpen, quiet404, todo, accepted, seen404, logged404, lost404, lines>>

\* Mutant: the generations move up from the newest.
MoveUpNewestFirst ==
  /\ pc = "move" /\ Moved
  /\ LET j == Keep - 1 - gen
     IN  file' = IF file[j] = NoFile THEN file ELSE [file EXCEPT ![j + 1] = file[j], ![j] = NoFile]
MoveUp ==
  /\ pc = "move" /\ Moved
  /\ file' = IF file[gen] = NoFile THEN file ELSE [file EXCEPT ![gen + 1] = file[gen], ![gen] = NoFile]

OpenLive ==
  /\ pc = "open"
  /\ isOpen' = TRUE /\ file' = [file EXCEPT ![0] = IF @ = NoFile THEN <<>> ELSE @]
  /\ pc' = "encode"
  /\ UNCHANGED <<gen, quiet404, todo, lost404, accepted, seen404, logged404, lines>>

\* The bridge is killed anywhere and starts again; a run of 404s is not closed.
Crash ==
  /\ isOpen' = TRUE /\ file' = [file EXCEPT ![0] = IF @ = NoFile THEN <<>> ELSE @]
  /\ quiet404' = 0 /\ todo' = <<>> /\ pc' = "idle" /\ gen' = 0
  /\ seen404' = 0 /\ logged404' = 0 /\ lost404' = 0
  /\ UNCHANGED <<accepted, lines>>

Next ==
  \/ Write404Again \/ Write404First \/ Write \/ Close
  \/ Reopen \/ OpenFails \/ AppendLine \/ WriteFails \/ Rotate \/ RemoveOldest \/ MoveUp \/ OpenLive \/ Crash

(***************************************************************************)
(* Properties.                                                              *)
(***************************************************************************)
Lines(i) == IF file[i] = NoFile THEN <<>> ELSE [j \in DOMAIN file[i] |-> file[i][j].n]
Oldest == [i \in 1..(Keep + 1) |-> Keep + 1 - i]
Log == FlattenSeq([i \in 1..(Keep + 1) |-> Lines(Oldest[i])])

\* A step keeps the generations and the live file, oldest first, the newest
\* lines that were accepted, in order and without a gap, and takes nothing
\* out of them but the oldest generation.
KeepsNewest ==
  /\ IsSuffix(Log', accepted')
  /\ ToSet(Log) \ ToSet(Log') \subseteq ToSet(Lines(Keep))

\* Every plain 404 since the start is in the log, in the count that is still
\* running, or of a write that failed.
All404sCounted ==
  pc = "idle" => seen404 = logged404 + (IF quiet404 > 1 THEN quiet404 - 1 ELSE 0) + lost404
=============================================================================
