------------------------------ MODULE Branches ------------------------------
(* What the writers of a repository promise together: an edit changes its   *)
(* files of one branch in one step, as if they were read and written at     *)
(* once, changes each file once at most, and leaves everything else as it   *)
(* is; a branch begins as a copy of what another is or was at.  Only a      *)
(* proposal may make of its file what it wants, not on the default branch.  *)
EXTENDS Naturals, Sequences

CONSTANTS Branch, Default, Path, Edit

VARIABLES
  there,  \* the branches there are
  files,  \* files[b][p]: the edits in file p of branch b
  past,   \* past[b]: the files branch b has had, as they are now included
  log     \* the changes made to files, in their order

vars == <<there, files, past, log>>

Change == [branch : Branch, edit : Edit, paths : SUBSET Path]

Init ==
  /\ there = {Default}
  /\ files \in [Branch -> [Path -> SUBSET Edit]]
  /\ past = [b \in Branch |-> IF b \in there THEN {files[b]} ELSE {}]
  /\ log \in Seq(Change)

Once(ch) ==
  /\ log' = Append(log, ch)
  /\ \A n \in DOMAIN log : log[n].edit = ch.edit => log[n].paths \cap ch.paths = {}

\* Each of the change's files is replaced by the edit or has it added.
Edited(ch) ==
  {[p \in Path |-> IF p \in replaced THEN {ch.edit}
                   ELSE IF p \in ch.paths THEN files[ch.branch][p] \cup {ch.edit}
                   ELSE files[ch.branch][p]] : replaced \in SUBSET ch.paths}

Apply(ch) ==
  /\ Once(ch)
  /\ ch.branch \in there
  /\ \E new \in Edited(ch) : files' = [files EXCEPT ![ch.branch] = new]
  /\ UNCHANGED there

Propose(ch) ==
  /\ Once(ch)
  /\ ch.branch \in there \ {Default}
  /\ \E p \in Path : LET new == files'[ch.branch][p] IN
       /\ ch.paths = {p} /\ ch.edit \in new
       /\ files' = [files EXCEPT ![ch.branch][p] = new]
  /\ UNCHANGED there

Create(b, source) ==
  /\ b \notin there /\ source \in there
  /\ there' = there \cup {b}
  /\ \E old \in past[source] : files' = [files EXCEPT ![b] = old]
  /\ UNCHANGED log

\* The change of a step is the one it logs.
Logged == {log'[n] : n \in DOMAIN log' \ DOMAIN log}

Remembered ==
  past' = [b \in Branch |-> IF b \in there' THEN past[b] \cup {files'[b]} ELSE past[b]]

Next ==
  /\ \/ \E ch \in Logged \cap Change : Apply(ch) \/ Propose(ch)
     \/ \E b, source \in Branch : Create(b, source)
  /\ Remembered

Spec == Init /\ [][Next]_vars
=============================================================================
