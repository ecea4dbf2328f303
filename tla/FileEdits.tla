------------------------------ MODULE FileEdits ------------------------------
(***************************************************************************)
(* The tools that change files: Write, Edit and Undo (write.go,            *)
(* apply_patch.go, diff.go, backup.go).  A file is the sequence of its     *)
(* lines; no line's text occurs inside another's, so a text is found at    *)
(* whole lines only.  Tool calls of one message run at once; a file that   *)
(* one of them is writing is empty for the others until it is written.     *)
(***************************************************************************)
EXTENDS Integers, SequencesExt

CONSTANTS
  First,     \* path -> text of the files there are at the start
  NewPaths,  \* paths of files that are not there
  Texts,     \* what Write writes
  Trim,      \* line -> the line without the blanks around it
  Replaces,  \* replacement lists of Edit: sequences of [old, new]
  Patches,   \* parsed diffs of Edit: sequences of [path, hunks]
  MaxEdits,  \* bound: tool calls
  MaxAtOnce  \* bound: tool calls under way at once

ASSUME EditConstants ==
  /\ DOMAIN First \cap NewPaths = {}
  /\ MaxEdits \in Nat /\ MaxAtOnce \in Nat

VARIABLES
  files,     \* path -> text
  backups,   \* backups: stack of [path, text]
  undoing,   \* an Undo holds backupMu and writes the file of the last backup
  editCalls, \* tool calls under way
  cards,     \* the diffs of the last call that returned some
  editsAsked,    \* calls so far
  past,      \* what each write that was not undone replaced (history)
  raced      \* an Undo ran while a call was between its backup and its write (history)

editVars == <<files, backups, undoing, editCalls, cards, editsAsked, past, raced>>

EditsInit ==
  /\ files = First /\ backups = <<>> /\ undoing = FALSE /\ editCalls = {} /\ cards = <<>>
  /\ editsAsked = 0 /\ past = <<>> /\ raced = FALSE

(***************************************************************************)
(* fuzzyApplyHunk.                                                         *)
(***************************************************************************)
Window(text, i, n) == SubSeq(text, i, i + n - 1)
Starts(text, old) == 1 .. Len(text) - Len(old) + 1

\* strings.Count: occurrences that do not overlap.
Count(text, old) ==
  LET from[i \in Nat] ==
        CASE i \notin Starts(text, old) -> 0
          [] Window(text, i, Len(old)) = old -> 1 + from[i + Len(old)]
          [] OTHER -> from[i + 1]
  IN  from[1]

\* fuzzyFind: the first window with two thirds of the lines, blanks aside.
Near(text, old) ==
  {i \in Starts(text, old) :
     LET same == {j \in 1 .. Len(old) : Trim[text[i + j - 1]] = Trim[old[j]]}
     IN  Cardinality(same) >= Max({1, (Len(old) * 2) \div 3})}

PutAt(text, i, n, new) == SubSeq(text, 1, i - 1) \o new \o SubSeq(text, i + n, Len(text))

\* The text after the replacement, as a singleton, or {} when it fails.
ApplyHunk(text, h) ==
  LET n == Len(h.old)
      exact == {i \in Starts(text, h.old) : Window(text, i, n) = h.old}
      near == Near(text, h.old)
  IN  IF n = 0 THEN {text}
      ELSE IF Count(text, h.old) = 1 THEN {PutAt(text, Min(exact), n, h.new)}
      ELSE IF near = {} \/ Count(text, Window(text, Min(near), n)) > 1 THEN {}
      ELSE {PutAt(text, Min(near), n, h.new)}

\* A replacement of Edit must have an old text; a hunk of a patch need not.
ApplyAll(tool, text, hunks) ==
  FoldLeft(LAMBDA got, h : IF tool = "Edit" /\ h.old = <<>> THEN {}
                           ELSE UNION {ApplyHunk(t, h) : t \in got},
           {text}, hunks)

(***************************************************************************)
(* Tool calls.                                                             *)
(***************************************************************************)
Job(p, hunks, text) == [path |-> p, hunks |-> hunks, text |-> text]
UnderWay == Cardinality(editCalls) + (IF undoing THEN 1 ELSE 0)

Ask(tool, jobs) ==
  /\ editsAsked < MaxEdits /\ UnderWay < MaxAtOnce
  /\ editsAsked' = editsAsked + 1
  /\ editCalls' = editCalls \cup
       {[id |-> editsAsked', tool |-> tool, jobs |-> jobs, at |-> "read", k |-> 1,
         orig |-> <<>>, kept |-> <<>>, diffs |-> <<>>]}
  /\ UNCHANGED <<files, backups, undoing, cards, past, raced>>

AskWrite(p, t) == Ask("Write", <<Job(p, <<>>, t)>>)
AskEdit(p, rs) == Ask("Edit", <<Job(p, rs, <<>>)>>)
AskPatch(pf)   == Ask("Patch", [i \in DOMAIN pf |-> Job(pf[i].path, pf[i].hunks, <<>>)])

Replace(c, d) == editCalls' = (editCalls \ {c}) \cup {d}
TextOf(p) == IF p \in DOMAIN files THEN files[p] ELSE <<>>
PathOf(c) == c.jobs[c.k].path

\* All files of a patch are read before the first is changed; Edit needs them.
ReadFiles(c) ==
  /\ c.at = "read"
  /\ IF c.tool # "Write" /\ \E i \in DOMAIN c.jobs : c.jobs[i].path \notin DOMAIN files
     THEN editCalls' = editCalls \ {c}
     ELSE Replace(c, [c EXCEPT !.at = "backup",
                               !.orig = [i \in DOMAIN c.jobs |-> TextOf(c.jobs[i].path)]])
  /\ UNCHANGED <<files, backups, undoing, cards, editsAsked, past, raced>>

\* BackupFile reads the file before it waits for the lock; one not there has no backup.
BackupReads_OncePerCall(c) ==
  /\ c.at = "backup"
  /\ IF PathOf(c) \in DOMAIN files /\ c.k = 1
     THEN Replace(c, [c EXCEPT !.at = "push", !.kept = files[PathOf(c)]])
     ELSE Replace(c, [c EXCEPT !.at = "write"])
  /\ UNCHANGED <<files, backups, undoing, cards, editsAsked, past, raced>>
BackupReads(c) ==
  /\ c.at = "backup"
  /\ IF PathOf(c) \in DOMAIN files
     THEN Replace(c, [c EXCEPT !.at = "push", !.kept = files[PathOf(c)]])
     ELSE Replace(c, [c EXCEPT !.at = "write"])
  /\ UNCHANGED <<files, backups, undoing, cards, editsAsked, past, raced>>

BackupPushes(c) ==
  /\ c.at = "push" /\ ~undoing
  /\ backups' = Append(backups, [path |-> PathOf(c), text |-> c.kept])
  /\ Replace(c, [c EXCEPT !.at = "write", !.kept = <<>>])
  /\ UNCHANGED <<files, undoing, cards, editsAsked, past, raced>>

\* The text a job writes, from the text its call read: a singleton or {}.
Outcome(c) ==
  LET job == c.jobs[c.k]
  IN  IF c.tool = "Write" THEN {job.text} ELSE ApplyAll(c.tool, c.orig[c.k], job.hunks)

\* os.WriteFile empties the file, or makes it, and then writes.
Truncate(c) ==
  /\ c.at = "write" /\ Outcome(c) # {}
  /\ LET p == PathOf(c)
     IN  /\ files' = [q \in DOMAIN files \cup {p} |-> IF q = p THEN <<>> ELSE files[q]]
         /\ past' = IF p \in DOMAIN files
                    THEN Append(past, [path |-> p, text |-> files[p]]) ELSE past
  /\ Replace(c, [c EXCEPT !.at = "fill"])
  /\ UNCHANGED <<backups, undoing, cards, editsAsked, raced>>

\* The diffs reach the page when the whole call succeeds.
WriteFile(c) ==
  /\ c.at = "fill"
  /\ \E t \in Outcome(c) :
       LET d == [before |-> c.orig[c.k], after |-> t]
           silent == c.tool = "Write" /\ (d.before = <<>> \/ d.before = t)
           diffs == IF silent THEN c.diffs ELSE Append(c.diffs, d)
       IN  /\ files' = [files EXCEPT ![PathOf(c)] = t]
           /\ IF c.k = Len(c.jobs)
              THEN editCalls' = editCalls \ {c} /\ cards' = diffs
              ELSE /\ Replace(c, [c EXCEPT !.at = "backup", !.k = @ + 1, !.diffs = diffs])
                   /\ UNCHANGED cards
  /\ UNCHANGED <<backups, undoing, editsAsked, past, raced>>

\* A replacement that finds no place, or a write that fails before or after the file
\* was emptied, ends the call; files written stay.
EditFails(c) ==
  /\ c.at \in {"write", "fill"}
  /\ editCalls' = editCalls \ {c}
  /\ UNCHANGED <<files, backups, undoing, cards, editsAsked, past, raced>>

\* Undo takes the last backup and writes its text; when that fails it puts the
\* backup back.  It has the lock until then, so nobody sees the stack without it.
Crosses == raced \/ \E c \in editCalls : c.at \in {"push", "write", "fill"}

UndoTruncates ==
  /\ backups # <<>> /\ ~undoing /\ UnderWay < MaxAtOnce
  /\ undoing' = TRUE /\ files' = [files EXCEPT ![Last(backups).path] = <<>>]
  /\ raced' = Crosses
  /\ UNCHANGED <<backups, editCalls, cards, editsAsked, past>>

Undo ==
  /\ undoing /\ undoing' = FALSE
  /\ files' = [files EXCEPT ![Last(backups).path] = Last(backups).text]
  /\ backups' = Front(backups)
  /\ past' = IF past = <<>> THEN past ELSE Front(past)
  /\ raced' = Crosses
  /\ UNCHANGED <<editCalls, cards, editsAsked>>

UndoFails ==
  /\ undoing /\ undoing' = FALSE /\ raced' = Crosses
  /\ UNCHANGED <<files, backups, editCalls, cards, editsAsked, past>>

EditsNext ==
  \/ \E p \in DOMAIN First \cup NewPaths :
       \/ \E t \in Texts : AskWrite(p, t)
       \/ \E rs \in Replaces : AskEdit(p, rs)
  \/ \E pf \in Patches : AskPatch(pf)
  \/ \E c \in editCalls :
       \/ ReadFiles(c) \/ BackupReads(c) \/ BackupPushes(c)
       \/ Truncate(c) \/ WriteFile(c) \/ EditFails(c)
  \/ UndoTruncates \/ Undo \/ UndoFails

EditsSpec == EditsInit /\ [][EditsNext]_editVars

(***************************************************************************)
(* Properties.                                                             *)
(***************************************************************************)
\* However calls and Undo fail, and in whatever order calls at the same time read,
\* push, empty and write, undoing everything (backup.go:33) brings each file back to
\* its first text, unless an Undo ran while a call had read its backup (backup.go:24,
\* outside the lock) and had not written its text.
UndoReturnsAll ==
  ~raced => \A p \in DOMAIN First :
    LET of == {i \in DOMAIN backups : backups[i].path = p}
    IN  First[p] = IF of = {} THEN files[p] ELSE backups[Min(of)].text

\* What the tool's description promises (backup.go:57): Undo takes back the
\* last edit made.
UndoTakesLastEdit ==
  [][(past # <<>> /\ Len(backups') < Len(backups))
       => files'[Last(past).path] = Last(past).text]_editVars
=============================================================================
