------------------------------ MODULE EditCards ------------------------------
(***************************************************************************)
(* What the page draws of an edit: the unified diff that the tool makes    *)
(* (diff.go) and its card (diff-viewer.tsx).  It recurses as the code      *)
(* backtracks, so it is checked and not proved about.                      *)
(***************************************************************************)
EXTENDS FileEdits

(***************************************************************************)
(* The unified diff.                                                       *)
(***************************************************************************)
\* Row i of the table dp, from row i - 1.
RECURSIVE DpRow(_, _, _, _)
DpRow(up, x, new, row) ==
  LET j == Len(row)
  IN  IF j > Len(new) THEN row
      ELSE DpRow(up, x, new,
             Append(row, IF x = new[j] THEN up[j] + 1 ELSE Max({up[j + 1], row[j]})))

Dp(old, new) ==
  FoldLeft(LAMBDA rows, x : Append(rows, DpRow(Last(rows), x, new, <<0>>)),
           <<[j \in 1 .. Len(new) + 1 |-> 0]>>, old)

Same(t) == [kind |-> "normal", text |-> t]
Gone(t) == [kind |-> "del", text |-> t]
Come(t) == [kind |-> "add", text |-> t]

RECURSIVE Back(_, _, _, _, _)
Back(old, new, dp, i, j) ==
  CASE i = 0 /\ j = 0 -> <<>>
    [] i > 0 /\ j > 0 /\ old[i] = new[j] ->
         Append(Back(old, new, dp, i - 1, j - 1), Same(old[i]))
    [] j > 0 /\ (i = 0 \/ (old[i] # new[j] /\ dp[i + 1][j] >= dp[i][j + 1])) ->
         Append(Back(old, new, dp, i, j - 1), Come(new[j]))
    [] OTHER -> Append(Back(old, new, dp, i - 1, j), Gone(old[i]))

ComputeEdits(old, new) == Back(old, new, Dp(old, new), Len(old), Len(new))

Tally(es, kinds) == Len(SelectSeq(es, LAMBDA e : e.kind \in kinds))

\* A hunk of es[from+1 .. to].  A deleted line is counted twice on the old
\* side and once on the new.
Hunk_OldOffset(es, from, to) ==
  LET before == SubSeq(es, 1, from)
      lines == SubSeq(es, from + 1, to)
      pos == Tally(lines, {"normal", "del"})
  IN  [old |-> Tally(before, {"normal", "del"}) + 1,
       new |-> Tally(before, {"normal", "del"}) + 1,
       oldLines |-> pos + Tally(lines, {"del"}),
       newLines |-> pos + Tally(lines, {"add"}),
       lines |-> lines]
Hunk(es, from, to) ==
  LET before == SubSeq(es, 1, from)
      lines == SubSeq(es, from + 1, to)
      pos == Tally(lines, {"normal", "del"})
  IN  [old |-> Tally(before, {"normal", "del"}) + 1,
       new |-> Tally(before, {"normal", "add"}) + 1,
       oldLines |-> pos + Tally(lines, {"del"}),
       newLines |-> pos + Tally(lines, {"add"}),
       lines |-> lines]

Context == 3
RECURSIVE HunksFrom(_, _)
HunksFrom(es, i) ==
  LET changed == {k \in i + 1 .. Len(es) : es[k].kind # "normal"}
  IN  IF changed = {} THEN <<>>
      ELSE LET at == Min(changed) - 1
               quiet == {k \in at + 1 .. Len(es) : es[k].kind = "normal"}
               over == IF quiet = {} THEN Len(es) ELSE Min(quiet) - 1
               end == Min({over + Context, Len(es)})
           IN  <<Hunk(es, Max({at - Context, 0}), end)>> \o HunksFrom(es, end)

UnifiedDiff(d) == HunksFrom(ComputeEdits(d.before, d.after), 0)

(***************************************************************************)
(* The card: parse-diff reads the lines of a hunk until both counts of its *)
(* header are used up; an "@@" before that is not seen, and a line after   *)
(* it is dropped.  The page numbers each line and draws it.                *)
(***************************************************************************)
ParseLine(s, e) ==
  LET o == IF e.kind = "add" THEN 0 ELSE 1
      n == IF e.kind = "del" THEN 0 ELSE 1
  IN  IF s.left = <<0, 0>> THEN s
      ELSE [left |-> <<s.left[1] - o, s.left[2] - n>>,
            old |-> s.old + o, new |-> s.new + n,
            lines |-> Append(s.lines, [kind |-> e.kind, text |-> e.text,
                                       old |-> s.old, new |-> s.new])]

ParseChunk(s, h) ==
  FoldLeft(ParseLine,
           IF s.left = <<0, 0>>
           THEN [s EXCEPT !.left = <<h.oldLines, h.newLines>>, !.old = h.old, !.new = h.new]
           ELSE s,
           h.lines)

ParsePatch(hunks) ==
  LET lines == FoldLeft(ParseChunk, [left |-> <<0, 0>>, old |-> 0, new |-> 0, lines |-> <<>>],
                        hunks).lines
  IN  [lines |-> lines, additions |-> Tally(lines, {"add"}), deletions |-> Tally(lines, {"del"})]

\* One number to a line of the unified view: an added line has its new one.
DiffViewerLine(l) ==
  [kind |-> l.kind, text |-> l.text, number |-> IF l.kind = "add" THEN l.new ELSE l.old]

\* The header's "+n -m", none when nothing changed.
DiffViewerStats(parsed) == [additions |-> parsed.additions, deletions |-> parsed.deletions]

DiffViewer(hunks) ==
  LET parsed == ParsePatch(hunks)
  IN  [stats |-> DiffViewerStats(parsed),
       lines |-> [i \in DOMAIN parsed.lines |-> DiffViewerLine(parsed.lines[i])]]

(***************************************************************************)
(* Properties.                                                             *)
(***************************************************************************)
\* The longest common subsequence by its definition.
RECURSIVE Subsequences(_)
Subsequences(s) ==
  IF s = <<>> THEN {<<>>}
  ELSE LET rest == Subsequences(Tail(s)) IN rest \cup {<<s[1]>> \o t : t \in rest}
CommonLength(a, b) == Max({Len(t) : t \in Subsequences(a) \cap Subsequences(b)})

\* No hunk but the last deletes a line: the counts of the others are right.
Countable(hunks) == \A i \in 1 .. Len(hunks) - 1 : Tally(hunks[i].lines, {"del"}) = 0

\* No hunk repeats lines of the one before: the three before a change are taken
\* without regard to where the last hunk ended.
Apart(hunks) ==
  \A i \in 1 .. Len(hunks) - 1 :
    hunks[i + 1].new >= hunks[i].new + Tally(hunks[i].lines, {"normal", "add"})

\* The card of a diff shows under each number the line the file has there, and all
\* that changed: as many lines deleted and added as the longest common text leaves,
\* and its header counts as many unless hunks overlap.
TrueCard(d) ==
  LET hunks == UnifiedDiff(d)
      card == DiffViewer(hunks)
      of(k) == {l \in ToSet(card.lines) : l.kind = k}
      at(l) == IF l.kind = "add" THEN d.after ELSE d.before
      common == CommonLength(d.before, d.after)
      changed == [additions |-> Len(d.after) - common, deletions |-> Len(d.before) - common]
  IN  Countable(hunks) =>
        /\ \A l \in ToSet(card.lines) : l.number \in DOMAIN at(l) /\ at(l)[l.number] = l.text
        /\ changed = [additions |-> Cardinality(of("add")), deletions |-> Cardinality(of("del"))]
        /\ Apart(hunks) => card.stats = changed

\* Whatever the calls make of the files, and in whatever order, each card the page
\* gets is true of its edit (diff.go:68, diff-viewer.tsx:33).  Not so once a hunk that
\* deletes is followed by another, whose lines parse-diff takes for the first one's.
CardIsTrue == [][cards' # cards => \A i \in DOMAIN cards' : TrueCard(cards'[i])]_cards
=============================================================================
