----------------------------- MODULE EditProofs -----------------------------
(***************************************************************************)
(* What undoing everything brings back (FileEdits), proved for any files,  *)
(* texts and patches, and any number of tool calls at once.  Nothing is    *)
(* assumed of the text an edit makes: whatever a hunk's search finds, the  *)
(* argument is about the order of backups, writes and undos alone.         *)
(***************************************************************************)
EXTENDS FileEdits, SequenceTheorems, WellFoundedInduction, TLAPS

-----------------------------------------------------------------------------
(* The stack of backups.                                                    *)

Stack(s) == \E S : s \in Seq(S)

LEMMA StackIs ==
  ASSUME NEW s, Stack(s)
  PROVE  Len(s) \in Nat /\ DOMAIN s = 1..Len(s)
<1>1. PICK S : s \in Seq(S)
  BY DEF Stack
<1>2. QED BY <1>1, LenProperties

LEMMA StackGrows ==
  ASSUME NEW s, Stack(s), NEW e
  PROVE  /\ Stack(Append(s, e)) /\ Len(Append(s, e)) = Len(s) + 1
         /\ Append(s, e)[Len(s) + 1] = e
         /\ \A i \in 1..Len(s) : Append(s, e)[i] = s[i]
<1>1. PICK S : s \in Seq(S)
  BY DEF Stack
<1> DEFINE U == S \cup {e}
<1>2. s \in Seq(U)
  <2>1. \A i \in 1..Len(s) : s[i] \in U
    BY <1>1, ElementOfSeq
  <2>2. Len(s) \in Nat /\ s = [i \in 1..Len(s) |-> s[i]]
    BY <1>1, LenProperties
  <2> HIDE DEF U
  <2>3. QED BY <2>1, <2>2, IsASeq
<1>3. e \in U
  OBVIOUS
<1> HIDE DEF U
<1>4. QED BY <1>2, <1>3, AppendProperties DEF Stack

LEMMA StackPops ==
  ASSUME NEW s, Stack(s), s # <<>>
  PROVE  /\ Stack(Front(s)) /\ Len(s) \in Nat \ {0} /\ Last(s) = s[Len(s)]
         /\ Len(Front(s)) = Len(s) - 1
         /\ \A i \in 1..Len(s) - 1 : Front(s)[i] = s[i]
<1> DEFINE n == Len(s)
<1>1. PICK S : s \in Seq(S)
  BY DEF Stack
<1>2. n \in Nat /\ n # 0 /\ \A i \in 1..n : s[i] \in S
  BY <1>1, LenProperties, ElementOfSeq, EmptySeq
<1> DEFINE front == SubSeq(s, 1, n - 1)
<1>3. \A i \in 1..n - 1 : s[i] \in S
  BY <1>2
<1>4. /\ front \in Seq(S) /\ Len(front) = IF 1 <= n - 1 THEN n - 1 - 1 + 1 ELSE 0
      /\ \A i \in 1..n - 1 - 1 + 1 : front[i] = s[1 + i - 1]
  BY <1>1, <1>2, <1>3, SubSeqProperties
<1>5. Front(s) = front
  BY DEF Front
<1> HIDE DEF front
<1>6. \A i \in 1..n - 1 : front[i] = s[i]
  BY <1>2, <1>4
<1>7. Len(front) = n - 1
  <2> HIDE DEF n
  <2>1. QED BY <1>2, <1>4
<1>8. Last(s) = s[n]
  BY DEF Last
<1>9. QED BY <1>2, <1>4, <1>5, <1>6, <1>7, <1>8 DEF Stack

\* The smallest of some places.
Below == {ss \in Nat \X Nat : ss[1] < ss[2]}

LEMMA SmallestPlace ==
  ASSUME NEW n \in Nat, NEW S, S \subseteq 1..n, S # {}
  PROVE  Min(S) \in S /\ \A k \in S : Min(S) <= k
<1>1. IsWellFoundedOn(Below, Nat)
  BY NatLessThanWellFounded DEF OpToRel, Below
<1>2. S \subseteq Nat
  OBVIOUS
<1>3. PICK x \in S : \A y \in S : ~ (<<y, x>> \in Below)
  BY <1>1, <1>2, WFMin
<1>4. \A y \in S : x <= y
  <2>1. ASSUME NEW y \in S, ~(x <= y) PROVE FALSE
    <3>1. <<y, x>> \in Below
      BY <1>2, <2>1 DEF Below
    <3>2. QED BY <1>3, <3>1
  <2>2. QED BY <2>1
<1>5. QED BY <1>3, <1>4 DEF Min

-----------------------------------------------------------------------------
(* The invariant.                                                           *)

\* The oldest backup of a path has its first text, or the file itself has it.
Backed(p) == \E i \in 1..Len(backups) : backups[i].path = p
Oldest(p, i) == backups[i].path = p /\ \A j \in 1..Len(backups) : j < i => backups[j].path # p
Returns(p) ==
  /\ ~Backed(p) => files[p] = First[p]
  /\ \A i \in 1..Len(backups) : Oldest(p, i) => backups[i].text = First[p]

Fields == {"jobs", "at", "k", "kept"}
Quiet(c) == c.at \notin {"push", "write", "fill"}

\* A call that has read its backup read the first text, or the file had a backup; and
\* one about to write a file there was has its backup, unless an Undo took it.
EditsInv ==
  /\ Stack(backups) /\ \A c \in editCalls : Fields \subseteq DOMAIN c
  /\ undoing => backups # <<>>
  /\ DOMAIN First \subseteq DOMAIN files
  /\ \A i \in 1..Len(backups) : backups[i].path \in DOMAIN files
  /\ \A c \in editCalls : c.at \in {"push", "fill"} => PathOf(c) \in DOMAIN files
  /\ ~raced => /\ \A p \in DOMAIN First : Returns(p)
               /\ \A c \in editCalls :
                    /\ c.at = "push" /\ PathOf(c) \in DOMAIN First
                         => Backed(PathOf(c)) \/ c.kept = First[PathOf(c)]
                    /\ c.at \in {"write", "fill"} /\ PathOf(c) \in DOMAIN First
                         => Backed(PathOf(c))

LEMMA EditsInitially == EditsInit => EditsInv
<1> SUFFICES ASSUME EditsInit PROVE EditsInv
  OBVIOUS
<1>1. Stack(backups) /\ Len(backups) = 0
  BY EmptySeq DEF EditsInit, Stack
<1>2. QED BY <1>1 DEF EditsInit, EditsInv, Returns, Backed

\* Steps that change neither a file nor a backup, and begin no backup and no write.
LEMMA CallsOnly ==
  ASSUME EditsInv, files' = files, backups' = backups, raced' = raced, undoing' = undoing,
         \A d \in editCalls' : d \in editCalls \/ (Fields \subseteq DOMAIN d /\ Quiet(d))
  PROVE  EditsInv'
<1>1. \A p : (Returns(p) <=> Returns(p)') /\ (Backed(p) <=> Backed(p)')
  BY DEF Returns, Backed, Oldest
<1>2. QED BY <1>1 DEF EditsInv, PathOf, Quiet

LEMMA AskInv ==
  ASSUME EditsInv, NEW tool, NEW jobs, Ask(tool, jobs)
  PROVE  EditsInv'
<1> DEFINE d == [id |-> editsAsked', tool |-> tool, jobs |-> jobs, at |-> "read", k |-> 1,
                 orig |-> <<>>, kept |-> <<>>, diffs |-> <<>>]
<1>1. editCalls' = editCalls \cup {d}
  BY DEF Ask
<1>2. Fields \subseteq DOMAIN d /\ Quiet(d)
  BY DEF Fields, Quiet
<1> HIDE DEF d
<1>3. files' = files /\ backups' = backups /\ raced' = raced /\ undoing' = undoing
  BY DEF Ask
<1>4. QED BY <1>1, <1>2, <1>3, CallsOnly

LEMMA ReadInv ==
  ASSUME EditsInv, NEW c \in editCalls, ReadFiles(c) \/ EditFails(c)
  PROVE  EditsInv'
<1>1. files' = files /\ backups' = backups /\ raced' = raced /\ undoing' = undoing
  BY DEF ReadFiles, EditFails
<1> DEFINE d == [c EXCEPT !.at = "backup",
                          !.orig = [i \in DOMAIN c.jobs |-> TextOf(c.jobs[i].path)]]
<1>2. editCalls' = editCalls \ {c} \/ editCalls' = (editCalls \ {c}) \cup {d}
  BY DEF ReadFiles, EditFails, Replace
<1>3. Fields \subseteq DOMAIN d /\ Quiet(d)
  <2>1. Fields \subseteq DOMAIN c
    BY DEF EditsInv
  <2>2. QED BY <2>1 DEF Fields, Quiet
<1> HIDE DEF d
<1>4. QED BY <1>1, <1>2, <1>3, CallsOnly

\* A call goes on with the same job: it has its path still.
LEMMA GoesOn ==
  ASSUME NEW c, Fields \subseteq DOMAIN c, NEW at, NEW kept
  PROVE  LET d == [c EXCEPT !.at = at, !.kept = kept]
         IN  Fields \subseteq DOMAIN d /\ PathOf(d) = PathOf(c) /\ d.at = at /\ d.kept = kept
<1> DEFINE d == [c EXCEPT !.at = at, !.kept = kept]
<1>1. d.jobs = c.jobs /\ d.k = c.k /\ Fields \subseteq DOMAIN d /\ d.at = at /\ d.kept = kept
  BY DEF Fields
<1> HIDE DEF d
<1>2. PathOf(d) = PathOf(c)
  BY <1>1 DEF PathOf
<1>3. QED BY <1>1, <1>2 DEF d

LEMMA MovesOn ==
  ASSUME NEW c, Fields \subseteq DOMAIN c, NEW at
  PROVE  LET d == [c EXCEPT !.at = at]
         IN  Fields \subseteq DOMAIN d /\ PathOf(d) = PathOf(c) /\ d.at = at
<1> DEFINE d == [c EXCEPT !.at = at]
<1>1. d.jobs = c.jobs /\ d.k = c.k /\ Fields \subseteq DOMAIN d /\ d.at = at
  BY DEF Fields
<1> HIDE DEF d
<1>2. PathOf(d) = PathOf(c)
  BY <1>1 DEF PathOf
<1>3. QED BY <1>1, <1>2 DEF d

LEMMA BackupReadsInv ==
  ASSUME EditsInv, NEW c \in editCalls, BackupReads(c)
  PROVE  EditsInv'
<1> DEFINE p == PathOf(c)
           d == [c EXCEPT !.at = "push", !.kept = files[p]]
           e == [c EXCEPT !.at = "write"]
<1>1. /\ files' = files /\ backups' = backups /\ raced' = raced /\ undoing' = undoing
      /\ IF p \in DOMAIN files THEN editCalls' = (editCalls \ {c}) \cup {d}
                              ELSE editCalls' = (editCalls \ {c}) \cup {e}
  BY DEF BackupReads, Replace
<1>2. Fields \subseteq DOMAIN c
  BY DEF EditsInv
<1>3. Fields \subseteq DOMAIN d /\ PathOf(d) = p /\ d.at = "push" /\ d.kept = files[p]
  BY <1>2, GoesOn
<1>4. Fields \subseteq DOMAIN e /\ PathOf(e) = p /\ e.at = "write"
  BY <1>2, MovesOn
<1> HIDE DEF d, e, p
<1>5. \A q : (Returns(q) <=> Returns(q)') /\ (Backed(q) <=> Backed(q)')
  BY <1>1 DEF Returns, Backed, Oldest
<1>6. \A b : PathOf(b)' = PathOf(b)
  BY DEF PathOf
<1>7. CASE p \in DOMAIN files
  <2>1. ~raced /\ p \in DOMAIN First => Backed(p) \/ d.kept = First[p]
    BY <1>3 DEF EditsInv, Returns
  <2>2. QED BY <1>1, <1>3, <1>5, <1>6, <1>7, <2>1 DEF EditsInv
<1>8. CASE p \notin DOMAIN files
  <2>1. p \notin DOMAIN First
    BY <1>8 DEF EditsInv
  <2>2. QED BY <1>1, <1>4, <1>5, <1>6, <1>8, <2>1 DEF EditsInv
<1>9. QED BY <1>7, <1>8

LEMMA BackupPushesInv ==
  ASSUME EditsInv, NEW c \in editCalls, BackupPushes(c)
  PROVE  EditsInv'
<1> DEFINE p == PathOf(c)  n == Len(backups)
           e == [path |-> p, text |-> c.kept]
           d == [c EXCEPT !.at = "write", !.kept = <<>>]
<1>1. /\ files' = files /\ raced' = raced /\ editCalls' = (editCalls \ {c}) \cup {d}
      /\ undoing' = undoing /\ ~undoing /\ c.at = "push" /\ backups' = Append(backups, e)
  BY DEF BackupPushes, Replace
<1>2. Fields \subseteq DOMAIN d /\ PathOf(d) = p /\ d.at = "write"
  <2>1. Fields \subseteq DOMAIN c
    BY DEF EditsInv
  <2>2. QED BY <2>1, GoesOn
<1>3. Stack(backups) /\ n \in Nat /\ DOMAIN First \subseteq DOMAIN files /\ p \in DOMAIN files
  BY <1>1, StackIs DEF EditsInv
<1>4. e.path = p /\ e.text = c.kept
  OBVIOUS
<1> HIDE DEF d, e
<1>5. /\ Stack(backups') /\ Len(backups') = n + 1 /\ backups'[n + 1] = e
      /\ \A i \in 1..n : backups'[i] = backups[i]
  BY <1>1, <1>3, StackGrows
<1>6. /\ \A i \in 1..n + 1 : i \in 1..n \/ i = n + 1
      /\ n + 1 \in 1..n + 1
      /\ \A i \in 1..n : i \in 1..n + 1 /\ i < n + 1
  BY <1>3
<1>7. \A q : Backed(q)' <=> Backed(q) \/ q = p
  BY <1>4, <1>5, <1>6 DEF Backed
<1>8. ASSUME ~raced, NEW q \in DOMAIN First PROVE Returns(q)'
  <2>1. Returns(q) /\ (q = p => Backed(p) \/ c.kept = First[p])
    BY <1>1, <1>8 DEF EditsInv
  <2>2. ~Backed(q)' => files'[q] = First[q]
    BY <1>1, <1>7, <2>1 DEF Returns
  <2>3. ASSUME NEW i \in 1..n + 1, Oldest(q, i)' PROVE backups'[i].text = First[q]
    <3>1. CASE i \in 1..n
      <4>1. Oldest(q, i)
        BY <1>5, <1>6, <2>3, <3>1 DEF Oldest
      <4>2. QED BY <1>5, <2>1, <3>1, <4>1 DEF Returns
    <3>2. CASE i = n + 1
      <4>1. q = p /\ ~Backed(q)
        BY <1>4, <1>5, <1>6, <2>3, <3>2 DEF Oldest, Backed
      <4>2. QED BY <1>4, <1>5, <2>1, <3>2, <4>1
    <3>3. QED BY <1>6, <3>1, <3>2
  <2>4. QED BY <1>5, <2>2, <2>3 DEF Returns
<1>9. \A i \in 1..Len(backups') : backups'[i].path \in DOMAIN files'
  BY <1>1, <1>3, <1>4, <1>5, <1>6 DEF EditsInv
<1>10. \A b : PathOf(b)' = PathOf(b)
  BY DEF PathOf
<1>11. QED
  <2>1. \A b \in editCalls' : b = d \/ b \in editCalls
    BY <1>1
  <2>2. QED BY <1>1, <1>2, <1>3, <1>5, <1>7, <1>8, <1>9, <1>10, <2>1 DEF EditsInv

\* A call writes a file it has a backup of: only the file of that path changes.
LEMMA WritesBacked ==
  ASSUME EditsInv, NEW c \in editCalls, c.at \in {"write", "fill"},
         backups' = backups, raced' = raced, undoing' = undoing,
         DOMAIN files' = DOMAIN files \cup {PathOf(c)},
         \A q \in DOMAIN files : q # PathOf(c) => files'[q] = files[q],
         \A d \in editCalls' :
            \/ d \in editCalls
            \/ Fields \subseteq DOMAIN d /\ Quiet(d)
            \/ Fields \subseteq DOMAIN d /\ PathOf(d) = PathOf(c) /\ d.at = "fill"
  PROVE  EditsInv'
<1> DEFINE p == PathOf(c)
<1>1. \A q : Backed(q)' <=> Backed(q)
  BY DEF Backed
<1>2. ASSUME ~raced PROVE p \in DOMAIN First => Backed(p)
  BY <1>2 DEF EditsInv
<1>3. ASSUME ~raced, NEW q \in DOMAIN First PROVE Returns(q)'
  <2>1. Returns(q) /\ q \in DOMAIN files
    BY <1>3 DEF EditsInv
  <2>2. ~Backed(q)' => files'[q] = First[q]
    BY <1>1, <1>2, <1>3, <2>1 DEF Returns
  <2>3. QED BY <2>1, <2>2 DEF Returns, Oldest
<1>4. \A b : PathOf(b)' = PathOf(b)
  BY DEF PathOf
<1>5. \A d \in editCalls' : d.at \in {"push", "fill"} => PathOf(d) \in DOMAIN files'
  BY DEF EditsInv, Quiet
<1>6. \A d \in editCalls' : Fields \subseteq DOMAIN d
  BY DEF EditsInv
<1>7. ASSUME ~raced, NEW d \in editCalls', PathOf(d) \in DOMAIN First
      PROVE  /\ d.at = "push" => Backed(PathOf(d)) \/ d.kept = First[PathOf(d)]
             /\ d.at \in {"write", "fill"} => Backed(PathOf(d))
  BY <1>2, <1>7 DEF EditsInv, Quiet
<1>8. QED BY <1>1, <1>3, <1>4, <1>5, <1>6, <1>7 DEF EditsInv

LEMMA TruncateInv ==
  ASSUME EditsInv, NEW c \in editCalls, Truncate(c)
  PROVE  EditsInv'
<1> DEFINE p == PathOf(c)  d == [c EXCEPT !.at = "fill"]
<1>1. /\ files' = [q \in DOMAIN files \cup {p} |-> IF q = p THEN <<>> ELSE files[q]]
      /\ backups' = backups /\ raced' = raced /\ undoing' = undoing
      /\ c.at = "write" /\ editCalls' = (editCalls \ {c}) \cup {d}
  BY DEF Truncate, Replace
<1>2. Fields \subseteq DOMAIN d /\ PathOf(d) = p /\ d.at = "fill"
  BY MovesOn DEF EditsInv
<1> HIDE DEF d
<1>3. /\ DOMAIN files' = DOMAIN files \cup {p}
      /\ \A q \in DOMAIN files : q # p => files'[q] = files[q]
  BY <1>1
<1>4. QED BY <1>1, <1>2, <1>3, WritesBacked

LEMMA WriteInv ==
  ASSUME EditsInv, NEW c \in editCalls, WriteFile(c)
  PROVE  EditsInv'
<1> DEFINE p == PathOf(c)
<1>1. PICK t : files' = [files EXCEPT ![p] = t]
  BY DEF WriteFile
<1>2. backups' = backups /\ raced' = raced /\ undoing' = undoing /\ c.at = "fill"
  BY DEF WriteFile
<1>3. \A d \in editCalls' : d \in editCalls \/ (Fields \subseteq DOMAIN d /\ Quiet(d))
  <2>1. Fields \subseteq DOMAIN c
    BY DEF EditsInv
  <2>2. PICK diffs : \/ editCalls' = editCalls \ {c}
                     \/ editCalls' = (editCalls \ {c}) \cup
                          {[c EXCEPT !.at = "backup", !.k = @ + 1, !.diffs = diffs]}
    BY DEF WriteFile, Replace
  <2> DEFINE d == [c EXCEPT !.at = "backup", !.k = @ + 1, !.diffs = diffs]
  <2>3. Fields \subseteq DOMAIN d /\ Quiet(d)
    BY <2>1 DEF Fields, Quiet
  <2>4. editCalls' = editCalls \ {c} \/ editCalls' = (editCalls \ {c}) \cup {d}
    BY <2>2
  <2> HIDE DEF d
  <2>5. QED BY <2>3, <2>4
<1>4. p \in DOMAIN files
  BY <1>2 DEF EditsInv
<1>5. /\ DOMAIN files' = DOMAIN files \cup {p}
      /\ \A q \in DOMAIN files : q # p => files'[q] = files[q]
  BY <1>1, <1>4
<1>6. QED BY <1>2, <1>3, <1>5, WritesBacked

\* An Undo that has the lock empties the file of the last backup, which stays.
LEMMA UndoTruncatesInv ==
  ASSUME EditsInv, UndoTruncates \/ UndoFails
  PROVE  EditsInv'
<1> DEFINE n == Len(backups)  b == backups[n]
<1>1. /\ backups' = backups /\ editCalls' = editCalls /\ (undoing' => backups # <<>>)
      /\ ~raced' => ~raced
      /\ backups # <<>>
  BY DEF UndoTruncates, UndoFails, Crosses, EditsInv
<1>2. n \in Nat \ {0} /\ Last(backups) = b
  BY <1>1, StackPops DEF EditsInv
<1>3. n \in 1..n
  BY <1>2
<1>4. b.path \in DOMAIN files
  BY <1>3 DEF EditsInv
<1>5. files' = files \/ files' = [files EXCEPT ![b.path] = <<>>]
  BY <1>2 DEF UndoTruncates, UndoFails
<1> HIDE DEF b
<1>6. /\ DOMAIN files' = DOMAIN files
      /\ \A q \in DOMAIN files : q # b.path => files'[q] = files[q]
  BY <1>4, <1>5
<1>7. Backed(b.path)
  BY <1>3 DEF Backed, b
<1>8. \A q : Backed(q)' <=> Backed(q)
  BY <1>1 DEF Backed
<1>9. ASSUME ~raced, NEW q \in DOMAIN First PROVE Returns(q)'
  <2>1. Returns(q) /\ q \in DOMAIN files
    BY <1>9 DEF EditsInv
  <2>2. ~Backed(q)' => files'[q] = First[q]
    BY <1>6, <1>7, <1>8, <2>1 DEF Returns
  <2>3. QED BY <1>1, <2>1, <2>2 DEF Returns, Oldest
<1>10. \A d : PathOf(d)' = PathOf(d)
  BY DEF PathOf
<1>11. QED BY <1>1, <1>6, <1>8, <1>9, <1>10 DEF EditsInv

LEMMA UndoInv ==
  ASSUME EditsInv, Undo
  PROVE  EditsInv'
<1> DEFINE n == Len(backups)  b == backups[n]
<1>1. /\ Stack(backups') /\ n \in Nat \ {0} /\ Last(backups) = b
      /\ Len(backups') = n - 1 /\ \A i \in 1..n - 1 : backups'[i] = backups[i]
  BY StackPops DEF EditsInv, Undo
<1>2. /\ files' = [files EXCEPT ![b.path] = b.text] /\ editCalls' = editCalls /\ ~undoing'
      /\ ~raced' => ~raced /\ \A c \in editCalls : Quiet(c)
  BY <1>1 DEF Undo, Crosses, Quiet
<1>3. /\ n \in 1..n /\ \A i \in 1..n - 1 : i \in 1..n /\ i < n
      /\ \A i \in 1..n : i \in 1..n - 1 \/ i = n
  BY <1>1
<1>4. b.path \in DOMAIN files
  BY <1>3 DEF EditsInv
<1> HIDE DEF b
<1>5. /\ DOMAIN files' = DOMAIN files /\ files'[b.path] = b.text
      /\ \A q \in DOMAIN files : q # b.path => files'[q] = files[q]
  BY <1>2, <1>4
<1>6. ASSUME NEW q \in DOMAIN First, Returns(q) PROVE Returns(q)'
  <2>1. q \in DOMAIN files
    BY DEF EditsInv
  <2>2. ASSUME ~Backed(q)' PROVE files'[q] = First[q]
    <3>1. \A i \in 1..n - 1 : backups[i].path # q
      BY <1>1, <2>2 DEF Backed
    <3>2. CASE b.path = q
      <4>1. Oldest(q, n)
        BY <1>3, <3>1, <3>2 DEF Oldest, b
      <4>2. b.text = First[q]
        BY <1>3, <1>6, <4>1 DEF Returns, b
      <4>3. QED BY <1>5, <3>2, <4>2
    <3>3. CASE b.path # q
      <4>1. ~Backed(q)
        BY <1>3, <3>1, <3>3 DEF Backed, b
      <4>2. QED BY <1>5, <1>6, <2>1, <3>3, <4>1 DEF Returns
    <3>4. QED BY <3>2, <3>3
  <2>3. ASSUME NEW i \in 1..n - 1, Oldest(q, i)' PROVE backups'[i].text = First[q]
    <3>1. \A j \in 1..n : j < i => j \in 1..n - 1
      BY <1>1
    <3>2. Oldest(q, i)
      BY <1>1, <2>3, <3>1 DEF Oldest
    <3>3. QED BY <1>1, <1>3, <1>6, <3>2 DEF Returns
  <2>4. QED BY <1>1, <2>2, <2>3 DEF Returns
<1>7. \A i \in 1..Len(backups') : backups'[i].path \in DOMAIN files'
  BY <1>1, <1>3, <1>5 DEF EditsInv
<1>8. \A d : PathOf(d)' = PathOf(d)
  BY DEF PathOf
<1>9. QED BY <1>1, <1>2, <1>5, <1>6, <1>7, <1>8 DEF EditsInv, Quiet

LEMMA EditsInvariant == EditsSpec => []EditsInv
<1>1. EditsInv /\ [EditsNext]_editVars => EditsInv'
  <2> SUFFICES ASSUME EditsInv, [EditsNext]_editVars PROVE EditsInv'
    OBVIOUS
  <2>1. ASSUME NEW p, NEW t, AskWrite(p, t) \/ AskEdit(p, t) PROVE EditsInv'
    BY <2>1, AskInv DEF AskWrite, AskEdit
  <2>2. ASSUME NEW pf, AskPatch(pf) PROVE EditsInv'
    BY <2>2, AskInv DEF AskPatch
  <2>3. ASSUME NEW c \in editCalls,
               \/ ReadFiles(c) \/ BackupReads(c) \/ BackupPushes(c)
               \/ Truncate(c) \/ WriteFile(c) \/ EditFails(c)
        PROVE  EditsInv'
    BY <2>3, ReadInv, BackupReadsInv, BackupPushesInv, TruncateInv, WriteInv
  <2>4. CASE UndoTruncates \/ Undo \/ UndoFails
    BY <2>4, UndoTruncatesInv, UndoInv
  <2>5. CASE UNCHANGED editVars
    BY <2>5, CallsOnly DEF editVars
  <2>6. QED BY <2>1, <2>2, <2>3, <2>4, <2>5 DEF EditsNext
<1>2. QED BY EditsInitially, <1>1, PTL DEF EditsSpec

\* However calls and Undo fail, and in whatever order any number of them at once read,
\* push, empty and write, undoing everything brings each file back to its first text,
\* unless an Undo ran while a call had read its backup and not written its text
\* (backup.go BackupFile and UndoLastBackup, write.go, apply_patch.go).
THEOREM UndoBringsBack == EditsSpec => []UndoReturnsAll
<1>1. EditsInv => UndoReturnsAll
  <2> SUFFICES ASSUME EditsInv, ~raced, NEW p \in DOMAIN First
               PROVE  LET of == {i \in DOMAIN backups : backups[i].path = p}
                      IN  First[p] = IF of = {} THEN files[p] ELSE backups[Min(of)].text
    BY DEF UndoReturnsAll
  <2> DEFINE of == {i \in DOMAIN backups : backups[i].path = p}
  <2>1. Returns(p) /\ Len(backups) \in Nat /\ DOMAIN backups = 1..Len(backups)
    BY StackIs DEF EditsInv
  <2>2. CASE of = {}
    BY <2>1, <2>2 DEF Returns, Backed
  <2>3. CASE of # {}
    <3>1. Min(of) \in of /\ \A k \in of : Min(of) <= k
      <4>1. of \subseteq 1..Len(backups)
        BY <2>1
      <4> HIDE DEF of
      <4>2. QED BY <2>1, <2>3, <4>1, SmallestPlace
    <3> DEFINE i == Min(of)
    <3> HIDE DEF i
    <3>2. i \in 1..Len(backups) /\ backups[i].path = p
      BY <2>1, <3>1 DEF i
    <3>3. \A j \in 1..Len(backups) : j < i => backups[j].path # p
      <4> SUFFICES ASSUME NEW j \in 1..Len(backups), j < i, backups[j].path = p PROVE FALSE
        OBVIOUS
      <4>1. j \in of
        BY <2>1
      <4>2. i <= j
        BY <3>1, <4>1 DEF i
      <4>3. i \in Int /\ j \in Int
        BY <3>2, <2>1
      <4> HIDE DEF of
      <4>4. QED BY <4>2, <4>3
    <3>4. backups[i].text = First[p]
      BY <2>1, <3>2, <3>3 DEF Returns, Oldest
    <3>5. QED BY <2>3, <3>4 DEF i
  <2>4. QED BY <2>2, <2>3
<1>2. QED BY <1>1, EditsInvariant, PTL
=============================================================================
