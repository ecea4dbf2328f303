------------------------------ MODULE PromptBox ------------------------------
(***************************************************************************)
(* The prompt of the page (prompt-input-with-actions.tsx on prompt-input,  *)
(* use-file-search.ts, file-mention-popover.tsx): its text, the "@" mention*)
(* at the cursor, the search behind the popover, and the submit, which     *)
(* reads the mentioned files before it sends.  Texts and paths are         *)
(* sequences of characters; places in a text count from 0.                 *)
(***************************************************************************)
EXTENDS Integers, Sequences, FiniteSets, SequencesExt

CONSTANTS
  Word,     \* characters the submit's pattern takes for a path's: [\w./\\-]
  Odd,      \* others a path may have
  Files,    \* paths of files in the workspace
  Folders,  \* paths of folders
  Typed,    \* characters the person types
  MaxKeys,  \* bound: keys pressed
  MaxAsked  \* bound: ListWorkspaceFiles calls in flight

ASSUME BoxConstants ==
  /\ Files \cap Folders = {} /\ {"@", " "} \cap Word = {}
  /\ Files \cup Folders \subseteq Seq(Word \cup Odd) \ {<<>>}
  /\ MaxKeys \in Nat /\ MaxAsked \in Nat

VARIABLES
  input, cursor,  \* the text and the caret
  mention,        \* MentionState
  results, searching, timer, \* useFileSearch; the query its timer waits with
  asked,          \* queries of the ListWorkspaceFiles calls in flight
  submits,        \* handleSubmit calls that read files
  sent,           \* what onSend was given, oldest first
  busy, started,  \* isLoading, and how many messages the page has taken up
  keys,           \* keys pressed
  stale,          \* the text was sent while its mention was open (history)
  doubt           \* the list shown may not be that of the query (history)

textVars == <<input, cursor>>
searchVars == <<results, searching, timer>>
sendVars == <<submits, sent, busy, started>>
boxVars == <<textVars, mention, searchVars, asked, sendVars, keys,
             stale, doubt>>

Paths == Files \cup Folders
NoMention == [active |-> FALSE, query |-> <<>>, startIndex |-> -1, highlightedIndex |-> 0]
NoTimer == <<"none">>
Listing == SetToSeq(Paths)
\* What ListWorkspaceFiles finds.
Found(query) == SelectSeq(Listing, LAMBDA p : query \in SubSeqs(p))

BoxInit ==
  /\ input = <<>> /\ cursor = 0 /\ mention = NoMention
  /\ results = <<>> /\ searching = FALSE /\ timer = NoTimer /\ asked = <<>>
  /\ submits = <<>> /\ sent = <<>> /\ busy = FALSE /\ started = 0 /\ keys = 0
  /\ stale = FALSE /\ doubt = FALSE

-----------------------------------------------------------------------------
(* The mention of a text.                                                   *)

\* The place of the last of these characters, or -1.
LastOf(text, characters) ==
  LET places == {i \in DOMAIN text : text[i] \in characters}
  IN IF places = {} THEN -1 ELSE Max(places) - 1

Slice(text, from, to) == SubSeq(text, from + 1, Min({to, Len(text)}))

Opened(query, at) ==
  [active |-> TRUE, query |-> query, startIndex |-> at, highlightedIndex |-> 0]

\* setMention, and search or reset of useFileSearch.
OpenMention_NoSpinner(query, at) ==
  /\ mention' = Opened(query, at) /\ timer' = query
  /\ stale' = FALSE
  /\ UNCHANGED <<results, searching, doubt>>
OpenMention(query, at) ==
  /\ mention' = Opened(query, at)
  /\ searching' = TRUE /\ timer' = query
  /\ stale' = FALSE /\ UNCHANGED <<results, doubt>>

CloseMention ==
  /\ mention' = NoMention /\ results' = <<>> /\ searching' = FALSE /\ timer' = NoTimer
  /\ stale' = FALSE /\ UNCHANGED doubt

KeepMention == UNCHANGED <<mention, searchVars, stale, doubt>>

\* The text before the caret decides.
Change(text, at) ==
  LET before == Slice(text, 0, at)
      lastAt == LastOf(before, {"@"})
  IN /\ input' = text /\ cursor' = at
     /\ IF lastAt > LastOf(before, {" "})
        THEN OpenMention(Slice(before, lastAt + 1, at), lastAt)
        ELSE IF mention.active THEN CloseMention ELSE KeepMention

-----------------------------------------------------------------------------
(* Keys.                                                                    *)

Key == keys < MaxKeys /\ keys' = keys + 1

Type(c) ==
  /\ Key /\ Change(Slice(input, 0, cursor) \o <<c>> \o Slice(input, cursor, Len(input)),
                   cursor + 1)
  /\ UNCHANGED <<asked, sendVars>>

\* Its keydown may close the mention; the change that follows decides anew.
Backspace ==
  /\ Key /\ cursor > 0
  /\ Change(RemoveAt(input, cursor), cursor - 1)
  /\ UNCHANGED <<asked, sendVars>>

\* No change event: the mention stays.
MoveCaret(to) ==
  /\ Key /\ to # cursor /\ cursor' = to
  /\ UNCHANGED <<input, mention, searchVars, asked, sendVars, stale, doubt>>

Arrow(index) ==
  /\ Key /\ mention.active
  /\ mention' = [mention EXCEPT !.highlightedIndex = index]
  /\ UNCHANGED <<textVars, searchVars, asked, sendVars, stale, doubt>>

ArrowDown == Arrow(Min({mention.highlightedIndex + 1, Len(results) - 1}))
ArrowUp == Arrow(Max({mention.highlightedIndex - 1, 0}))

Escape ==
  /\ Key /\ mention.active /\ CloseMention
  /\ UNCHANGED <<textVars, asked, sendVars>>

\* insertFileToken: "@path " in the place of the mention.
Insert(path) ==
  /\ Key /\ mention.active /\ path \in ToSet(results)
  /\ LET start == mention.startIndex
         token == <<"@">> \o path
     IN /\ input' = Slice(input, 0, start) \o token \o <<" ">>
                      \o Slice(input, start + Len(mention.query) + 1, Len(input))
        /\ cursor' = Min({start + Len(token) + 1, Len(input')})
  /\ CloseMention
  /\ UNCHANGED <<asked, sendVars>>

\* Enter or Tab; on an index outside the list it throws.
Accept(path) ==
  /\ mention.highlightedIndex + 1 \in DOMAIN results
  /\ path = results[mention.highlightedIndex + 1] /\ Insert(path)

-----------------------------------------------------------------------------
(* The search: 150 ms after the last change, and its answer.                *)

Fires ==
  /\ timer # NoTimer /\ Len(asked) < MaxAsked
  /\ asked' = Append(asked, timer) /\ timer' = NoTimer
  /\ UNCHANGED <<textVars, mention, results, searching, sendVars, keys,
                 stale, doubt>>

SearchAnswered(i) ==
  /\ i \in DOMAIN asked /\ asked' = RemoveAt(asked, i) /\ searching' = FALSE
  /\ \/ /\ results' = Found(asked[i])
        /\ doubt' = ~(mention.active /\ timer = NoTimer /\ asked[i] = mention.query)
     \/ results' = <<>> /\ doubt' = TRUE
  /\ UNCHANGED <<textVars, mention, timer, sendVars, keys, stale>>

-----------------------------------------------------------------------------
(* The submit.                                                              *)

CanSend == (\E i \in DOMAIN input : input[i] # " ") /\ ~busy

\* Where the pattern matches, and the run of characters it takes for the path.
Mentions(text) ==
  {i \in DOMAIN text : text[i] = "@" /\ i < Len(text) /\ text[i + 1] \in Word}
Taken(text, i) ==
  LET ends == {j \in i..Len(text) : \A k \in (i + 1)..j : text[k] \in Word}
  IN Slice(text, i, Max(ends))

\* onSend and setInput(""); the mention is left as it is.
Deliver(message) ==
  /\ sent' = Append(sent, message)
  /\ input' = <<>> /\ cursor' = 0 /\ stale' = (stale \/ mention.active)
  /\ UNCHANGED <<busy, started>>

\* Enter outside a mention, or the button.
Submit(key) ==
  /\ Key /\ CanSend /\ (key = "enter" => ~mention.active)
  /\ LET todo == Mentions(input)
         message == [text |-> input, contents |-> {}, failed |-> {}]
     IN IF todo = {} THEN Deliver(message) /\ UNCHANGED submits
        ELSE /\ submits' = Append(submits, [message |-> message, todo |-> todo])
             /\ UNCHANGED <<textVars, sent, busy, started, stale>>
  /\ UNCHANGED <<mention, searchVars, asked, doubt>>

\* A path is read as a folder if the results of the moment list it as one, else as
\* a file.  What cannot be read is skipped, and so is a folder read as a file.
ReadOutcomes(message, path) ==
  IF path \in (ToSet(results) \cap Folders) \cup Files
  THEN {[message EXCEPT !.contents = @ \cup {path}],
        [message EXCEPT !.failed = @ \cup {path}]}
  ELSE {message}

\* The next match; after the last one the message is sent.
ReadNext_StopsAtFailure(k) ==
  /\ k \in DOMAIN submits
  /\ LET s == submits[k]
         next == Min(s.todo)
     IN \E message \in ReadOutcomes(s.message, Taken(s.message.text, next)) :
          IF s.todo = {next} \/ message.contents = s.message.contents
          THEN Deliver(message) /\ submits' = RemoveAt(submits, k)
          ELSE /\ submits' = [submits EXCEPT ![k] = [message |-> message, todo |-> s.todo \ {next}]]
               /\ UNCHANGED <<textVars, sent, busy, started, stale>>
  /\ UNCHANGED <<mention, searchVars, asked, keys, doubt>>
ReadNext(k) ==
  /\ k \in DOMAIN submits
  /\ LET s == submits[k]
         next == Min(s.todo)
     IN \E message \in ReadOutcomes(s.message, Taken(s.message.text, next)) :
          IF s.todo = {next}
          THEN Deliver(message) /\ submits' = RemoveAt(submits, k)
          ELSE /\ submits' = [submits EXCEPT ![k] = [message |-> message, todo |-> s.todo \ {next}]]
               /\ UNCHANGED <<textVars, sent, busy, started, stale>>
  /\ UNCHANGED <<mention, searchVars, asked, keys, doubt>>

\* The page takes a message up, once it has a session for it, and is done with it.
Busy ==
  /\ started < Len(sent) /\ started' = started + 1 /\ busy' = TRUE
  /\ UNCHANGED <<textVars, mention, searchVars, asked, submits, sent, keys,
                 stale, doubt>>

Ready == busy /\ busy' = FALSE
  /\ UNCHANGED <<textVars, mention, searchVars, asked, submits, sent, started, keys,
                 stale, doubt>>

BoxNext ==
  \/ \E c \in Typed : Type(c)
  \/ \E to \in 0..Len(input) : MoveCaret(to)
  \/ Backspace \/ ArrowDown \/ ArrowUp \/ Escape \/ Fires \/ Busy \/ Ready
  \/ \E path \in Paths : Accept(path) \/ Insert(path)
  \/ \E i \in DOMAIN asked : SearchAnswered(i)
  \/ Submit("enter") \/ Submit("button")
  \/ \E k \in DOMAIN submits : ReadNext(k)

BoxSpec == BoxInit /\ [][BoxNext]_boxVars

-----------------------------------------------------------------------------
\* What accepting an entry does is what the person sees: the open mention is where
\* the text has its "@" and its query, so that a path replaces those and nothing
\* else, unless the text was sent under it; and a popover that does not say
\* "Searching..." lists what the query finds, unless the search failed or was
\* answered after a later one began (insertFileToken, useFileSearch).
MentionIsServed ==
  mention.active =>
    /\ ~stale => Slice(input, mention.startIndex,
                       mention.startIndex + 1 + Len(mention.query))
                   = <<"@">> \o mention.query
    /\ ~searching /\ ~doubt => results = Found(mention.query)

\* A message carries every file its text mentions, "@path" as insertFileToken writes
\* it or as typed, but for those that could not be read (handleSubmit, "skip
\* unreadable files"), whatever was typed, searched and sent while they were read;
\* unless the path has a character the pattern does not take (a blank, a bracket, an
\* accent) or the text goes on with one that it does (a full stop).
MentionedAt(text, i, path) ==
  /\ i \in DOMAIN text /\ text[i] = "@"
  /\ i + Len(path) <= Len(text) /\ Slice(text, i, i + Len(path)) = path
MentionsDelivered ==
  \A n \in DOMAIN sent, path \in Files :
    LET text == sent[n].text
        after(i) == i + Len(path) + 1
    IN (\E i \in DOMAIN text :
          /\ MentionedAt(text, i, path) /\ ToSet(path) \subseteq Word
          /\ after(i) <= Len(text) => text[after(i)] \notin Word)
       => path \in sent[n].contents \cup sent[n].failed
=============================================================================
