----------------------------- MODULE Appearance -----------------------------
(***************************************************************************)
(* The colour theme (theme-provider.tsx).  Each page of the origin keeps   *)
(* the theme it chose, draws it, and writes it to the storage all pages    *)
(* share; the others hear of it by a storage event, some time later.       *)
(***************************************************************************)
EXTENDS Integers, Sequences

CONSTANTS
  Pages,      \* the pages of one origin: the window, a tab on the dev server
  MaxPresses, \* bound: presses of "d"
  MaxChanges  \* bound: other changes of the storage

ASSUME ThemeConstants == MaxPresses \in Nat /\ MaxChanges \in Nat

VARIABLES
  storedTheme, \* localStorage "theme", NoTheme when there is none
  systemDark,  \* the system prefers dark colours
  theme,       \* page -> its theme
  drawn,       \* page -> the class of its root element
  listening,   \* pages whose effect listens to the system's scheme
  news,        \* page -> storage events it has not handled
  presses, changes,  \* so far
  apart        \* pages that wrote with news of the theme still to come, or
               \* whose theme was cleared from the storage (history)

themeVars == <<storedTheme, systemDark, theme, drawn, listening, news, presses,
               changes, apart>>

\* The keys of storage events: the theme's, the model's or workspace's, and null.
storageKey == "theme"
OtherKey == "other"
NullKey == "null"
\* Some of these events are of the theme.
Heard(s) == \E i \in DOMAIN s : s[i].key = storageKey

NoTheme == "none"
isTheme(v) == v \in {"dark", "light", "system"}
OrDefault(v) == IF isTheme(v) THEN v ELSE "system"

Opposite(c) == IF c = "dark" THEN "light" ELSE "dark"
getSystemTheme == IF systemDark THEN "dark" ELSE "light"
Resolved(t) == IF t = "system" THEN getSystemTheme ELSE t

AppearanceInit ==
  /\ storedTheme = NoTheme /\ systemDark \in BOOLEAN
  /\ theme = [p \in Pages |-> "system"]
  /\ drawn = [p \in Pages |-> getSystemTheme] /\ listening = Pages
  /\ news = [p \in Pages |-> <<>>] /\ presses = 0 /\ changes = 0 /\ apart = {}

\* The new state is rendered and its effect run before the next event.
SetTheme(p, t) ==
  /\ theme' = [theme EXCEPT ![p] = t]
  /\ IF t = theme[p] THEN UNCHANGED <<drawn, listening>>
     ELSE /\ drawn' = [drawn EXCEPT ![p] = Resolved(t)]
          /\ listening' = IF t = "system" THEN listening \cup {p} ELSE listening \ {p}

\* A storage event goes to the other pages, of a write only if the value changed.
SendEvent(others, e) ==
  news' = [q \in Pages |-> IF q \in others THEN Append(news[q], e) ELSE news[q]]
Tell(others, v) ==
  IF v = storedTheme THEN UNCHANGED news
  ELSE SendEvent(others, [key |-> storageKey, newValue |-> v])

KeyEvents == [repeat : BOOLEAN, modified : BOOLEAN, key : {"d", "e"},
              target : {"page", "input", "editable"}]

isEditableTarget(target) == target \in {"input", "editable"}

\* handleKeyDown: "d" changes to the other colour, also of the system's.
KeyDown(p, e) ==
  /\ presses < MaxPresses /\ presses' = presses + 1
  /\ ~e.repeat /\ ~e.modified /\ ~isEditableTarget(e.target) /\ e.key = "d"
  /\ LET next == Opposite(Resolved(theme[p]))
     IN  /\ SetTheme(p, next) /\ storedTheme' = next /\ Tell(Pages \ {p}, next)
         /\ apart' = (IF next = storedTheme THEN apart ELSE IF Heard(news[p]) THEN {p} ELSE {})
                       \ (IF Heard(news[p]) THEN {} ELSE {p})
  /\ UNCHANGED <<systemDark, changes>>

HandleStorageChange_AnyKey(p) ==
  /\ news[p] # <<>> /\ news' = [news EXCEPT ![p] = Tail(@)]
  /\ SetTheme(p, OrDefault(Head(news[p]).newValue))
  /\ UNCHANGED <<storedTheme, systemDark, presses, changes, apart>>
HandleStorageChange(p) ==
  /\ news[p] # <<>> /\ news' = [news EXCEPT ![p] = Tail(@)]
  /\ IF Head(news[p]).key # storageKey THEN UNCHANGED <<theme, drawn, listening>>
     ELSE SetTheme(p, OrDefault(Head(news[p]).newValue))
  /\ UNCHANGED <<storedTheme, systemDark, presses, changes, apart>>

OutsideChange == changes < MaxChanges /\ changes' = changes + 1
           /\ UNCHANGED <<systemDark, theme, drawn, listening, presses>>

\* A page stores its model or workspace.
StoreOther(p) ==
  /\ OutsideChange /\ SendEvent(Pages \ {p}, [key |-> OtherKey, newValue |-> NoTheme])
  /\ UNCHANGED <<storedTheme, apart>>

\* The item is removed from outside the pages.
RemoveItem ==
  /\ OutsideChange /\ storedTheme # NoTheme
  /\ storedTheme' = NoTheme /\ Tell(Pages, NoTheme) /\ apart' = {}

\* The storage is cleared: one event, of no key.
ClearStorage ==
  /\ OutsideChange /\ storedTheme' = NoTheme
  /\ SendEvent(Pages, [key |-> NullKey, newValue |-> NoTheme])
  /\ apart' = IF storedTheme = NoTheme THEN apart ELSE Pages

\* handleChange of the pages that listen.
SchemeChanges ==
  /\ systemDark' = ~systemDark
  /\ drawn' = [p \in Pages |-> IF p \in listening THEN getSystemTheme' ELSE drawn[p]]
  /\ UNCHANGED <<storedTheme, theme, listening, news, presses, changes, apart>>

\* A reload: the stored theme, and no event of before.
ReloadPage(p) ==
  /\ theme' = [theme EXCEPT ![p] = OrDefault(storedTheme)]
  /\ drawn' = [drawn EXCEPT ![p] = Resolved(OrDefault(storedTheme))]
  /\ listening' = IF OrDefault(storedTheme) = "system" THEN listening \cup {p}
                  ELSE listening \ {p}
  /\ news' = [news EXCEPT ![p] = <<>>] /\ apart' = apart \ {p}
  /\ UNCHANGED <<storedTheme, systemDark, presses, changes>>

AppearanceNext ==
  \/ \E p \in Pages : \/ \E e \in KeyEvents : KeyDown(p, e)
                      \/ HandleStorageChange(p) \/ ReloadPage(p) \/ StoreOther(p)
  \/ RemoveItem \/ ClearStorage \/ SchemeChanges

AppearanceSpec == AppearanceInit /\ [][AppearanceNext]_themeVars

\* However presses, scheme changes, reloads and changes of the storage follow each
\* other, a page that has handled the storage events of the theme (theme-provider.tsx:182)
\* is drawn in the colour of the stored theme, unless it is apart: it wrote while an
\* older value was on its way, which then arrives last and stays, or the storage was
\* cleared, whose event has no key and is ignored (:188).
PagesAgree ==
  \A p \in Pages \ apart :
    ~Heard(news[p]) => drawn[p] = Resolved(OrDefault(storedTheme))
=============================================================================
