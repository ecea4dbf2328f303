--------------------------- MODULE ProviderDialog ---------------------------
(***************************************************************************)
(* The provider dialog (providers-settings.tsx) over the stored providers  *)
(* (llm/config.go).  Every call of the back end is asked, runs there, and  *)
(* is answered.  A key stands for all a row lets the person edit, 0 when   *)
(* it is empty; loadData fills all but the base URL, which it takes from   *)
(* the preset, so that a saved one is lost at the next save.               *)
(***************************************************************************)
EXTENDS Integers, Sequences, FiniteSets, SequencesExt

CONSTANTS
  Presets,  \* names of the presets
  Customs,  \* names the person may give a custom provider
  Keys,     \* API keys, 0 among them
  MaxOps,   \* bound: what the person does in the dialog
  MaxCalls  \* bound: functions under way at a time

ASSUME ProviderConstants ==
  /\ IsFiniteSet(Presets) /\ 0 \in Keys /\ Keys \subseteq Nat
  /\ MaxOps \in Nat /\ MaxCalls \in Nat

VARIABLES
  store, file,  \* userProviders and what providers.json loads as
  rows,         \* the dialog's state of each preset; empty before it is loaded
  nextId,       \* generateId
  calls,        \* the async functions under way
  saving,       \* Save All runs
  ops,          \* what the person did
  edited,       \* presets whose row was edited since it was saved or loaded (history)
  doubtful      \* presets whose row and store may differ (history)

providerVars == <<store, file, rows, nextId, calls, saving, ops, edited, doubtful>>

Config(row) == [id |-> row.id, name |-> row.name, key |-> row.key]
StoredAs(name) == {i \in DOMAIN store : store[i].name = name}
Order == SetToSeq(Presets)
PlaceOf(p) == CHOOSE i \in 0..(Len(Order) - 1) : Order[i + 1] = p
Loaded == rows # << >>
\* Presets a call touches: all of them for one that loads.
Touches(c) == IF c.kind = "load" THEN Presets ELSE {c.row.name} \cup {r.name : r \in c.rest}
Crossed(names) == UNION {Touches(calls[i]) \cap names : i \in DOMAIN calls}

Call(kind, row, rest) ==
  [kind |-> kind, at |-> "asked", row |-> row, rest |-> rest, got |-> << >>]
NoRow == [id |-> 0, name |-> "", key |-> 0, configured |-> FALSE]
LoadCall == Call("load", NoRow, {})
\* Save All takes the rows in their order.
ComesFirst(row, some) == \A other \in some : PlaceOf(row.name) <= PlaceOf(other.name)

ProvidersInit ==
  /\ store = << >> /\ file = << >> /\ rows = << >> /\ nextId = 1 /\ calls = <<LoadCall>>
  /\ saving = FALSE /\ ops = 0 /\ edited = {} /\ doubtful = {}

-----------------------------------------------------------------------------
(* The back end: config.go.                                                 *)

Holds(id) == \E i \in DOMAIN store : store[i].id = id
FirstOf(id) == CHOOSE i \in DOMAIN store : store[i].id = id /\ \A j \in 1..i - 1 : store[j].id # id
Replaced(c) == IF Holds(c.id) THEN [store EXCEPT ![FirstOf(c.id)] = c] ELSE store
Added(c) == IF Holds(c.id) THEN Replaced(c) ELSE Append(store, c)
Without(id) == RemoveAt(store, FirstOf(id))

\* A change of the list, which the write to the file may not follow: it fails before
\* the file is opened, or leaves a torn one that loads as nothing.
Written(i, list) ==
  /\ store' = list
  /\ \/ file' = list /\ calls' = [calls EXCEPT ![i].at = "done"]
     \/ file' \in {file, << >>} /\ calls' = [calls EXCEPT ![i].at = "failed"]

Runs(i) ==
  LET c == calls[i]
  IN /\ c.at = "asked"
     /\ CASE c.kind = "load" ->
               /\ calls' = [calls EXCEPT ![i].at = "done", ![i].got = store]
               /\ UNCHANGED <<store, file>>
          [] c.kind = "remove" /\ Holds(c.row.id) -> Written(i, Without(c.row.id))
          [] c.kind = "remove" /\ ~Holds(c.row.id) ->
               calls' = [calls EXCEPT ![i].at = "done"] /\ UNCHANGED <<store, file>>
          [] c.kind = "custom" -> Written(i, Added(Config(c.row)))
          [] OTHER -> Written(i, IF c.row.configured THEN Replaced(Config(c.row))
                                 ELSE Added(Config(c.row)))
     /\ UNCHANGED <<rows, nextId, saving, ops, edited, doubtful>>

-----------------------------------------------------------------------------
(* The dialog.                                                              *)

\* A row for each preset: of the last stored provider with its name, or a new one.
RowsOf(list) ==
  [p \in Presets |->
     LET same == {i \in DOMAIN list : list[i].name = p}
     IN IF same = {}
        THEN [NoRow EXCEPT !.id = nextId + PlaceOf(p), !.name = p]
        ELSE [id |-> list[Max(same)].id, name |-> p, key |-> list[Max(same)].key,
              configured |-> TRUE]]

\* The list may be read before, and answered after, what another call did.
LoadAnswered(i) ==
  /\ calls[i].kind = "load" /\ calls[i].at = "done"
  /\ rows' = RowsOf(calls[i].got) /\ nextId' = nextId + Len(Order) /\ edited' = {}
  /\ calls' = RemoveAt(calls, i)
  /\ doubtful' = {p \in Presets :
                    \/ calls[i].got # store \/ p \in UNION {Touches(calls[j]) : j \in DOMAIN calls \ {i}}
                    \/ Cardinality(StoredAs(p)) > 1}
  /\ UNCHANGED <<store, file, saving, ops>>

\* setProviders of saveProvider and removeProvider: the row with the id.
SetRow(id, row) ==
  rows' = [p \in Presets |-> IF rows[p].id = id
                             THEN [rows[p] EXCEPT !.configured = row.configured,
                                                  !.key = IF row.configured THEN @ ELSE 0]
                             ELSE rows[p]]

\* An error is logged: the row stays as it was; Save All goes on to its next row.
SaveAnswered(i) ==
  LET c == calls[i]
  IN /\ c.kind \in {"save", "saveAll"} /\ c.at \in {"done", "failed"}
     /\ IF c.at = "done" THEN SetRow(c.row.id, [c.row EXCEPT !.configured = TRUE])
        ELSE UNCHANGED rows
     /\ \/ c.rest = {} /\ calls' = RemoveAt(calls, i)
        \/ \E r \in c.rest : /\ ComesFirst(r, c.rest)
                             /\ calls' = [calls EXCEPT ![i] = Call("saveAll", r, c.rest \ {r})]
     /\ saving' = (saving /\ ~(c.kind = "saveAll" /\ c.rest = {}))
     /\ doubtful' = IF c.at = "failed" THEN doubtful \cup {c.row.name} ELSE doubtful
     /\ UNCHANGED <<store, file, nextId, ops, edited>>

RemoveAnswered_KeepsRow(i) ==
  /\ calls[i].kind = "remove" /\ calls[i].at \in {"done", "failed"}
  /\ calls' = RemoveAt(calls, i)
  /\ UNCHANGED <<store, file, rows, nextId, saving, ops, edited, doubtful>>
RemoveAnswered(i) ==
  LET c == calls[i]
  IN /\ c.kind = "remove" /\ c.at \in {"done", "failed"}
     /\ IF c.at = "done" THEN SetRow(c.row.id, [c.row EXCEPT !.configured = FALSE])
        ELSE UNCHANGED rows
     /\ calls' = RemoveAt(calls, i)
     /\ doubtful' = IF c.at = "failed" THEN doubtful \cup {c.row.name} ELSE doubtful
     /\ UNCHANGED <<store, file, nextId, saving, ops, edited>>

\* The form is cleared and the list loaded; after an error neither.
CustomAnswered(i) ==
  LET c == calls[i]
  IN /\ c.kind = "custom" /\ c.at \in {"done", "failed"}
     /\ calls' = IF c.at = "done" THEN [calls EXCEPT ![i] = LoadCall] ELSE RemoveAt(calls, i)
     /\ doubtful' = doubtful \cup ({c.row.name} \cap Presets)
     /\ UNCHANGED <<store, file, rows, nextId, saving, ops, edited>>

-----------------------------------------------------------------------------
(* The person in the dialog.                                                *)

\* A call that starts while another one touches the same row.
Start(c) ==
  /\ ops < MaxOps /\ ops' = ops + 1 /\ Len(calls) < MaxCalls
  /\ calls' = Append(calls, c)
  /\ doubtful' = doubtful \cup Crossed(Touches(c))

Edit(p) ==
  /\ Loaded /\ ops < MaxOps /\ ops' = ops + 1
  /\ \E k \in Keys \ {rows[p].key} : rows' = [rows EXCEPT ![p].key = k]
  /\ edited' = edited \cup {p}
  /\ UNCHANGED <<store, file, nextId, calls, saving, doubtful>>

SaveRow(p) ==
  /\ Loaded /\ Start(Call("save", rows[p], {})) /\ edited' = edited \ {p}
  /\ UNCHANGED <<store, file, rows, nextId, saving>>

RemoveRow(p) ==
  /\ Loaded /\ rows[p].configured /\ Start(Call("remove", rows[p], {}))
  /\ UNCHANGED <<store, file, rows, nextId, saving, edited>>

\* The rows as they are now, one after the other.
SaveAll ==
  /\ Loaded /\ ~saving
  /\ LET todo == {r \in {rows[p] : p \in Presets} : r.key # 0 \/ r.configured}
     IN /\ \E r \in todo : ComesFirst(r, todo) /\ Start(Call("saveAll", r, todo \ {r}))
        /\ edited' = edited \ {r.name : r \in todo}
  /\ saving' = TRUE
  /\ UNCHANGED <<store, file, rows, nextId>>

AddCustom(name) ==
  /\ Start(Call("custom", [NoRow EXCEPT !.id = nextId, !.name = name], {}))
  /\ nextId' = nextId + 1
  /\ UNCHANGED <<store, file, rows, saving, edited>>

\* Refresh, or opening the dialog again.
Reload ==
  /\ Start(LoadCall)
  /\ UNCHANGED <<store, file, rows, nextId, saving, edited>>

\* The program ends at any time and starts again: LoadUserProviders reads the file.
Restart ==
  /\ ops < MaxOps /\ ops' = ops + 1
  /\ store' = file /\ rows' = << >> /\ calls' = <<LoadCall>> /\ saving' = FALSE
  /\ edited' = {} /\ doubtful' = {}
  /\ UNCHANGED <<file, nextId>>

ProvidersNext ==
  \/ \E i \in DOMAIN calls :
       \/ Runs(i) \/ LoadAnswered(i) \/ SaveAnswered(i) \/ RemoveAnswered(i) \/ CustomAnswered(i)
  \/ \E p \in Presets : Edit(p) \/ SaveRow(p) \/ RemoveRow(p)
  \/ SaveAll \/ Reload \/ Restart
  \/ \E name \in Customs : AddCustom(name)

ProvidersSpec == ProvidersInit /\ [][ProvidersNext]_providerVars

-----------------------------------------------------------------------------
\* When nothing is under way, a row marked "Configured" is stored under its id as
\* it was last saved or loaded, and one not marked is not stored, unless calls
\* crossed, a write failed or a custom provider took the name (saveProvider,
\* removeProvider, loadData).
ConfiguredIsStored ==
  calls = << >> /\ Loaded => \A p \in Presets \ doubtful :
    IF rows[p].configured
    THEN \E i \in StoredAs(p) :
           /\ store[i].id = rows[p].id
           /\ p \notin edited => store[i].key = rows[p].key
    ELSE StoredAs(p) = {}
=============================================================================
