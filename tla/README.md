# Demios in TLA+

Demios is a desktop AI coding agent: a Go process with a Wails window, an HTTP
server on a local port, a SQLite database, one agent that talks to a language
model and runs tools, and a React page. Paths below are relative to the
repository root (`src/` in the maps of `PROJECT.json`).

## 1. Inventory

| Component | State | Operations | Talks to |
|---|---|---|---|
| Server manager `tools/server_manager.go`, `process_unix.go` | `servers` (id to instance with pid, directory, status, URL), `nextID`, excluded ports, registry file | StartServer, StopServer, RestartServer, StopAll, Get/List/Find, ResolveBrowserTarget, EnablePersistence, persist | spawned processes, the event stream of the turn that started a server, the model (URL resolver) |
| Command-line harness `cmd/demios` | none of its own | start-server, stop-server, list-servers, test-website | one server manager per invocation, the registry file |
| Prompts `core/agent.go` (RequestPermission, RequestHumanInput), `handler/permission.go`, `handler/human_input.go` | maps from id to answer channel, the permission mode | request, respond, time-out, cancel | tool goroutines, the page |
| Agent loop `core/agent.go` | `history`, `historyReasonings`, `currentEvents` | StepStream, Step, RunTask, RestoreHistory, pruning, execToolCalls | the model, tools, the chat handler (event channel) |
| Chat handler `internal/server/handler/chat.go` | per request: context, event channel | HandleChatStream, saveSessionData, extractDisplayMessages | the agent, the database, the client |
| Session database `internal/db` | sessions (history column), messages | create, list, rename, delete, save, load | chat handler, Wails bindings |
| Chat page state `use-chat-state.ts` | messages, tool cards, topology, browser badge, one pending permission, one pending question, loading flag, abort controller | send, stop, respond, read the stream | chat handler, respond handlers, the session list |
| Session list `use-sessions.ts`, `agent-chat.tsx` | sessions, selection, messages of the selected one | select, create, delete, ensure, refresh | Wails bindings, the page's messages |
| Browser agent `core/browser_agent.go`, `tools/browser_session.go` | own history, last actions, a Playwright session | a loop of its own, a browser test with a time limit | the model, prompts, the event stream |
| Edit tools `apply_patch.go`, `diff.go`, `write.go`, `backup.go`, drawn by `diff-viewer.tsx` | files, the stack of backups | Edit (replacements or a patch), Write, Undo, the unified diff and its card | the file system, the page |
| Terminals `tools/terminal.go`, `app.go`, `canvas-terminal.tsx` | PTY sessions with an output buffer and a mutex; tabs, the active one, a screen | open, write, read, resize, close, TerminalExecute; poll, switch | shells, the page |
| Prompt box `prompt-input-with-actions.tsx`, `use-file-search.ts` | text, caret, open mention, results, searches under way | type, search, accept, submit with the mentioned files | Wails bindings, `sendMessage` |
| Provider configuration `llm/config.go`, `providers-settings.tsx` | stored providers and their file; a row per preset | load, save, save all, remove, add | Wails bindings |
| Model choice `use-model.ts`, `model-selector.tsx`, `llm/openrouter.go` | the page's model, the client's model | load, select, the browser agent's choice | Wails bindings |
| Theme `theme-provider.tsx` | stored theme, each page's theme and what it draws | press "d", storage events, the system's scheme | localStorage |
| Workspace `use-workspace.ts`, `workspace-dialog.tsx`, `app.go` | the agent's folder, the page's, the stored one | choose, browse, load | Wails bindings, localStorage |
| Canvas `canvas-panel.tsx`, `canvas-website.tsx` | tabs, the active one, a menu, a frame per website | add, choose, close, navigate, load | |
| Sidebar `ui/sidebar.tsx`, `use-mobile.ts` | window width, the page's view of it, open or not | resize, toggle, dismiss | |
| Model clients `llm/openrouter.go`, `llm/genai.go` | current model, pending tool calls of a stream | ChatStream, readSSE, SetModel | providers, the agent loop |
| Search tools, skills, component registry, presentation | files and static data | see `PROJECT.json` | |

What makes each correct:

- **Servers**: no spawned process is lost; one project has one server; a restart
  never leaves two generations; every call returns; what was started is found
  again by the next invocation.
- **Prompts**: no tool that needs a confirmation runs without it; an answer
  reaches the question it was given to; a question ends once and leaves nothing.
- **Turns**: every turn ends, whatever the client does; tools never outlive the
  channel they emit on; nothing else sends on a closed channel.
- **Conversations**: the model is sent calls paired with results; a session
  keeps its turns, in order, across restarts; sessions do not mix.
- **The page**: it shows what the events told, in order, once each; a spinner, a
  badge or a "Working" has something behind it; a turn has a session; what is
  shown of a session is what is stored.
- **Panels**: each shows what is the case behind it: the terminal that is
  polled, the provider that is stored, the model and the folder of the agent,
  the theme that is stored; and answers that cross do not change that.
- **Edits**: a diff says what changed, at the lines where it did; undoing
  everything brings back the first texts.

What is hard here is concurrency (a goroutine per tool call, per request and per
output pipe; on the page, an async function per click and answers in any order), failure of the other side (servers that ignore signals, clients
that vanish, answers that are late or lost), and restarts. `PROJECT.json`
lists each hazard at the line where it bites.

## 2. Modules

| Module | Models | Composition |
|---|---|---|
| `ServerManager` | the manager, process trees, the registry file, invocations | |
| `MCServersApp`, `MCServersCli` | constants for the application and the command line | extend `ServerManager` |
| `ServerManagerProofs` | type correctness, `Tracked`, `RestartReplaces`, `StartedOnDisk`, `OnePerName` | extends `ServerManager` |
| `PromptPromise` | the abstract promise of a question | |
| `PromptExchange` | prompts from tool goroutine to page and back | refines `PromptPromise` (INSTANCE) |
| `MCPrompts` | constants | extends `PromptExchange` |
| `PromptProofs` | type correctness, `NothingLeft`, `RunsOnlyIfAllowed`, `WaitingIsKnown`, the refinement `KeepsPromise` | extends `PromptExchange` |
| `ChatTurn` | client, handler, StepStream, tools, stored history | |
| `MCChat` | constants | extends `ChatTurn` |
| `ChatTurnProofs` | type correctness, `ToolsJoined`, `ModelSeesWellFormed`, `NothingForgotten` | extends `ChatTurn` |
| `StreamView` | the events of a turn on the page: messages, cards, badge, topology | |
| `ChatPage` | sending, stopping, and the session list | |
| `CanvasTerminals` | terminal sessions and the pane that shows them | |
| `PromptBox` | the text with its mentions, the search, the submit | |
| `ProviderDialog` | stored providers and the dialog over them | |
| `ModelChoice` | the page's model and the agent's | |
| `FileEdits` | Write, Edit and Undo on files and backups | |
| `EditCards` | the unified diff of an edit and its card | extends `FileEdits` |
| `Appearance` | the theme over several pages | |
| `WorkspaceChoice` | the folder of agent and page | |
| `CanvasTabs` | tabs and websites of the canvas | |
| `PageSidebar` | the sidebar at every width | |
| `ChatPageProofs` | `LoadingHonest`, `TurnHasSession`, `QuietView` | extends `ChatPage` |
| `CanvasProofs` | `OneLayer`, `SpinnerEnds`; `ScreenOfActive`, `TabsAreSessions`, `OutputOnce` | extends `CanvasTabs`, `CanvasTerminals` |
| `PageProofs` | `ModelAgrees`, `WorkspaceAgrees`, `SidebarReachable`, `PagesAgree`; `ConfiguredIsStored`; `MentionIsServed`, `MentionsDelivered` | extends the parts it is about, and `CanvasProofs` for its lemmas on sequences |
| `StreamProofs` | `ViewIsStory`, `NothingUnshown`, `SpinnersHonest`, `TranscriptHonest`, `BadgeHonest`, `CanvasRests` | extends `StreamView` |
| `EditProofs` | `UndoReturnsAll` | extends `FileEdits` |
| `MCWorkbench` | constants for the parts of the page | extends the modules above |
| `MCUndo` | constants | extends `FileEdits` |

### ServerManager

One action per lock region of the code; what happens between two regions is a
step of its own, so every interleaving of two calls is there. `servers[m]` and
`inst[m]` are `sm.servers` and the instances, which outlive their entry, as a
pointer held by a goroutine does. `pc`, `op`, `cur`, `new`, `dir`, `todo` and
`snap` are a goroutine's program counter and locals. `live[p]` is the set of
members of process tree `p` that run: `Exits` lets any of them exit at any
time, `StopKill` lets each obey or ignore SIGTERM, `KillRoot` is
`Process.Kill`, which reaches the root. `Boot`, `Leave` and `Crash` are the life
of a Go process; with `Persistent` a manager is one command-line invocation that
ends with its command. `Truncate` and `Write` are the two halves of
`os.WriteFile`, so that a crash can leave a torn file. Abstracted: ports, URLs
and waitForServer's probing (a start becomes ready or not; with `ForeignPage`
also when nothing of its own answers), excluded ports, ResolveBrowserTarget. A
pid is not reused. A map lookup that finds one of several matching servers takes
any of them. RestartServer reads its instance and stops it in one step less than
the code (the lookup at its start is the guard of `CallRestart`). `StopAll` is
called by tests only, in this commit, and is modelled as the exported operation
it is.

### PromptExchange

One turn's tool calls, each at `<<phase, label>>` of RequestPermission, the tool,
and RequestHumanInput. Both kinds of question share `Register`, `Emit`, `Await`
and `Leave`, as both functions have the same shape; the differences are in the
actions (a permission call returns when its event cannot be emitted, a
human-input call goes on to its select). `reg` holds the two maps, `chan` the
buffered channels, `wire` the server-sent events on their way, `screen` the
dialogs (one per kind: a new one replaces the old), `posts` the requests that
carry answers, which may be lost, `found` the handlers between lookup and send.
`said`, `lax` are history variables. "yes" and "no" stand for the two outcomes
of a permission and for two different texts of an answer. `SetPermissionMode` is
exported by the agent but has no caller in this commit (the mode stays
`allow_all`); the README of the repository promises the three modes, and
the model covers them and their change at any time. `PermissionDialog` and
`HumanInputDialog` are the two dialogs of the page, each with the handler of its
buttons.

`PromptPromise` says what a call may rely on: a question ends once, with an
answer the user gave to that question, or without one.

### ChatTurn

Per turn `h` is where its handler is and `g` where its StepStream is; `g = "end"`
means that the event channel is closed. `emit` is a rendezvous: `Delivered`
(the handler receives and writes; if the client has left the write may fail,
and the handler cancels and leaves its loop) or `Refused` (the context is done).
All events of one response are one rendezvous. `history` is the one history of
the one agent; `stored` the history column per session. Messages are a turn, a
role and a number of tool calls. `Prune` may happen whenever the history is
longer than `Keep + 1`; that the code asks for 320000 bytes first is left out.
The user may `Stop` a turn and at once `Send` the next (the page clears its
loading flag), so that two StepStreams run on one history; appending is not
atomic then, and the history becomes the unknown value `Torn`. `Quit` ends the
application at any point and starts it again with the database only.
`ServerLine` is the output goroutine of a server a tool has started. Abstracted:
what tools do, prompts (module `PromptExchange`), requests without a session,
display messages, titles and reasonings. SQLite writes succeed. The read of the
stored history and RestoreHistory are one step.

`cut` is a history variable with what has cut a conversation: `pruned`,
`unanswered` (a stop between two results), `early` (a save while the turn still
runs) and `overlap` (a turn sent while another runs).

### StreamView

The order of the events is that of `core/agent.go` and of a browser agent that
runs beside the main one. `phase`, `call` and `sub` say where the agent is,
`current` is `assistantMsg` and `begun` the message counter of the closure. React
applies the updaters of all events that arrived since the last render at once:
`updates` holds them and `Render` runs them, and the updater of
`ensureAssistant`, which reads `assistantMsg` when it runs, is `pushCurrent`.
React may also run the first updater at once when nothing is pending; `Write`
offers both. A text is one of four values, since what tells a message apart is
whether it has thoughts, words or a note of the page. `story` is what the events
amount to; the properties compare the page with it. `excuses` names what the
code does not survive: two assistant messages begun in one batch (`crowded`: the
first can be missing or doubled), and an event of a browser agent after the result
of its call (`lateEvent`: the transcript opens again). Nothing sets the browser
node of the topology to a pulsing status. Top-level browser events
(`use-chat-state.ts:589`) are never sent by the agent and are not modelled.

### ChatPage

Each async function of the page is a flow: `mount`, one per message, and as many
`Handlers` as are under way beside them. A click is not awaited by the next, so two
selections, or a selection and a deletion, cross, and their answers come in any
order; every call of the back end is asked in one step and answered in another, and
an effect of React runs some time after the state it depends on was set. What an
`await` is followed by, up to the next one, is one step. A turn's stream is one reply.

`shown` is the session whose messages were set last, `crossed` says that another one
was selected when they came, which `use-sessions.ts` does not look at. `lags` holds
the reasons why the view is not what is stored: the answer
was read before something was saved (`late`), a turn was saved or the session
deleted and nobody read it again (`unread`), the view was cleared, or written by a
turn that had no selection (`local`). `hurried` marks a message sent while an earlier
one was finding its session: it is sent without one and not saved. The reload of the
list when the workspace changes is not modelled.

### CanvasTerminals

A terminal's output is a sequence of numbered pieces, so that one lost, doubled or
on the wrong screen can be told. `buffer` is the session's, `polls` are
`ReadTerminal` calls under way, answered in any order. `poller` is the active id
the effects last saw. `elsewhere` is what the agent's tools read, or another pane, or
a pane that was closed. The canvas can hold several panes over the one manager
(`canvas-panel.tsx:157`); this module follows one of them, and `OtherCreates`,
`OtherCloses` and `ReadElsewhere` are what the others do. A pane reads the list of
sessions when it is opened and not again: `unseen` are sessions that others made
since, `gone` those that others closed. The pane may be closed at any time, also
during a create, and opened again; what it had asked for is then as if others had.
`lapses` names the races the code has: a poll answered after the
switch (`answeredLate`, until the next switch), the list of sessions answered after a
tab was made (`listCrossed`: two tabs for a session, or a closed one), and another tab
becoming active while a close is under way (`closing`: two quick closes leave a
closed tab active). Not modelled: the PTY with the mutex held during its writes,
resizing, `TerminalExecute`.

### PromptBox

Texts and paths are sequences of characters: `Word` are those that the pattern of the
submit takes for a path's, `Odd` any others. `Change` is the handler
that finds the mention before the caret; `Fires` is the timer of the search, which
the next key replaces, while a call already sent is not cancelled. `Submit` finds the
mentions again in the text (`Mentions`) and takes from each the longest run of `Word`
characters (`Taken`): a path with a bracket is cut there, and one that the text
goes on from with a full stop takes it in. Either way another path, or none, is read
and the mentioned file is left out without a word, although its token is in the
text; `MentionsDelivered` excepts just these two cases. The files are read one
by one (`ReadNext`), and each may fail. A folder that
is not in the results of the moment is read as a file, and its content is not
sent. Attachments are shown but never sent by the code, and are left out.

### ProviderDialog and ModelChoice

`ProviderDialog` has one call in `calls` per async function of the dialog, each
asked, run and answered; a change of the stored list may be followed by a failed
write of the file, after which a restart brings back the old list, or none when the
file had been emptied already. A key stands for
what a row lets one edit; 0 is an empty one. The base URL is left out: loading takes
it from the preset, so a saved one is lost at the next save. A custom provider is
stored and never listed, unless it has a preset's name. `ModelChoice` has the
page's model and the client's; an answer carries what was read when it ran.
`SelectRuns` may set another model than asked for (an id that is gone), and
`BrowserChooses` sets the model of the client that both agents share.

### FileEdits and EditCards

A file is a sequence of lines. `ApplyHunk` is `fuzzyApplyHunk`: the exact text if it
occurs once, else the first window with two thirds of its lines; a hunk of a patch without
old lines changes nothing, and a replacement without an old text fails, after its
backup. A call reads all its files, then backs
up and writes one after the other, from the text it read first: of a file named
twice in a patch the first change is lost. `BackupReads` and `BackupPushes` are the
two halves of `BackupFile`, the first outside the lock; `Truncate` and `WriteFile`
those of `os.WriteFile`, so that another call may read the empty file. `EditFails`
may end a call before or after its file was emptied. Undo has two halves as well and
holds the lock between them (`undoing`). Steps of two calls and of Undo
interleave; `raced` says that an Undo ran while a call had read its backup and had
not written its text.

In `EditCards`, which adds no step, `UnifiedDiff`, `ParsePatch` and `DiffViewer` are the diff the tool
returns, the library that reads it and the card that draws it. A deleted line is
counted twice in a hunk's header, and the reader then takes the next hunk for the
rest of the first; context is taken without regard to the hunk before. `CardIsTrue`
compares the card with the two texts and with the longest common subsequence by
its definition, where neither happens.

### Appearance, WorkspaceChoice, CanvasTabs, PageSidebar

`Appearance`: several pages of one origin, each with its theme, what it draws, the
storage events it has not handled and whether it listens to the system's scheme. An
event has a key, and a page handles only those of the theme's: a removed item brings
the default, other items do not touch it, and a storage that was cleared sends an
event without a key, of which no page hears. `apart` are the pages that differ from
the stored theme until the next write or reload: after such a clearing, and when a page
has written while an older value was on its way, which arrives last and stays.
`WorkspaceChoice`: the page pushes its stored folder
on loading without waiting, and the backend may have been restarted; calls run and
are answered in any order. The dialog has no way to close but a choice.
`CanvasTabs`: closing the leftmost tab while it is in front leaves nothing in front
(`abandoned`), the plus button cannot close its menu (the mousedown has), and
the reload spinner turns for ever when the address is the one shown (`again`).
`PageSidebar`: widths are in half pixels, because `matchMedia` compares the exact
width and `innerWidth` its integer part; between 767 and 768 pixels they differ.
The cookie that keeps the state is written and never read.

### MCWorkbench

The eleven parts above share no state: a product of them would only multiply their
states. `focus` chooses one at the start, that one takes its own steps and the
others keep their first state. Each part's specification is its module's. The chat
page has two foci: `page` starts with an empty database and allows two messages and
one handler, `sessions` starts with two sessions and allows one message and two
handlers. `InOrder` takes messages, handlers and sessions in the order of their names,
which nothing else tells apart.

## 3. Runs

| Run | Instance | States | Shows |
|---|---|---|---|
| `servers_app` | 1 manager, 2 goroutines, 2 processes | 99 k | `TypeOK`, `Tracked`, `RestartReplaces`, `CallsReturn` |
| `servers_cli` | invocations one after the other, 3 processes with a child each, 2 directories, one of them also under a relative name, crashes | 603 k | `StartedOnDisk`, `OnePerName` |
| `servers_relative` | as above, a relative directory | violation | `OnePerProject` fails |
| `servers_tree` | 1 goroutine, a child that ignores SIGTERM | violation | `TreeKilled` fails |
| `prompts` | 2 tool calls that ask, one of which writes | 430 k | `TypeOK`, `RunsOnlyIfAllowed`, `WaitingIsKnown`, `NothingLeft`, `KeepsPromise`, `CallsEnd` |
| `prompts_collide` | 2 calls that ask | violation | `OwnAnswer` fails |
| `chat` | 2 turns, 2 iterations, 2 tool calls, 1 stop | 467 k | `TypeOK`, `ToolsJoined`, `TurnEnds` |
| `chat_sessions` | 3 turns, 2 sessions, 2 tool calls, 1 stop, 1 restart | 3.0 M | `ModelSeesWellFormed`, `NothingForgotten` |
| `workbench` | the eleven parts of the page | 1.7 M | stream: `ViewIsStory`, `NothingUnshown`, `SpinnersHonest`, `TranscriptHonest`, `BadgeHonest`, `CanvasRests`; page: `LoadingHonest`, `TurnHasSession`, `QuietView`; terminals: `OutputOnce`, `ScreenOfActive`, `TabsAreSessions`; box: `MentionIsServed`, `MentionsDelivered`; providers, model: `ConfiguredIsStored`, `ModelAgrees`; edits: `CardIsTrue`, `UndoReturnsAll`; `PagesAgree`, `WorkspaceAgrees`, `OneLayer`, `SpinnerEnds`, `SidebarReachable` |
| `undo_last_edit` | 2 edits one after the other, one fails | violation | `UndoTakesLastEdit` fails |
| `chat_panic` | 1 turn with a server | violation | `NoSendOnClosed` fails |
| `chat_isolation` | 2 turns in 2 sessions | violation | `SessionIsItsOwn` fails |

Bounds. Two goroutines are enough for every pair of overlapping calls of the
server manager, and two processes for one restart or two starts; the proofs
cover any number. Three processes let the command line start, stop and start
again beside a second directory. Two tool calls cover every pair of concurrent
questions: calls share only the two maps, the two dialogs and the mode. In `chat`
one stopped turn and its successor are the overlap; two iterations with two calls
each let a stop fall between results, between iterations and in every emit. In
`chat_sessions` three turns are the shortest history in which a session is left
and resumed, before or after a restart; `Keep = 2` against 10 makes pruning
happen within it, and one iteration per turn is enough to have both calls and
results. Its two sessions are symmetric and no liveness is checked there. `MaxPid`,
`MaxTurn`, `MaxCalls`, `MaxStop`, `MaxQuit` and `Starters` bound what users and
processes do; `MaxIter` and `Keep` are the code's own limits, made small.

In `workbench`: a stream with two tool calls, of which one is a browser test, and
two rounds has every order of a late browser event, a result and a stop
(`MaxSteps` keeps rounds and calls together to three). One turn is enough for the
stream, whose closure is new for each. On the chat page two messages, or a message
and a click, are the least in which something crosses a message that finds its session;
two handlers over two sessions let two selections, two creations or deletions, and a
turn's reload cross, beside the list that is read on loading. Two terminals, two
pieces of output and two polls have every crossing of a poll with a switch or a close,
and three for `MaxMounts` lets the pane be closed and opened again.
Five keys over two files, a folder, "@" and a blank are a mention typed, searched,
accepted and sent, with two searches under way; the path of one file has a character
that cuts it, and an "a" typed behind the other is taken in. Three acts in the dialog with two
calls at once, three picks of two models, three choices of two folders with two
restarts, three presses of two pages with two changes of the storage, and two edits at
once with Undo are
the least with which an answer can be overtaken by what another call did. The
text that is edited has six lines: lines added before and after it give two hunks
whose contexts just do not overlap, and with one added in its middle they do; replacements
find their lines exactly, nearly, twice or not at all, or have none. The widths of the
sidebar are the half pixels around the breakpoint and a width well on each side. All
properties of this run but `CardIsTrue` are also proved, for every bound.

`CHECK_DEADLOCK FALSE` is used where the model stops by design: all messages of
the bound are answered, all process ids are spent, or what the person may do of the page is
used up.

Fairness. `ServerManager`: goroutines are scheduled, and every wait of a call
has a time-out in the code (60 s readiness, 5 s exit). `PromptExchange`:
goroutines are scheduled and their timers (300 s, 600 s) fire; nothing is
assumed of the user, the page or the network. `ChatTurn`: handler, StepStream
and tools run on, the model's stream ends, and net/http cancels a request whose
client has left. That tools return is an assumption: `CallsReturn` and `CallsEnd`
show it for server and prompt tools, while `Bash` waits without a limit after
SIGTERM (`tools/bash.go:124`), a hazard of the list. The parts of the page are
checked for safety only: what keeps them waiting is a person or a call without a
time-out, so no fairness would be the code's.

## 4. What the violations show

1. `servers_relative`: "Servers started here are managed persistently across
   invocations ... so subsequent runs reuse them" (`cmd/demios/main.go:10`), and the
   usage text starts one with `--workdir ./my-app`; the comparison is with an absolute
   path, so a server started under a relative name is never found.
2. `servers_tree`: "The process and all its children are killed"; after five
   seconds only the root is.
3. `prompts_collide`: two AskUser calls of one response can both become
   `human-1`, and one returns the answer to the other.
4. `chat_panic`: the first line a server prints after its turn has ended is a
   send on a closed channel.
5. `chat_isolation`: a new session goes on with, and is saved with, the
   conversation of the session before.
6. `undo_last_edit`: "Reverts the last file that was modified by the Edit tool";
   an Edit that finds no place has left its backup on the stack, so Undo writes back
   the unchanged file and the modification stays.

What a property of the page excepts by name (`excuses`, `lags`, `crossed`, `hurried`,
`lapses`, `unseen`, `gone`, `stale`, `doubt`, the characters of a path, `doubtful`,
`swapped`, `raced`, `Countable`, `Apart`, `apart`, `overlapped`, `abandoned`, `again`,
`Between`) is what the code does wrong there or leaves to chance; the notes of
section 2 say what each is. They are exceptions and not findings because no line of
the repository speaks of the case itself. General promises do reach some of them:
`README.md:15` lists "message persistence", which a hurried message,
sent without a session, is not; and the prompt offers "@ to mention files or folders"
(`prompt-input-with-actions.tsx:334`), which fails for a path that the pattern cuts.

## 5. Proofs

`TypeCorrect` (`Spec => []TypeOK` of `ServerManager`). `TypeOK` is not
inductive: a step that updates `inst[m][cur[t]]` needs `cur[t]` to be a number.
`InHand` adds that a goroutine inside a call has an instance (or, before it
registers, a process) in hand, and `TypeOK /\ InHand` is inductive.

`NoServerLost` (`Spec => []Tracked`). An entry is deleted after its process was
killed, but nothing in the state at the deletion says so. `Safe` adds: numbers in
use are below `nextID` (`Numbered`), a process belongs to one instance or to
one goroutine's `new` (`Owned`), processes of an incarnation were spawned
(`Spawned`), goroutines are idle when their manager is down (`Awake`), and at
the two deleting labels the root of the instance in hand is dead (`Killed`).
`TypeOK /\ InHand /\ Safe` is inductive; steps that touch only a goroutine's own
locals are dealt with once (`LocalStep`), the others one lemma each.

`RestartIsClean` (`Spec => RestartReplaces`), an action property of the root of what is
restarted; its children may live on, which is the finding of run `servers_tree`. The stop of a
restart ends with the root gone, but the replacement is spawned four labels later,
after the save. `Generation` says of a goroutine on the way from the one to the other
that the instance in its hand has no root (`Ended`), and that an instance with a
command has a process (`Commanded`); a step of another goroutine moves nobody else,
revives no process and reuses no number (`Apart`).

`FileKeepsServers` (`(Persistent /\ ~Overlap) => (Spec => []StartedOnDisk)`). `Stored`
adds to the invariant above where a started server that runs is to be found: between
two invocations in the file (`OnDisk`), during one in its map (`InMap`), and while
`persist` writes also in the copy it took (`Course`). `Alone` is what the premises
give: one invocation and one call at a time. Both premises are needed: of two
commands that overlap the later write loses the other's server, and the application
keeps no file.

`ProjectsApart` (`(Persistent /\ ~Overlap) => (Spec => []OnePerName)`): of a project that callers
name by its absolute path only (`Plain`), a manager's map has at most one entry whose status is
running. It counts entries of the map, not processes: what is spawned and not registered, or
was dropped from the registry, is not counted. `Single`: entries of the file, and of a map, have
different plain directories (`UniqueDirs`, `Distinct`), and the one that is being started has no
rival (`Sole`); this needs that every server but that one is running, so that the reuse
check sees it. That the project is plain is what the code assumes and does not ensure: run
`servers_relative` shows two servers of one that is named in two ways.

`PromptTypes`, `NothingIsLeft` (`Spec => []TypeOK` and `Spec => []NothingLeft` of
`PromptExchange`). The two are proved together: the code numbers a question with
the size of the map plus one, and that this number stays below the number of
calls follows from the injection that `NothingLeft` gives from pending ids to
calls (`NewIdRange`).

`ConfirmedRuns` (`DistinctIds => (Spec => []RunsOnlyIfAllowed)`). The id of a
permission question is the tool-call id the model gave, so the theorem assumes
that these are distinct; with two equal ids an answer reaches whichever call is
registered. The invariant `Confirmed` says that a call behind the gate has met a
lax mode or got a yes (`GatePassed`), that permission ids are the model's
(`GateIds`), that an unanswered question is in one place only and not answered
twice (`Questions`), and that every answer under way is what the user said, on
its way to the call that asked (`Replies`). Distinctness is used once, where the
handler looks the channel up. Nothing is assumed of the ids of human-input
questions, for which run `prompts_collide` shows the corresponding claim false.

`WaitersAreKnown` (`Spec => []WaitingIsKnown`), of any number of calls and any ids. The
invariant `Enlisted`: a call whose question is open is the one registered under its
id, or another call put a question under that id too (`Namesakes`). A registration
overwrites and a call that ends removes its id's entry whosever it is, so with a
namesake nothing more can be said: run `prompts_collide` finds two calls under one id.
`Numbered` says that a call's id is the one it asks with, and that its end was set
before its entry goes.

`PromiseKept` (`Spec => KeepsPromise`): `PromptExchange` implements `PromptPromise`, in which
an answer ends the question it was given to or, once the two share an id (`shared`), another
of that id. A step that takes an answer from its channel must map to `Reply`, which needs that
the user gave it. `Honest` follows it from the question to the answer: a question not yet asked
has got nothing (`Fresh`); a question on the page, or on its way, is of a call that put it
under that id, and is in one place (`OnPage`); and a request or a value in a channel carries what
was said to the call that waits, or to one that shares its id (`UnderWay`). A handler that
finds the question over, a time-out or a cancellation map to silence or to a stutter.

`ToolsAreJoined` (`Spec => []ToolsJoined` of `ChatTurn`), with the fact that a
turn not yet loaded has no StepStream (`NotBegun`). It is about the goroutines of tool calls; what
a tool has left running may still emit on the closed channel (run `chat_panic`). All steps of StepStream but
two only advance its label (`Advances`).

`ChatTypes` (`Spec => []TypeOK` of `ChatTurn`). A result counts `todo` down, so that
it stays a natural number needs `ResultDue`: while calls run or a result is added,
at least one result is due.

`HistoryIsWhole` (`Spec => []ModelSeesWellFormed`). While nothing was cut (`cut = {}`), the
history, and every stored one, answers its calls, except that the turn at work owes as
many results as it still counts (`Awaiting(s, n)`, `Due(t)`), and the turns before it
are over (`OneAtATime`). `Whole` is the conjunction. A result is appended after the
turn's own last message only, so the lemmas are about a sequence that waits for n results
and grows by one.

`TurnsAreKept` (`Spec => []NothingForgotten`). `Remembered` says whose messages a history
holds: of a turn's session the agent's history has those of the turns that ended and of
the turn itself once it began (`Here`), a stored one those that ended (`Saved`), and
every message of the user in either is that of a turn that got so far (`Known`). `Order` ties the handler's label to StepStream's: a
turn is saved after it began. Both theorems hold of any numbers of turns, sessions,
calls and restarts.

`ThinkingEnds`, `TurnsHaveSessions`, `ViewSettles` (`ChatPageSpec =>` `[]LoadingHonest`,
`[]TurnHasSession`, `[]QuietView`), from one inductive invariant. `PageTypes` has the kinds a
flow may be of. `TurnsInv`: a turn looks for its session until it is sent, and not again
(`TurnFlows`); it is served for the session it streams to (`Closures`); one message
finds its session at a time, and that is what `ensuring` says (`OneFinds`); and unless
`hurried` one turn runs, is shown and can be stopped (`OneRuns`). `ViewInv` follows the view
through selections, creations, deletions and turns whose answers come in any order: the
selected session is the one shown, or is on its way, or the answers `crossed` (`Asked`,
`Crossing`); what is loaded is what is stored (`LoadedStored`) and what is drawn is
what is loaded (`Shows`), unless a turn is about to load again (`Reloading`) or the
view `lags` for the reason that is named: it shows what the page said and the server has
not stored, or was not read since.

`FrontLayer`, `SpinnersEnd` (`CanvasSpec => []OneLayer`, `[]SpinnerEnds`). One layer is in front, and
none exactly after the leftmost tab was closed in front (`abandoned`), which the theorem does not
excuse but states. `CanvasInv`: ids of tabs differ (`TabsApart`), which rests on new ones being taken
from a counter, and the active one is the id of a tab unless `abandoned` (`FrontTab`).

`ScreenFollows`, `TabsFollow` (`TerminalsSpec => []ScreenOfActive`, `[]TabsAreSessions`). `TermInv`: below
its first piece the screen shows the session that is polled (`ScreenInv`); a close under
way knows the active tab, and that tab is open (`CloseInv`); no session has two tabs, and
one that this pane need know of, that is, not being made and not made by another pane since the
list was read (`unseen`), has a tab or is in that list (`TabInv`), which names no session twice
(`ListInv`); and a tab drawn open has its session, or another pane closed that (`gone`), or it is
being closed (`LiveInv`). `ScreenFollows` says nothing of a screen that an answer reached after a
switch (`answeredLate`), nor the others of their lapses: those are what the code does not survive.

`ShownOnce` (`TerminalsSpec => []OutputOnce`). `OnceInv` says the same of the lists of pieces one by
one: no list has a piece twice, no two lists have one in common, nor has one with what
went elsewhere, and together they are what was printed. It rests on `TermInv` for the
session that is polled or closed being one there is. An answered poll renumbers
those behind it; the proof follows each to its old place.

`BadgeIsHonest`, `CanvasSettles` (`StreamSpec => []BadgeHonest`, `[]CanvasRests`), from one
inductive invariant, `StreamInv`. The badge is the easier half: a lit one has an agent that works, or
failed, or was not heard of any more. For the topology a server that pulses must be
traced to a call: while a turn runs, to one asked or at work; when it is over, to one that
was cut off or lost, or whose card says it erred. The invariant follows the card:
the message being written is the last of the story, calls asked or at work have
their cards on it, and a call nobody tests has no browser agent.

`MessagesAreStory`, `NothingIsLost` (`StreamSpec => []ViewIsStory`, `[]NothingUnshown`). Between two
renders the page has a list and a queue of updaters: a push appends a message, a put
replaces the one of its id or appends it, and one kind of push reads `assistantMsg` only when it
runs. `MessagesInv`, on top of
`StreamInv`, says where each message of the story is: in the list, or in the hands of an updater
(`Carries`), and in both cases no later updater puts an older value in its place. That
alone gives `NothingUnshown`, also for a crowded batch. For the order, while nothing is crowded:
the list is in the order of the story, every updater follows all of the list and the updaters
before it (`Followed`), and one that reads `assistantMsg` has its first put right behind it
(`Pending`), so that what it reads is what it was meant for. Each step of the page is a
render or has one of four forms: it begins a message (`Begins`), rewrites the last one
(`Rewrites`), adds a complete one (`Tells`) or none (`Rests`). A render applies the whole queue,
one recursive function over it, and what is shown is another over the list; what they give
for every length is shown by least numbers (`UpTo`, `StepsAre`), as the library's induction cannot
be used: the smallest length at which the claim fails has one before it at which it holds.

`SpinnersTellTruth`, `TranscriptsTellTruth` (`StreamSpec => []SpinnersHonest`, `[]TranscriptHonest`). By
the theorem above a card on the page is a card of the story, so it is enough to follow those.
`Cards` says of each call what its card says on the last message and on one before it: a call
that is asked or works spins on the last and is on no other, one with a result spins
nowhere, one that was cut off or lost may. A transcript works only with an agent that works
(`Heard`: of a call that works itself or has just returned), unless an event came late. Whether a
step adds a message or changes the last one, its effect is given call by call (`LastKept`,
`BeforeKept`).

`UndoBringsBack` (`EditsSpec => []UndoReturnsAll`). `EditsInv`: a file without backup has its first text;
the oldest backup of one that has any holds that text (`Returns`); a call that read a file and is
to push it (`kept`) read the first text, or the file has a backup; and a call about to
write a file has its backup on the stack. An Undo in between is `raced`, and one at work
(`undoing`) has a backup to pop. Undo pops the newest, so a file loses its oldest backup only by getting its text
back. A call names what it backs up by path, so nothing need be known of hunks or texts.

`ConfiguredShown` (`ProvidersSpec => []ConfiguredIsStored`). `ProvidersInv` has three parts. An id
belongs to one name wherever it appears (store, file, rows, calls under way, loaded
lists), and an id not yet given out appears nowhere; ids are not repeated in a list.
And for every preset not in doubt, either no call works on it and row and store
agree, or exactly one call does, and row and store are what that call has got to
(`Course`). A load takes the last stored provider of a name: that there is a last one is a
least-number argument (`LargestPlace`).

`MentionServed`, `MessagesAreComplete` (`BoxSpec => []MentionIsServed`, `[]MentionsDelivered`). `TextInv` adds
to the first property that the caret is in the text and the mention well-formed; its
steps rest on what a slice of a text contains (`SliceIn`, `PieceOf`). `SendInv` says of
every submit under way that each file that is mentioned by its whole path, in characters the
pattern takes and with another behind it (`Plainly`), was read, could not be read, or is
still to be read (`Accounted`), so that nothing is left when the last one was. A path the pattern
cuts, or runs on over, is outside the theorem, as it is outside what the code delivers.

`ModelShown` (`ModelSpec => []ModelAgrees`). That nothing is under way says nothing
of how it came about; the invariant adds that a call that has run carries the agent's
model (`AnswersAgree`), and that a page that shows another one has an answer or
a load to come (`AnswerDue`).

`WorkspaceShown` (`WorkspaceSpec => []WorkspaceAgrees`). The page shows what it
keeps (`ShowsStored`), and while calls have not overlapped there is at most one,
which, once it ran, has put the agent where the page is going to be (`OnlyCall`).
A load after a restart and a load after a reload are one lemma (`LoadInv`).

`SidebarComesUp` (`SidebarSpec => []SidebarReachable`). The page knows of the width
at which it last looked (`found`), and the query has not flipped since; the rest is
arithmetic of the breakpoint (`NarrowWidths`), for every width.

`ThemesAgree` (`AppearanceSpec => []PagesAgree`). A page is drawn in its own theme
and listens to the scheme if that is `system` (`DrawnAsThemed`); of the storage events on their
way to a page the last of the theme's key is the stored value (`Ends`), and with none
on its way the page has it (`NewsEnds`). A page that wrote a new theme while an event was on its way
to it is `apart`, as it will still take the older one; so are all pages once the storage
is cleared, as that event has no key.

The proofs rest on the named assumptions of the constants only, which TLC evaluates in
the runs, and on the premises they state: `DistinctIds` (of `ConfirmedRuns` alone), which run
`prompts` meets, and `Persistent` and `~Overlap`, which run `servers_cli` meets.

Only model-checked:

- all liveness (`CallsReturn`, `CallsEnd`, `TurnEnds`), which is out of the prover's reach;
- `CardIsTrue` of `EditCards`, which computes its diffs with RECURSIVE operators, as the
  code recurses and backtracks: what they return for every text is an induction over the
  table of `Dp`, and TLC evaluates them over the texts and replacements of the run.

## 6. Not modelled

- Model clients: the stream parser with its accumulator of tool calls. A call of the
  model is a choice of outcomes in `ChatTurn`.
- The browser agent's loop, history and tools, and the flags of its session; only the
  order of its events is modelled, in `StreamView`.
- `waitForServer`'s probing, ports, excluded ports and ResolveBrowserTarget.
- The PTY of a terminal, the mutex held during its writes, `TerminalExecute`.
- Display messages with their reasonings, their order by equal timestamps, titles,
  renaming, workspaces and deletion in the database.
- Reading a patch's text into files and hunks, and the command `diffapply`.
- Bash and search tools, skills, the component registry and the desktop shell: process
  and file I/O, look-ups in static data, forwarding.
- On the page: the refresh of the session list when the workspace changes, attachments, the divider of the canvas, the split view of diffs, and the
  components that only draw (`loader`, `response-stream`, bubbles, markdown); and
  what nothing calls: `use-permission.ts`, `setTheme`, `clearWorkspace`.

## 7. What is left

Next modules: `TerminalSession` (reader, writer and PTY buffer with the mutex, absence
of a deadlock), `ModelStream` (the stream parser against the sequence of calls a
provider sent), `BrowserTest` (the loop, its time limit and the event forwarder over
the channel of `ChatTurn`), `ServerReady` (waitForServer and recordLine),
`Transcript` (display messages with their reasonings).

Next proofs: `CardIsTrue`, which asks first for `Dp` and `Back` as recursive functions and for
the optimality of the table, by least-number arguments as in `StreamProofs`; then the
modules above.
