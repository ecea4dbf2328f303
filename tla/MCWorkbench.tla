---------------------------- MODULE MCWorkbench ----------------------------
(* The parts of the workbench page that share no state, each run alone: the *)
(* focus is chosen at the start, the other parts keep their first state.    *)
EXTENDS StreamView, ChatPage, CanvasTerminals, PromptBox, ProviderDialog,
        ModelChoice, EditCards, Appearance, WorkspaceChoice, CanvasTabs, PageSidebar

VARIABLE focus

\* A path that the pattern of the submit takes, one that it cuts at a bracket.
MCFiles == {<<"a">>, <<"a", "[">>}
MCFolders == {<<"b">>}

MCKind == [c \in Calls |-> IF c = 1 THEN "start" ELSE "test"]

\* A text whose first and last lines change in two hunks; "sx" and "tx" are a
\* line with other blanks before it.
MCText  == <<"a", "b", "sx", "a", "tx", "b">>
MCFirst == [p \in {"f", "g"} |-> IF p = "f" THEN MCText ELSE <<"a">>]
MCTrim  == [l \in {"a", "b", "sx", "tx"} |-> IF l \in {"sx", "tx"} THEN "x" ELSE l]
MCTexts == {<<"b">> \o MCText \o <<"a">>, <<"b", "a", "b", "sx", "a", "b", "tx", "b">>}

MCHunk(old, new) == [old |-> old, new |-> new]
MCFile(p, hunks) == [path |-> p, hunks |-> hunks]

\* Found as it is, then no old text; found twice or, in "g", once.
MCReplaces ==
  {<<MCHunk(<<"sx">>, <<"b">>), MCHunk(<<>>, <<"a">>)>>, <<MCHunk(<<"a">>, <<"b">>)>>}

\* Two files, in one found nearly; one file twice, with a hunk that only adds.
MCPatches ==
  {<<MCFile("g", <<MCHunk(<<"a">>, <<"b">>)>>), MCFile("f", <<MCHunk(<<"tx", "a">>, <<"b">>)>>)>>,
   <<MCFile("f", <<MCHunk(<<"sx">>, <<"b">>)>>),
     MCFile("f", <<MCHunk(<<>>, <<"a">>), MCHunk(<<"tx">>, <<"b">>)>>)>>}

\* The chat page is started twice: "page" with two messages, one handler and no
\* session yet, "sessions" with two sessions, two handlers and one message.
Panels == {"stream", "page", "sessions", "terminals", "box", "providers", "model",
           "edits", "theme", "workspace", "canvas", "sidebar"}
Chatting == focus \in {"page", "sessions"}

\* Messages, handlers and sessions differ by name only: they are taken in order.
InOrder ==
  /\ flow'["t2"].pc # "idle" => flow'["t1"].pc # "idle"
  /\ flow["h1"] = AtRest /\ flow["h2"] = AtRest => flow'["h2"] = AtRest
  /\ "s2" \in exist' => "s1" \in exist' \cup removed'
  /\ focus = "sessions" /\ initial /\ ~initial' => selected' = "s1"
ChatBounds ==
  /\ focus = "sessions" => flow'["t2"].pc = "idle"
  /\ focus = "page" => flow'["h2"] = AtRest

WorkbenchInit ==
  /\ focus \in Panels
  /\ StreamInit /\ ChatPageInit /\ TerminalsInit /\ BoxInit /\ ProvidersInit
  /\ ModelInit /\ EditsInit /\ AppearanceInit /\ WorkspaceInit /\ CanvasInit
  /\ SidebarInit /\ (focus # "sidebar" => width = 1536)
  /\ exist = IF focus = "sessions" THEN Old ELSE {}
  /\ focus # "terminals" => counter = 0
  /\ focus # "model" => agentModel = "m"
  /\ focus # "theme" => ~systemDark

\* The panels without the focus keep their state.
OthersRest ==
  /\ focus # "stream" => UNCHANGED streamVars
  /\ ~Chatting => UNCHANGED chatPageVars
  /\ focus # "terminals" => UNCHANGED terminalVars
  /\ focus # "box" => UNCHANGED boxVars
  /\ focus # "providers" => UNCHANGED providerVars
  /\ focus # "model" => UNCHANGED modelVars
  /\ focus # "edits" => UNCHANGED editVars
  /\ focus # "theme" => UNCHANGED themeVars
  /\ focus # "workspace" => UNCHANGED workspaceVars
  /\ focus # "canvas" => UNCHANGED panelVars
  /\ focus # "sidebar" => UNCHANGED sidebarVars
  /\ UNCHANGED focus

WorkbenchNext ==
  \/ focus = "stream" /\ StreamNext /\ OthersRest
  \/ Chatting /\ ChatPageNext /\ OthersRest /\ InOrder /\ ChatBounds
  \/ focus = "terminals" /\ TerminalsNext /\ OthersRest
  \/ focus = "box" /\ BoxNext /\ OthersRest
  \/ focus = "providers" /\ ProvidersNext /\ OthersRest
  \/ focus = "model" /\ ModelNext /\ OthersRest
  \/ focus = "edits" /\ EditsNext /\ OthersRest
  \/ focus = "theme" /\ AppearanceNext /\ OthersRest
  \/ focus = "workspace" /\ WorkspaceNext /\ OthersRest
  \/ focus = "canvas" /\ CanvasNext /\ OthersRest
  \/ focus = "sidebar" /\ SidebarNext /\ OthersRest

WorkbenchSpec ==
  WorkbenchInit /\ [][WorkbenchNext]_<<focus, streamVars, chatPageVars, terminalVars,
    boxVars, providerVars, modelVars, editVars, themeVars, workspaceVars, panelVars,
    sidebarVars>>
=============================================================================
