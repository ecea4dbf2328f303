CONSTANTS
  Calls = {1, 2}
  Kind <- MCKind
  MaxRounds = 2
  MaxTurns = 1
  MaxSteps = 3
  Sessions = {"s1", "s2"}
  Old = {"s1", "s2"}
  Turns = {"t1", "t2"}
  Handlers = {"h1", "h2"}
  MaxActs = 2
  MaxTerms = 2
  MaxPrints = 2
  MaxPolls = 2
  MaxMounts = 3
  MaxClicks = 1
  Word = {"a", "b"}
  Odd = {"["}
  Files <- MCFiles
  Folders <- MCFolders
  Typed = {"@", "a", " "}
  MaxKeys = 5
  MaxAsked = 2
  Presets = {"p", "q"}
  Customs = {"q"}
  Keys = {0, 1}
  MaxOps = 3
  MaxCalls = 2
  Models = {"m", "n"}
  MaxPicks = 3
  First <- MCFirst
  NewPaths = {"h"}
  Texts <- MCTexts
  Trim <- MCTrim
  Replaces <- MCReplaces
  Patches <- MCPatches
  MaxEdits = 2
  MaxAtOnce = 2
  Pages = {"w", "t"}
  MaxPresses = 3
  MaxChanges = 2
  Workspaces = {"x", "y"}
  MaxSets = 3
  MaxRestarts = 2
  Sites = {"x", "y"}
  MaxTabs = 2
  MaxVisits = 3
  Widths = {1532, 1534, 1535, 1536, 1538}
  MaxToggles = 6
SPECIFICATION WorkbenchSpec
INVARIANTS
  ViewIsStory NothingUnshown SpinnersHonest TranscriptHonest BadgeHonest CanvasRests
  LoadingHonest TurnHasSession QuietView
  OutputOnce ScreenOfActive TabsAreSessions MentionIsServed MentionsDelivered
  ConfiguredIsStored ModelAgrees UndoReturnsAll
  PagesAgree WorkspaceAgrees OneLayer SpinnerEnds SidebarReachable
PROPERTIES CardIsTrue
CHECK_DEADLOCK FALSE
