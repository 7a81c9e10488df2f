SPECIFICATION DesktopSpec
CONSTANTS
  \* the link
  Faults = {"outage", "error", "clean"}
  MaxOpens = 1
  MaxCloses = 1
  MaxGen = 5
  MaxLinkFaults = 1
  \* the window
  Shown = {"openai", "codex", "bedrock", "ollama", "cloudflare", "custom"}
  TypedUrls = {"url_own"}
  TypedKeys = {"k1"}
  TypedHeaders = {"", "own", "bad"}
  Models = {"m1", "m2"}
  Modes = {"openai-responses", "anthropic-messages", "openai-completions"}
  ModelAt <- FirstModel
  Servers = {"", "s1", "s2"}
  Default = "s0"
  MaxCalls = 3
  Chans = {"c1", "c2"}
  Scenarios <- DesktopScenarios
  \* the plugin
  None = None
  default = default
  work = work
  m1 = m1
  m2 = m2
  u1 = u1
  u2 = u2
  d1 = d1
  d2 = d2
  desktop = desktop
  DefaultAccount = default
  Account = work
  Accounts = {default, work}
  Mobiles = {m1, m2}
  Users = {u1, u2}
  Devices = {d1, d2}
  BaseUrls = {"hub"}
  MaxSeen = 2
  Bindings <- OneBinding
  Events <- SomeEvents
  Starts <- DesktopStarts
INVARIANTS
  TasksOwned
  ConnectedMeansStream
  SavesWhatItShows
  SentWhereTyped
  ShowsBackend
  DispatchedOnce
  ShownIsThere
PROPERTIES
  ClosedQuiet
  
  FollowsConfig
CHECK_DEADLOCK FALSE
