----------------------------- MODULE PairPanelMC -----------------------------
(* Bounded instance of the desktop shell: setup form and pairing panel. *)
EXTENDS PairPanel

FirstModel == [url_ollama |-> "m1", url_own |-> "m2", cf_openai |-> "m1", cf_anthropic |-> "m2"]
Saved(provider, url, mode, headers) ==
  [provider |-> provider, model |-> "m1", url |-> url, key |-> "k1", mode |-> mode,
   headers |-> headers, server |-> "s1"]
Fuel(ed, sa, su, re, co, ch, bk) ==
  [edits |-> ed, saves |-> sa, summaries |-> su, reconfs |-> re, commands |-> co,
   chats |-> ch, backend |-> bk]
Scenario(config, settled, paired, left) ==
  [disk |-> config, settled |-> settled, paired |-> paired, fuel |-> left]
Cloud == Saved("custom", "cf_openai", "openai-completions", "own")
Own == Saved("custom", "url_own", "anthropic-messages", "")
Ollama == Saved("custom", "url_ollama", "openai-completions", "own")
Codex == Saved("codex", "", "openai-responses", "")
SomeScenarios ==
  {Scenario(NoConfig, TRUE, {}, Fuel(3, 1, 0, 0, 0, 0, 0)),           \* the first setup
   Scenario(Own, TRUE, {}, Fuel(1, 1, 0, 1, 0, 0, 0)),                \* reconfiguring
   Scenario(Own, TRUE, {}, Fuel(1, 0, 1, 2, 0, 0, 0)),
   Scenario(Cloud, TRUE, {}, Fuel(1, 0, 1, 2, 0, 0, 0)),
   Scenario(Ollama, TRUE, {}, Fuel(3, 0, 0, 1, 0, 0, 0)),
   Scenario(Codex, TRUE, {}, Fuel(2, 1, 0, 1, 0, 0, 0)),
   Scenario(Own, FALSE, {"c1"}, Fuel(0, 0, 0, 0, 1, 0, 1)),     \* the panel
   Scenario(Own, TRUE, {"c1"}, Fuel(0, 0, 0, 0, 2, 0, 1)),
   Scenario(Ollama, TRUE, {"c1"}, Fuel(0, 0, 1, 0, 1, 0, 0)),
   Scenario(Own, TRUE, {"c1", "c2"}, Fuel(0, 0, 0, 0, 1, 2, 1)),      \* conversations
   Scenario(Own, TRUE, {"c1", "c2"}, Fuel(0, 0, 0, 0, 1, 4, 0)),
   Scenario(Own, TRUE, {"c1", "c2"}, Fuel(0, 0, 0, 0, 0, 4, 1))}
=============================================================================
