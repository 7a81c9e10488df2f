------------------------------ MODULE SetupForm ------------------------------
(***************************************************************************)
(* The setup form of the desktop shell (src/desktop/src/legacy):           *)
(* provider-controller.ts keeps the form of a provider's settings in step  *)
(* with presets, with the API modes remembered per model and with the list *)
(* of models a provider offers; setup-controller.ts saves the form, loads  *)
(* it back and edits the saved mode from the summary.  Both await commands *)
(* of the Rust side (one element of `calls' per pending await), so a       *)
(* command may be served, and its answer read, after the user moved on.    *)
(*                                                                         *)
(* Abstracted: messages, labels, the summary's text, the kernel's state,   *)
(* the openclaw command, the skills directories, and what a read of the    *)
(* configuration migrates or takes over from the kernel.                   *)
(***************************************************************************)
EXTENDS Naturals, FiniteSets, TLC

CONSTANTS
  Shown,      \* the presets the user may choose
  TypedUrls, TypedKeys, TypedHeaders, Models, Modes,
  ModelAt,    \* the first model each URL offers
  Servers,    \* channel server URLs
  Default,    \* DEFAULT_PAIR_SERVER_URL
  MaxCalls, Scenarios

VARIABLES
  disk,       \* the saved configuration
  raw,        \* the copy the setup and provider controllers hold
  form,       \* the inputs of the form
  adv,        \* showAdvancedProviders
  memory,     \* localStorage: the API mode of a model of a preset
  offered,    \* cachedModelOptions, as the URL they came from
  fetchKey,   \* lastModelFetchKey
  view,       \* viewMode
  calls,      \* commands awaited
  pairRaw, pairUrl, draftUrl,  \* the pair controller's copies
  hydrated,   \* what the form was filled from, while nobody edited it
  fuel        \* what may still happen in this scenario

formVars == <<form, memory, offered, fetchKey, hydrated, adv>>
pairCopies == <<pairRaw, pairUrl, draftUrl>>
setupVars == <<disk, raw, formVars, view, calls, pairCopies, fuel>>

\* An input left empty, a field with no value
Blank == ""

------------------------------------------------------------------------------
\* Presets.  "gateway" stands for showBaseUrl, baseUrlRequired,
\* showCustomOptions and fetchModels, which every kind sets alike.

builtinProvider(p) ==
  [runtime |-> p, gateway |-> FALSE, keyRequired |-> TRUE, url |-> Blank,
   auto |-> Blank, auth |-> "api-key"]
gatewayProvider(u) ==
  [runtime |-> "custom", gateway |-> TRUE, keyRequired |-> TRUE, url |-> u,
   auto |-> Blank, auth |-> "api-key"]
managedAuthProvider(p) ==
  [runtime |-> p, gateway |-> FALSE, keyRequired |-> FALSE, url |-> Blank,
   auto |-> "managed-auth", auth |-> "managed-auth"]
awsCredentialProvider(p) ==
  [runtime |-> p, gateway |-> FALSE, keyRequired |-> FALSE, url |-> Blank,
   auto |-> "aws-credentials", auth |-> "cloud-credentials"]
ollama ==
  [gatewayProvider("url_ollama") EXCEPT !.keyRequired = FALSE, !.auto = "local-ollama"]

PROVIDER_PRESETS ==
  [openai |-> builtinProvider("openai"), codex |-> managedAuthProvider("codex"),
   bedrock |-> awsCredentialProvider("bedrock"), ollama |-> ollama,
   cloudflare |-> gatewayProvider(Blank), custom |-> gatewayProvider(Blank)]

isAdvancedProviderPreset(p) ==
  PROVIDER_PRESETS[p].auth \in {"managed-auth", "cloud-credentials"}
isManagedAuthPreset(p) == PROVIDER_PRESETS[p].auth = "managed-auth"
isCloudflarePreset(p) == p = "cloudflare"
IsGateway(p) == PROVIDER_PRESETS[p].gateway

\* Cloudflare's URL is an account, a gateway and a route, which the mode decides.
CloudUrls == {"cf_openai", "cf_anthropic"}
cloudflareRouteByApiMode(mode) ==
  IF mode = "anthropic-messages" THEN "cf_anthropic" ELSE "cf_openai"
buildCloudflareBaseUrl(account, mode) ==
  IF account = Blank THEN Blank ELSE cloudflareRouteByApiMode(mode)
parseCloudflareBaseUrl(url) == IF url \in CloudUrls THEN "account" ELSE Blank

NoConfig == [provider |-> Blank, model |-> Blank, url |-> Blank, key |-> Blank, mode |-> Blank,
             headers |-> Blank, server |-> Blank]

\* detectProviderPresetId: the preset of a saved configuration.
detectProviderPresetId(c) ==
  CASE c.provider = Blank -> "openai"
    [] c.provider \notin {Blank, "custom"} -> c.provider
    [] c.provider = "custom" -> IF c.url = ollama.url THEN "ollama"
                                ELSE IF c.url \in CloudUrls THEN "cloudflare" ELSE "custom"

Urls == TypedUrls \cup CloudUrls \cup {ollama.url}
Keys == {Blank} \cup TypedKeys \cup {PROVIDER_PRESETS[p].auto : p \in DOMAIN PROVIDER_PRESETS}
Headers == {Blank, "default"} \cup TypedHeaders

\* What save_config leaves in the file: a custom provider has a URL, and every
\* other has none and the mode and headers the Rust side gives it.
Configurations ==
  {c \in [provider : {"openai", "codex", "bedrock", "custom"}, model : Models,
          url : Urls \cup {Blank}, key : Keys \ {Blank}, mode : Modes, headers : Headers,
          server : Servers \cup {Blank, Default}] :
     IF c.provider = "custom" THEN c.url # Blank
     ELSE c.url = Blank /\ c.mode = "openai-responses" /\ c.headers = Blank}

ASSUME FormAssumption ==
  /\ Shown \subseteq DOMAIN PROVIDER_PRESETS
  /\ Blank \notin Models \cup Modes \cup TypedUrls
  /\ "openai-responses" \in Modes
  /\ ModelAt \in [Urls -> Models]
  /\ \A s \in Scenarios : s.disk \in Configurations \cup {NoConfig}

------------------------------------------------------------------------------
\* The form, as functions of the inputs (f) and of the remembered modes (mem).

Remembered(f, mem) ==
  IF IsGateway(f.preset) /\ f.model # Blank THEN mem[<<f.preset, f.model>>] ELSE Blank

\* rememberCustomApiModeForCurrentModel, for the preset p
Remember(p, f, mem) ==
  IF IsGateway(p) /\ f.model # Blank THEN [mem EXCEPT ![<<p, f.model>>] = f.mode] ELSE mem

\* syncCustomApiModeForCurrentModel
SyncMode(f, mem, clearIfMissing) ==
  [f EXCEPT !.mode =
     CASE ~IsGateway(f.preset) -> Blank
       [] Remembered(f, mem) # Blank -> Remembered(f, mem)
       [] OTHER -> IF clearIfMissing THEN Blank ELSE @]

\* resolveProviderBaseUrl, which writes the URL it builds back to the input
Resolve(f) ==
  IF isCloudflarePreset(f.preset)
  THEN [f EXCEPT !.url = buildCloudflareBaseUrl(f.account, f.mode)] ELSE f

\* renderModelSuggestions; the list itself is `offered'
renderModelSuggestions(f, mem) == SyncMode(f, mem, FALSE)

setModelValue(f, m, mem) == SyncMode([f EXCEPT !.model = m], mem, TRUE)

applyDefaultCustomHeadersIfNeeded(f) ==
  [f EXCEPT !.headers = IF ~IsGateway(f.preset) THEN Blank
                        ELSE IF @ = Blank THEN "default" ELSE @]

\* The URL applyProviderPreset leaves in the input
PresetUrl(f, p, hydrate) ==
  IF ~hydrate /\ f.url \in {Blank, raw.url} THEN PROVIDER_PRESETS[p].url ELSE f.url

\* A preset without gateway fields empties them.
Plain(f, p) ==
  [f EXCEPT !.preset = p, !.url = Blank, !.account = Blank, !.mode = Blank, !.headers = Blank]

applyProviderPreset(f, p, mem, hydrate) ==
  IF ~IsGateway(p) THEN Plain(f, p)
  ELSE LET url == PresetUrl(f, p, hydrate)
           parsed == isCloudflarePreset(p) /\ hydrate /\ url # Blank
           g == applyDefaultCustomHeadersIfNeeded(
                  Resolve([f EXCEPT !.preset = p, !.url = url,
                             !.account = IF parsed THEN parseCloudflareBaseUrl(url) ELSE @]))
       IN Resolve(IF hydrate /\ g.mode # Blank THEN g ELSE SyncMode(g, mem, TRUE))

\* resolveFallbackApiKeyForPreset, and the key a command is given
FallbackKey(p, r) == IF detectProviderPresetId(r) = p THEN r.key ELSE Blank
EffectiveKey(f, r) ==
  IF f.key # Blank THEN f.key
  ELSE IF FallbackKey(f.preset, r) # Blank THEN FallbackKey(f.preset, r)
  ELSE PROVIDER_PRESETS[f.preset].auto

currentFetchKey(f, r) ==
  [preset |-> f.preset, url |-> f.url, key |-> EffectiveKey(f, r), mode |-> f.mode,
   headers |-> f.headers]
NoFetch == [preset |-> Blank, url |-> Blank, key |-> Blank, mode |-> Blank, headers |-> Blank]

------------------------------------------------------------------------------
\* Awaited commands

Call(op, at, arg) == [op |-> op, at |-> at, arg |-> arg]
Goes(c, d) == calls' = (calls \ {c}) \cup {d}
Ends(c) == calls' = calls \ {c}
Loading == Call("load", "getState", NoConfig)
Spend(what) ==
  /\ fuel[what] > 0
  /\ fuel' = [fuel EXCEPT ![what] = @ - 1]
\* The backend's own reloads are not awaited by anybody.
Reload == Call("backend", "reload", NoConfig)
Room(new) == Cardinality(calls \ {Reload}) < MaxCalls /\ new \notin calls

\* fetchModels up to its await; `show' is what reconfiguring does afterwards.
FetchCall(f, r, show) == Call("fetch", show, currentFetchKey(f, r))
Fetches(f, r, force, last) ==
  /\ IsGateway(f.preset) /\ f.mode # Blank /\ f.url # Blank
  /\ force \/ currentFetchKey(f, r) # last

\* A handler that ends in fetchModels({ silent: true, force: true })
Refetch(f) ==
  IF Fetches(f, raw, TRUE, fetchKey)
  THEN /\ Room(FetchCall(f, raw, "stay"))
       /\ calls' = calls \cup {FetchCall(f, raw, "stay")}
  ELSE UNCHANGED calls

\* The models arrive, or an error does; the form may show another preset now.
ModelsAnswer(c) ==
  /\ \E answered \in BOOLEAN :
       IF answered
       THEN /\ offered' = c.arg.url
            /\ fetchKey' = c.arg
            /\ form' = [renderModelSuggestions(form, memory) EXCEPT
                          !.model = IF @ = Blank THEN ModelAt[c.arg.url] ELSE @]
       ELSE UNCHANGED <<offered, fetchKey, form>>
  /\ view' = IF c.at = "show" THEN "setup" ELSE view
  /\ UNCHANGED <<memory, adv, hydrated>>

FetchReturns ==
  \E c \in calls :
    /\ c.op = "fetch"
    /\ Ends(c)
    /\ ModelsAnswer(c)
    /\ UNCHANGED <<disk, raw, pairCopies, fuel>>

------------------------------------------------------------------------------
\* The user edits the form.

Edit ==
  /\ view = "setup"
  /\ Spend("edits")
  /\ hydrated' = NoConfig
  /\ UNCHANGED <<disk, raw, view, pairCopies>>

ProviderVisible(p) == p \in Shown /\ (adv \/ ~isAdvancedProviderPreset(p))

\* The form after a preset is chosen by hand
Chosen(p) ==
  LET f == setModelValue([applyProviderPreset(form, p, memory, FALSE) EXCEPT !.key = Blank],
                         Blank, memory)
  IN IF ~IsGateway(p) THEN f
     ELSE Resolve([f EXCEPT !.headers = "default", !.account = Blank,
                     !.url = IF isCloudflarePreset(p) THEN @ ELSE PROVIDER_PRESETS[p].url])

\* The preset's change event.  The model, and so the mode, was just cleared:
\* fetchModels, which needs a mode, returns before it asks.
ChangeProvider(p) ==
  /\ Edit
  /\ ProviderVisible(p) /\ p # form.preset
  /\ form' = Chosen(p)
  /\ offered' = Blank
  /\ fetchKey' = NoFetch
  /\ UNCHANGED <<calls, memory, adv>>

\* The toggle of the advanced providers leaves a hidden preset.
ToggleAdvanced ==
  /\ Edit
  /\ adv' = ~adv
  /\ LET p == IF adv /\ isAdvancedProviderPreset(form.preset) THEN "openai" ELSE form.preset
     IN form' = setModelValue([applyProviderPreset(form, p, memory, FALSE)
                                 EXCEPT !.key = Blank], Blank, memory)
  /\ offered' = Blank
  /\ fetchKey' = NoFetch
  /\ UNCHANGED <<calls, memory>>

\* A model is typed, or picked from the dropdown of those offered.
EnterModel(m) ==
  /\ Edit
  /\ form' = setModelValue(form, m, memory)
  /\ UNCHANGED <<calls, memory, offered, fetchKey, adv>>
PickModel == offered # Blank /\ EnterModel(ModelAt[offered])

\* Inputs whose blur or change event fetches the models again
EnterInput ==
  /\ Edit
  /\ \/ \E k \in TypedKeys : form' = [form EXCEPT !.key = k]
     \/ /\ IsGateway(form.preset) /\ ~isCloudflarePreset(form.preset)
        /\ \E u \in TypedUrls : form' = [form EXCEPT !.url = u]
     \/ /\ IsGateway(form.preset)
        /\ \E h \in TypedHeaders : form' = [form EXCEPT !.headers = h]
     \/ /\ isCloudflarePreset(form.preset)
        /\ \E a \in {Blank, "account"} : form' = Resolve([form EXCEPT !.account = a])
  /\ Refetch(form')
  /\ UNCHANGED <<memory, offered, fetchKey, adv>>

EnterMode(mode) ==
  /\ Edit
  /\ IsGateway(form.preset)
  /\ form' = Resolve([Resolve(form) EXCEPT !.mode = mode])
  /\ memory' = Remember(form.preset, form', memory)
  /\ Refetch(form')
  /\ UNCHANGED <<offered, fetchKey, adv>>

\* The button that fetches the models
FetchClick ==
  /\ view = "setup"
  /\ Spend("edits")
  /\ form' = Resolve(form)
  /\ Fetches(form', raw, TRUE, fetchKey)
  /\ Refetch(form')
  /\ UNCHANGED <<disk, raw, memory, offered, fetchKey, hydrated, adv, view, pairCopies>>

\* Another language: applyI18n fills the form from itself and the list of
\* models is emptied, without forgetting what was fetched.
ChangeLanguage ==
  /\ Spend("edits")
  /\ form' = renderModelSuggestions(
               applyProviderPreset(form, form.preset, memory, TRUE), memory)
  /\ adv' = (adv \/ isAdvancedProviderPreset(form.preset))
  /\ offered' = Blank
  /\ UNCHANGED <<disk, raw, memory, fetchKey, hydrated, view, calls, pairCopies>>

------------------------------------------------------------------------------
\* Saving

Payload(f, r) ==
  LET g == Resolve(f) IN
  [provider |-> PROVIDER_PRESETS[g.preset].runtime, model |-> g.model,
   url |-> IF IsGateway(g.preset) THEN g.url ELSE Blank, key |-> EffectiveKey(g, r),
   mode |-> IF IsGateway(g.preset) THEN g.mode ELSE Blank,
   headers |-> IF IsGateway(g.preset) THEN g.headers ELSE Blank, server |-> Blank]

\* The checks of saveConfigAndEnter
Complete(f, r) ==
  LET g == Resolve(f) IN
  /\ g.model # Blank
  /\ EffectiveKey(g, r) # Blank
  /\ IsGateway(g.preset) => g.mode # Blank /\ g.url # Blank /\ g.headers # "bad"
  /\ isCloudflarePreset(g.preset) => g.account # Blank

\* What the Rust side stores: a mode and headers only for a custom provider,
\* and the stored channel server when the payload names none.
Stored(p) ==
  [p EXCEPT !.mode = IF p.provider = "custom" THEN @ ELSE "openai-responses",
            !.headers = IF p.provider = "custom" THEN @ ELSE Blank,
            !.server = IF @ = Blank THEN disk.server ELSE @]
Acceptable(p) == p.model # Blank /\ p.key # Blank /\ (p.provider = "custom" => p.url # Blank)

\* saveConfigAndEnter up to its first await
SaveAndEnter ==
  LET arg == [preset |-> form.preset, payload |-> Payload(form, raw)]
      c == Call("enter", IF isManagedAuthPreset(form.preset) THEN "auth" ELSE "save", arg)
  IN /\ view = "setup"
     /\ Spend("saves")
     /\ Complete(form, raw)
     /\ Room(c)
     /\ calls' = calls \cup {c}
     /\ form' = Resolve(form)
     /\ UNCHANGED <<disk, raw, memory, offered, fetchKey, hydrated, adv, view, pairCopies>>

AuthReturns ==
  \E c \in calls :
    /\ c.op = "enter" /\ c.at = "auth"
    /\ \/ Goes(c, [c EXCEPT !.at = "save"])
       \/ Ends(c)
    /\ UNCHANGED <<disk, raw, formVars, view, pairCopies, fuel>>

\* save_config is served: refused, or written; a failure after the write looks
\* like a refusal, and a success makes the pair backend reload on its own.
Writes(c, payload) ==
  \/ /\ Acceptable(payload)
     /\ disk' = Stored(payload)
     /\ \/ calls' = (calls \ {c}) \cup {[c EXCEPT !.at = "saved"], Reload}
        \/ Goes(c, [c EXCEPT !.at = "refused"])
  \/ /\ UNCHANGED disk
     /\ Goes(c, [c EXCEPT !.at = "refused"])

SaveServed ==
  \E c \in calls :
    /\ c.op \in {"enter", "summary"} /\ c.at = "save"
    /\ Writes(c, c.arg.payload)
    /\ UNCHANGED <<raw, formVars, view, pairCopies, fuel>>

\* The answer: the mode now in the form is remembered under the preset saved.
SaveReturns ==
  \E c \in calls :
    /\ c.op = "enter"
    /\ \/ /\ c.at = "saved"
          /\ memory' = Remember(c.arg.preset, form, memory)
          /\ Goes(c, Call("enter", "kernel", c.arg.preset))
       \/ /\ c.at = "refused"
          /\ Ends(c)
          /\ UNCHANGED memory
    /\ UNCHANGED <<disk, raw, form, offered, fetchKey, hydrated, adv, view, pairCopies, fuel>>

\* The kernel's state is refreshed, and the kernel installed when it is missing.
KernelReturns ==
  \E c \in calls :
    /\ c.op = "enter" /\ c.at = "kernel"
    /\ Goes(c, [c EXCEPT !.at = "web"])
    /\ UNCHANGED <<disk, raw, formVars, view, pairCopies, fuel>>

\* The dashboard opens in a window of its own, or the state is loaded again.
openOpenClawWeb ==
  \E c \in calls :
    /\ c.op = "enter" /\ c.at = "web"
    /\ Ends(c) \/ Goes(c, Loading)
    /\ UNCHANGED <<disk, raw, formVars, view, pairCopies, fuel>>

\* saveSummaryCustomApiMode reads the configuration and saves it again with
\* another mode; no copy of the configuration is refreshed.
SummaryMode(mode) ==
  LET c == Call("summary", "read", [mode |-> mode]) IN
  /\ view = "main"
  /\ Spend("summaries")
  /\ Room(c)
  /\ calls' = calls \cup {c}
  /\ UNCHANGED <<disk, raw, formVars, view, pairCopies>>

SummaryReads ==
  \E c \in calls :
    /\ c.op = "summary" /\ c.at = "read"
    /\ IF disk.provider = "custom"
       THEN Goes(c, Call("summary", "save", [payload |-> [disk EXCEPT !.mode = c.arg.mode]]))
       ELSE Ends(c)
    /\ UNCHANGED <<disk, raw, formVars, view, pairCopies, fuel>>

SummaryReturns ==
  \E c \in calls :
    /\ c.op = "summary" /\ c.at \in {"saved", "refused"}
    /\ Ends(c)
    /\ UNCHANGED <<disk, raw, formVars, view, pairCopies, fuel>>

------------------------------------------------------------------------------
\* Loading.  A read is served (its content is fixed) before it is answered.

\* syncPairConfigState: the pair controller's copies follow.
SyncPair(r) ==
  /\ pairRaw' = r
  /\ pairUrl' = r.server
  /\ draftUrl' = IF r.server = Blank THEN Default ELSE r.server

\* hydrateSetupForm: the inputs a configuration is shown as, before the mode
Inputs(r) ==
  LET p == detectProviderPresetId(r)
      url == IF r.url # Blank THEN r.url ELSE PROVIDER_PRESETS[p].url
      f == applyProviderPreset(form, p, memory, TRUE)
  IN [f EXCEPT !.model = r.model,
               !.url = IF IsGateway(p) THEN url ELSE Blank,
               !.mode = IF IsGateway(p) THEN r.mode ELSE Blank,
               !.headers = IF ~IsGateway(p) THEN Blank ELSE IF r.headers = Blank THEN "default" ELSE r.headers,
               !.account = IF isCloudflarePreset(p) THEN parseCloudflareBaseUrl(url) ELSE @]

\* Faulty: the saved mode is not remembered before the form is completed.
ForgetfulMemory(r) == memory

HydratedMemory(r) ==
  IF Inputs(r).mode = Blank THEN memory ELSE Remember(detectProviderPresetId(r), Inputs(r), memory)

\* refreshCustomInputs, then renderModelSuggestions([])
HydratedForm(r, withKey) ==
  LET mem == HydratedMemory(r)
      f == [Resolve(Inputs(r)) EXCEPT !.key = IF withKey THEN r.key ELSE Blank]
  IN renderModelSuggestions(applyProviderPreset(f, f.preset, mem, TRUE), mem)

Hydrate(r, withKey) ==
  /\ raw' = r
  /\ SyncPair(r)
  /\ memory' = HydratedMemory(r)
  /\ form' = HydratedForm(r, withKey)
  /\ adv' = (adv \/ isAdvancedProviderPreset(form'.preset))
  /\ offered' = Blank
  /\ fetchKey' = NoFetch
  /\ hydrated' = r

\* loadState: the state, then the configuration, then what the main view needs
LoadServed ==
  \E c \in calls :
    /\ c.op = "load"
    /\ \/ c.at = "getState" /\ Goes(c, [c EXCEPT !.at = IF disk = NoConfig THEN "empty" ELSE "read"])
       \/ c.at = "read" /\ Goes(c, Call("load", "raw", disk))
    /\ UNCHANGED <<disk, raw, formVars, view, pairCopies, fuel>>

LoadReturns ==
  \E c \in calls :
    /\ c.op = "load"
    /\ \/ /\ c.at = "raw"
          /\ raw' = c.arg
          /\ SyncPair(c.arg)
          /\ Goes(c, Call("load", "main", NoConfig))
          /\ UNCHANGED <<formVars, view>>
       \/ /\ c.at = "empty"
          /\ Hydrate(NoConfig, FALSE)
          /\ Goes(c, Call("load", "setup", NoConfig))
          /\ UNCHANGED view
       \/ /\ c.at \in {"main", "setup"}
          /\ view' = c.at
          /\ Ends(c)
          /\ UNCHANGED <<raw, formVars, pairCopies>>
    /\ UNCHANGED <<disk, fuel>>

\* reconfigureFromSavedConfig
Reconfigure ==
  LET c == Call("reconf", "read", NoConfig) IN
  /\ view = "main"
  /\ Spend("reconfs")
  /\ Room(c)
  /\ calls' = calls \cup {c}
  /\ UNCHANGED <<disk, raw, formVars, view, pairCopies>>

ReconfigureReads ==
  \E c \in calls :
    /\ c.op = "reconf" /\ c.at = "read"
    /\ Goes(c, Call("reconf", "raw", disk))
    /\ UNCHANGED <<disk, raw, formVars, view, pairCopies, fuel>>

\* The form is filled; it is shown at once, or when the models arrive.
ReconfigureReturns ==
  \E c \in calls :
    /\ c.op = "reconf" /\ c.at = "raw"
    /\ Hydrate(c.arg, TRUE)
    /\ IF Fetches(form', c.arg, FALSE, NoFetch)
       THEN Goes(c, FetchCall(form', c.arg, "show")) /\ UNCHANGED view
       ELSE Ends(c) /\ view' = "setup"
    /\ UNCHANGED <<disk, fuel>>

------------------------------------------------------------------------------
\* The shell starts by loading its state, with the form at its defaults.
SetupInit(s) ==
  /\ disk = s.disk
  /\ fuel = s.fuel
  /\ memory = [x \in {p \in DOMAIN PROVIDER_PRESETS : IsGateway(p)} \X Models |-> Blank]
  /\ raw = NoConfig /\ pairRaw = NoConfig
  /\ pairUrl = (IF s.settled THEN s.disk.server ELSE Blank) /\ draftUrl = Default
  /\ form = [preset |-> "openai", key |-> Blank, url |-> Blank, account |-> Blank, model |-> Blank,
             mode |-> Blank, headers |-> Blank]
  /\ adv = FALSE /\ offered = Blank /\ fetchKey = NoFetch
  /\ view = "setup"
  /\ hydrated = NoConfig
FormNext ==
  \/ \E p \in Shown : ChangeProvider(p)
  \/ \E m \in Models : EnterModel(m)
  \/ \E mode \in Modes : EnterMode(mode) \/ SummaryMode(mode)
  \/ PickModel \/ EnterInput \/ ToggleAdvanced \/ FetchClick \/ ChangeLanguage
  \/ SaveAndEnter \/ Reconfigure

SetupAnswers ==
  \/ FetchReturns \/ AuthReturns \/ SaveServed \/ SaveReturns \/ KernelReturns \/ openOpenClawWeb
  \/ SummaryReads \/ SummaryReturns \/ LoadServed \/ LoadReturns
  \/ ReconfigureReads \/ ReconfigureReturns

SetupNext == FormNext \/ SetupAnswers

------------------------------------------------------------------------------
\* Two configurations alike up to what filling the form completes: a
\* Cloudflare route follows the mode, and default headers replace none.
Normal(c) ==
  [c EXCEPT !.url = IF @ \in CloudUrls THEN "cf" ELSE @,
            !.headers = IF c.provider = "custom" /\ @ = Blank THEN "default" ELSE @,
            !.server = Blank]

\* A form filled from a saved configuration and not edited since saves that
\* configuration again, whatever answers arrive meanwhile: the preset found
\* for it, the remembered modes, the models fetched and a change of language
\* change none of its fields (setup-controller.ts:117-169).
SavesWhatItShows ==
  hydrated # NoConfig => Normal(Stored(Payload(form, raw))) = Normal(hydrated)
==============================================================================
