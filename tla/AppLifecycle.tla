----------------------------- MODULE AppLifecycle -----------------------------
(***************************************************************************)
(* The life of the program: AppRuntime.startup and shutdown                *)
(* (src/api/runtime.py) as uvicorn's lifespan calls them, the providers it *)
(* opens (src/providers/registry.py), and the connection of the messaging  *)
(* platform (src/messaging/platforms/telegram.py and discord.py).          *)
(*                                                                         *)
(* The libraries python-telegram-bot and discord.py are modelled from how  *)
(* they are called: an application that is started, then an updater that   *)
(* polls; a client task that connects, at some time or never.  While the   *)
(* program starts or stops, uvicorn serves no requests.                    *)
(***************************************************************************)
EXTENDS Naturals, FiniteSets

CONSTANTS Providers,    \* those a configuration can name
          Platforms,    \* subset of {"none", "telegram", "discord"}
          ConnectTries  \* max_retries of TelegramPlatform.start

ASSUME LifecycleAssumption == IsFiniteSet(Providers) /\ ConnectTries \in Nat \ {0}

VARIABLES
    platform,    \* the platform that is configured
    configured,  \* providers of the configured chat models
    step,        \* where the runtime is
    provider,    \* _providers: "absent", "open", "closed" or, out of it but not closed, "left"
    listing,     \* providers whose models validate_configured_models waits for
    failed,      \* whether a configured model was not found
    refresh,     \* _model_list_refresh_task: "none", "created", "running" or "over"
    link,        \* the platform's connection: "none", "started", "connecting", "up", "dead" or "closed"
    connects,       \* failed attempts to connect
    restored,    \* whether the saved trees are back in the handler
    handler,     \* whether the platform has the handler of messages
    handled,     \* for each message handled: whether the trees were there
    late         \* steps of the shutdown that ran out of time

lifeVars == <<platform, configured, step, provider, listing, failed, refresh, link, connects, restored, handler, handled, late>>
linkVars == <<link, connects, restored, handler, handled>>
regVars  == <<provider, listing, failed, refresh>>
fixed    == <<platform, configured>>

LifeInit ==
    /\ platform \in Platforms /\ configured \in SUBSET Providers
    /\ step = "new" /\ provider = [p \in Providers |-> "absent"] /\ listing = {} /\ failed = FALSE
    /\ refresh = "none" /\ link = "none" /\ connects = 0
    /\ restored = FALSE /\ handler = FALSE /\ handled = {} /\ late = {}

-----------------------------------------------------------------------------
(* Startup *)

Open(ps) == provider' = [p \in Providers |-> IF p \in ps THEN "open" ELSE provider[p]]

\* validate_configured_models makes the configured providers and asks each for its
\* models; some cannot be made.
Validate ==
    /\ step = "new" /\ step' = "validating"
    /\ \E made \in SUBSET configured : Open(made) /\ listing' = made /\ failed' = (made # configured)
    /\ UNCHANGED <<fixed, refresh, linkVars, late>>

\* A provider lists its models: the configured ones are there, or not.
Listed(p) ==
    /\ step = "validating" /\ p \in listing /\ listing' = listing \ {p}
    /\ \/ UNCHANGED failed
       \/ failed' = TRUE
    /\ UNCHANGED <<fixed, step, provider, refresh, linkVars, late>>

Validated ==
    /\ step = "validating" /\ listing = {}
    /\ step' = IF failed THEN "undoing" ELSE "warming"
    /\ UNCHANGED <<fixed, regVars, linkVars, late>>

\* start_model_list_refresh, if a provider's models are missing; then messaging.
Warm ==
    /\ step = "warming" /\ step' = IF platform = "none" THEN "serving" ELSE "restoring"
    /\ refresh' \in {"none", "created"}
    /\ UNCHANGED <<fixed, provider, listing, failed, linkVars, late>>

\* Its task runs in the background: it makes providers, then waits for their lists.
RefreshRuns ==
    /\ refresh = "created" /\ refresh' = "running"
    /\ \E ps \in SUBSET {p \in Providers : provider[p] = "absent"} : Open(ps)
    /\ UNCHANGED <<fixed, step, listing, failed, linkVars, late>>

RefreshEnds ==
    /\ refresh = "running" /\ refresh' = "over"
    /\ UNCHANGED <<fixed, step, provider, listing, failed, linkVars, late>>

\* _start_message_handler: the trees are restored, and only then the platform
\* gets the handler and is started.
Restore ==
    /\ step = "restoring" /\ step' = "connecting"
    /\ restored' = TRUE /\ handler' = TRUE
    /\ UNCHANGED <<fixed, regVars, link, connects, handled, late>>

\* An attempt of TelegramPlatform.start succeeds.  An application that runs
\* already cannot be started again.
TelegramConnects ==
    /\ step = "connecting" /\ platform = "telegram" /\ link = "none"
    /\ link' = "up" /\ step' = "serving"
    /\ UNCHANGED <<fixed, regVars, connects, restored, handler, handled, late>>

\* It fails: to initialize or start, or, once started, to poll.  The last failure
\* is logged and the program goes on without messages.
TelegramFails ==
    /\ step = "connecting" /\ platform = "telegram"
    /\ link' \in {link, "started"}
    /\ connects' = connects + 1 /\ step' = IF connects' = ConnectTries THEN "serving" ELSE "connecting"
    /\ UNCHANGED <<fixed, regVars, restored, handler, handled, late>>

\* DiscordPlatform.start: the client connects in a task of its own ...
DiscordStarts ==
    /\ step = "connecting" /\ platform = "discord" /\ link = "none" /\ link' = "connecting"
    /\ UNCHANGED <<fixed, step, regVars, connects, restored, handler, handled, late>>

\* ... which succeeds or fails at some time ...
DiscordConnects ==
    /\ link = "connecting" /\ link' \in {"up", "dead"}
    /\ UNCHANGED <<fixed, step, regVars, connects, restored, handler, handled, late>>

\* ... and is waited for, for some time: after that the program goes on without it.
DiscordAwaited ==
    /\ step = "connecting" /\ platform = "discord" /\ link # "none" /\ step' = "serving"
    /\ UNCHANGED <<fixed, regVars, linkVars, late>>

\* A message arrives; the loop runs it even while the runtime waits.
MessageArrives ==
    /\ link = "up" /\ handler
    /\ handled' = handled \cup {restored}
    /\ UNCHANGED <<fixed, step, regVars, link, connects, restored, handler, late>>

\* A request of the HTTP API makes its provider.
ResolveProvider(p) ==
    /\ step = "serving" /\ provider[p] = "absent" /\ Open({p})
    /\ UNCHANGED <<fixed, step, listing, failed, refresh, linkVars, late>>

-----------------------------------------------------------------------------
(* Shutdown: each step is given 5 seconds and may not fail the next *)

ShutdownBegins ==
    /\ step = "serving" /\ step' = IF platform = "none" THEN "clean" ELSE "stop_platform"
    /\ UNCHANGED <<fixed, regVars, linkVars, late>>

\* Telegram: the updater must be running to be stopped.  Discord: close.  Then the sessions.
StopPlatform ==
    /\ step = "stop_platform" /\ step' = "clean"
    /\ \/ /\ link' = CASE link \in {"up", "connecting", "dead"} -> "closed" [] OTHER -> link
          /\ UNCHANGED late
       \/ UNCHANGED link /\ late' = late \cup {"platform"}
    /\ UNCHANGED <<fixed, regVars, connects, restored, handler, handled>>

\* Mutant: the task that refreshes the lists is left alone.
CleanBesideRefresh ==
    /\ step \in {"clean", "undoing"} /\ step' = IF step = "clean" THEN "closing" ELSE "closing_failed"
    /\ listing' = {p \in Providers : provider[p] = "open"}
    /\ UNCHANGED <<fixed, provider, refresh, failed, linkVars, late>>

\* ProviderRegistry.cleanup, at the end of the program or of a startup that failed:
\* the refresh is cancelled, then every provider is closed, one after another ...
Clean ==
    /\ step \in {"clean", "undoing"} /\ step' = IF step = "clean" THEN "closing" ELSE "closing_failed"
    /\ refresh' = IF refresh = "none" THEN "none" ELSE "over"
    /\ listing' = {p \in Providers : provider[p] = "open"}
    /\ UNCHANGED <<fixed, provider, failed, linkVars, late>>

Closing == step \in {"closing", "closing_failed"}

\* (listing now holds those still to be closed; one that fails does not stop the next)
CloseProvider(p) ==
    /\ Closing /\ p \in listing /\ listing' = listing \ {p}
    /\ provider' = [provider EXCEPT ![p] = "closed"]
    /\ UNCHANGED <<fixed, step, failed, refresh, linkVars, late>>

\* ... until all are closed or the time is over: then the registry forgets them.
\* The end of the program also stops the messaging rate limiter.
Closed ==
    /\ Closing /\ step' = IF step = "closing" THEN "off" ELSE "refused"
    /\ late' = IF listing = {} THEN late ELSE late \cup {"providers"}
    /\ provider' = [p \in Providers |-> IF provider[p] = "open" THEN "left" ELSE provider[p]]
    /\ listing' = {}
    /\ UNCHANGED <<fixed, failed, refresh, linkVars>>

LifeNext ==
    \/ Validate \/ (\E p \in Providers : Listed(p) \/ ResolveProvider(p) \/ CloseProvider(p)) \/ Validated
    \/ Warm \/ RefreshRuns \/ RefreshEnds \/ Restore
    \/ TelegramConnects \/ TelegramFails \/ DiscordStarts \/ DiscordConnects \/ DiscordAwaited
    \/ MessageArrives \/ ShutdownBegins \/ StopPlatform \/ Clean \/ Closed

LifeSpec == LifeInit /\ [][LifeNext]_lifeVars

-----------------------------------------------------------------------------

\* No message is handled before the trees of the last run are back: a reply would
\* begin a conversation of its own.
MessagesSeeRestored == FALSE \notin handled

\* When the program is off, or has refused to start, nothing of it is still open:
\* no provider, not the refresh, not the platform; but for steps that ran out of
\* time, and for a Telegram application that started and never polled, which its
\* stop() cannot stop.
NothingOutlives ==
    step \in {"off", "refused"} =>
        /\ refresh \in {"none", "over"}
        /\ \A p \in Providers : provider[p] # "open"
        /\ \A p \in Providers : provider[p] = "left" => "providers" \in late
        /\ link \in {"none", "closed"} \/ "platform" \in late \/ (platform = "telegram" /\ link = "started")

\* The order of start and shutdown is kept, whichever of their steps fail.
LifecycleOrdered == MessagesSeeRestored /\ NothingOutlives
=============================================================================
