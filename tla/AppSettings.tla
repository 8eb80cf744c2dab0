----------------------------- MODULE AppSettings ----------------------------
(***************************************************************************)
(* appsettings.Manager: two settings, each from the environment, a row of  *)
(* app_settings or the default, parsed once and cached for the uploads.    *)
(* A text is a number in hundredths (4500 is "45", 5 is "0.05"); a         *)
(* negative one also stands for a text that is no number.                  *)
(***************************************************************************)
EXTENDS Integers

CONSTANTS
    Texts,     \* bound: what is typed, stored or set in the environment
    NoText     \* no row, no variable, no request

ASSUME TextsAssumption == Texts \subseteq Int /\ NoText \notin Int

Keys == {"rate", "depth"}
Optional == Texts \cup {NoText}

VARIABLES
    up,            \* the server process runs
    env,           \* Overrides
    stored,        \* app_settings
    current,       \* Manager.current: the parsed value
    unconfirmed    \* history: keys whose last write was applied and yet
                   \* reported as failed since the process started

settings == <<up, env, stored, current, unconfirmed>>

-----------------------------------------------------------------------------
(* Parsing.                                                                *)

\* ParseThroughputLimitMbps: 0 is no limit, less than 0.1 is refused.
ValidRate(t) == t = 0 \/ t >= 10

\* Bytes per second of t hundredths of a megabit per second.
ParseThroughputLimitMbps(t) == t * 1250

\* ParseMaxIncrementalChainDepth takes whole numbers only.
ValidDepth(t) == t >= 0 /\ t % 100 = 0

ParseMaxIncrementalChainDepth(t) == t \div 100

Valid(k, t) == IF k = "rate" THEN ValidRate(t) ELSE ValidDepth(t)

Parse(k, t) ==
    IF k = "rate" THEN ParseThroughputLimitMbps(t) ELSE ParseMaxIncrementalChainDepth(t)

DefaultValue(k) == IF k = "rate" THEN 4500 ELSE 3000

\* The text load takes for k: the environment's, else the row's, else the
\* default.
Chosen(k, e, rows) ==
    IF e[k] # NoText THEN e[k] ELSE IF rows[k] # NoText THEN rows[k] ELSE DefaultValue(k)

-----------------------------------------------------------------------------

SettingsTypeOK ==
    /\ up \in BOOLEAN
    /\ env \in [Keys -> Optional] /\ stored \in [Keys -> Optional]
    /\ current \in [Keys -> Int]
    /\ unconfirmed \in SUBSET Keys

SettingsInit ==
    /\ up = FALSE
    /\ env = [k \in Keys |-> NoText] /\ stored = [k \in Keys |-> NoText]
    /\ current = [k \in Keys |-> 0]
    /\ unconfirmed = {}

\* config.Load refuses an environment that does not parse.
EnvironmentAccepted(e) == \A k \in Keys : e[k] # NoText => Valid(k, e[k])

\* New and load: the text of each key is chosen and parsed; an error ends the
\* startup.
Start(e) ==
    /\ ~up /\ EnvironmentAccepted(e)
    /\ \A k \in Keys : Valid(k, Chosen(k, e, stored))
    /\ up' = TRUE /\ env' = e
    /\ current' = [k \in Keys |-> Parse(k, Chosen(k, e, stored))]
    /\ unconfirmed' = {}
    /\ UNCHANGED stored

\* Mutant of SetAllowed: the environment does not keep a key from being set.
SetAllowedOverridden(k, t) == up /\ Valid(k, t)

\* What Set checks before it writes.
SetAllowed(k, t) == up /\ Valid(k, t) /\ env[k] = NoText

\* updateRuntimeSetting and Manager.Set, under the mutex.
Set(k, t) ==
    /\ SetAllowed(k, t)
    /\ stored' = [stored EXCEPT ![k] = t]
    /\ current' = [current EXCEPT ![k] = Parse(k, t)]
    /\ unconfirmed' = unconfirmed \ {k}
    /\ UNCHANGED <<up, env>>

\* The upsert takes effect and still returns an error, because the request's
\* context ended meanwhile: apply is not reached.
SetUnconfirmed(k, t) ==
    /\ SetAllowed(k, t)
    /\ stored' = [stored EXCEPT ![k] = t]
    /\ unconfirmed' = unconfirmed \cup {k}
    /\ UNCHANGED <<up, env, current>>

\* resetRuntimeSetting and Manager.Reset.
Reset(k) ==
    /\ up /\ env[k] = NoText
    /\ stored' = [stored EXCEPT ![k] = NoText]
    /\ current' = [current EXCEPT ![k] = Parse(k, DefaultValue(k))]
    /\ unconfirmed' = unconfirmed \ {k}
    /\ UNCHANGED <<up, env>>

ResetUnconfirmed(k) ==
    /\ up /\ env[k] = NoText
    /\ stored' = [stored EXCEPT ![k] = NoText]
    /\ unconfirmed' = unconfirmed \cup {k}
    /\ UNCHANGED <<up, env, current>>

Stop ==
    /\ up
    /\ up' = FALSE
    /\ env' = [k \in Keys |-> NoText]
    /\ current' = [k \in Keys |-> 0]
    /\ unconfirmed' = {}
    /\ UNCHANGED stored

Administer(k) ==
    \/ \E t \in Texts : Set(k, t) \/ SetUnconfirmed(k, t)
    \/ Reset(k) \/ ResetUnconfirmed(k)

SettingsNext ==
    \/ \E e \in [Keys -> Optional] : Start(e)
    \/ \E k \in Keys : Administer(k)
    \/ Stop

-----------------------------------------------------------------------------
(* Properties.                                                             *)

\* A restart in the same environment succeeds and brings the settings that are
\* in effect, unless a write was applied and reported as failed.
CacheIsStored ==
    up => \A k \in Keys :
        /\ Valid(k, Chosen(k, env, stored))
        /\ k \notin unconfirmed => current[k] = Parse(k, Chosen(k, env, stored))

=============================================================================
