------------------------------ MODULE ModelLookup ------------------------------
(***************************************************************************)
(* How a robot of the shadow stream gets its model name and its list of    *)
(* cleaning modes: _get_device_model and its helpers, the features call    *)
(* and the part number it falls back on, the attempts and their backoff,   *)
(* what fetch_status stores and publishes, and the vacuum's fan speeds,    *)
(* narrowed to what the robot advertises.                                  *)
(*                                                                         *)
(* A refresh and a timing command can both be in fetch_status: each action *)
(* is the code between two awaits.  Its names differ from those of         *)
(* Protocols, which has the families' tables of modes: ProtocolsProofs     *)
(* extends both.                                                           *)
(***************************************************************************)
EXTENDS Naturals, FiniteSets

CONSTANTS
  Names,        \* model names
  Modes,        \* the fan speeds of the robot's family
  Gated,        \* those that need a feature: the keys of _FAN_SPEED_REQUIRED_FEATURE
  MaxAttempts   \* max_attempts

\* What _model can hold beside a name, and a feature that gates no speed.
Unset == "none"
Placeholders == {"Unknown", "Not Supported"}
Other == "other"

ASSUME ModelLookupAssumption ==
  /\ Gated \subseteq Modes /\ Modes # {} /\ Other \notin Modes
  /\ Names \cap (Placeholders \cup {Unset}) = {}
  /\ MaxAttempts \in Nat \ {0}

VARIABLES
  advertised,  \* the robot: its features, each gated speed standing for its own
  model,       \* _model
  features,    \* _features
  attempts,    \* _model_fetch_attempts
  rested,      \* the backoff since _model_last_attempt is over
  pc,          \* where each fetch is suspended
  offered,     \* _fan_speed_list of the vacuum entity
  heard,       \* history: the features call has listed the features
  source       \* history: what the last update of the entity was; "informed": a
               \* refresh after the features call had listed the features

lookup == <<model, features, attempts, rested>>
entity == <<offered, source>>
lookupVars == <<advertised, lookup, pc, entity, heard>>

-----------------------------------------------------------------------------
Fetches == {"poll", "adjust"}
Outcomes == {"named", "unsupported", "nameless", "failed"}

Narrowed(f) ==
  LET speeds == {s \in Modes : s \in Gated => s \in f}
  IN  IF f = {} \/ speeds = {} THEN Modes ELSE speeds

LookupInit ==
  /\ advertised \in SUBSET (Gated \cup {Other})
  /\ model = Unset /\ features = {} /\ attempts = 0 /\ rested = TRUE
  /\ pc = [f \in Fetches |-> "idle"]
  /\ offered = Modes /\ heard = FALSE /\ source = Unset

\* _apply_device_capabilities, which a degraded update does not reach.  Only the
\* refresh publishes.
Publish(f) ==
  \/ f = "adjust" /\ UNCHANGED entity
  \/ /\ f = "poll" /\ offered' = Narrowed(features')
     /\ source' = IF heard' THEN "informed" ELSE "poll"
  \/ f = "poll" /\ UNCHANGED offered /\ source' = "degraded"

\* fetch_status stores what _get_device_model returned, and goes on.
Store(f, returned) ==
  /\ model' = returned
  /\ pc' = [pc EXCEPT ![f] = "idle"]
  /\ Publish(f)

\* Mutant: a failure returns "Unknown", whatever is known by now.
FailedForgetting(f) ==
  /\ Store(f, "Unknown")
  /\ UNCHANGED <<attempts, rested>>

\* _handle_model_fetch_failure.  What it returns is stored, after the last attempt
\* as after the first.
Failed(f) ==
  /\ Store(f, IF attempts >= MaxAttempts \/ model = Unset THEN "Unknown" ELSE model)
  /\ UNCHANGED <<attempts, rested>>

Succeeded(f, name) ==
  /\ Store(f, name)
  /\ attempts' = 0 /\ UNCHANGED rested

-----------------------------------------------------------------------------
\* _should_retry_model_fetch, as it is reached: without a model.
ShouldRetry == attempts = 0 \/ (attempts < MaxAttempts /\ rested)

\* fetch_status with a model at hand.
FetchKnown(f) ==
  /\ pc[f] = "idle" /\ model # Unset
  /\ UNCHANGED <<advertised, lookup, pc, heard>>
  /\ Publish(f)

\* Skipped: "Unknown" is returned, and stored.
Skip(f) ==
  /\ pc[f] = "idle" /\ model = Unset /\ ~ShouldRetry
  /\ UNCHANGED <<advertised, features, attempts, rested, heard>>
  /\ Store(f, "Unknown")

\* Mutant: the attempt is not counted before it ends.
AskUncounted(f) ==
  /\ pc[f] = "idle" /\ model = Unset /\ ShouldRetry
  /\ rested' = TRUE
  /\ pc' = [pc EXCEPT ![f] = "asking"]
  /\ UNCHANGED <<advertised, model, features, attempts, entity, heard>>

\* The wait before the second attempt is 0 minutes.
Ask(f) ==
  /\ pc[f] = "idle" /\ model = Unset /\ ShouldRetry
  /\ attempts' = attempts + 1
  /\ rested' = (attempts' = 1)
  /\ pc' = [pc EXCEPT ![f] = "asking"]
  /\ UNCHANGED <<advertised, model, features, entity, heard>>

\* Mutant: the features of an answer without a model are not taken.
LearnIfNamed(lists, outcome) ==
  /\ features' = IF lists /\ outcome = "named" THEN advertised ELSE features
  /\ heard' = (heard \/ lists)

\* The features are taken whether a model comes with them or not.
Learn(lists, outcome) ==
  /\ features' = IF lists THEN advertised ELSE features
  /\ heard' = (heard \/ lists)

\* The features call ends: with a model, the word that there is none, neither, or
\* in an error, a timeout or an answer that is not a dict.
Answered(f) ==
  /\ pc[f] = "asking"
  /\ \E outcome \in Outcomes, lists \in BOOLEAN, name \in Names :
       /\ lists => outcome # "failed"
       /\ Learn(lists, outcome)
       /\ \/ outcome = "named" /\ Succeeded(f, name)
          \/ outcome = "unsupported" /\ Succeeded(f, "Not Supported")
          \/ outcome = "failed" /\ Failed(f)
          \/ /\ outcome = "nameless"
             /\ pc' = [pc EXCEPT ![f] = "resolving"]
             /\ UNCHANGED <<model, attempts, rested, entity>>
  /\ UNCHANGED advertised

\* _model_from_cleaner_pn: a part number, in the table or not, is a name.
Resolved(f) ==
  /\ pc[f] = "resolving"
  /\ UNCHANGED <<advertised, features, heard>>
  /\ Failed(f) \/ \E name \in Names : Succeeded(f, name)

\* CancelledError passes through every handler.
Cancel(f) ==
  /\ pc[f] # "idle"
  /\ pc' = [pc EXCEPT ![f] = "idle"]
  /\ UNCHANGED <<advertised, lookup, entity, heard>>

\* The result of a push has no features.
Push ==
  /\ offered' = Narrowed({}) /\ source' = "push"
  /\ UNCHANGED <<advertised, lookup, pc, heard>>

Rest ==
  /\ ~rested /\ rested' = TRUE
  /\ UNCHANGED <<advertised, model, features, attempts, pc, entity, heard>>

Fetch(f) == FetchKnown(f) \/ Skip(f) \/ Ask(f) \/ Answered(f) \/ Resolved(f)

LookupNext == (\E f \in Fetches : Fetch(f) \/ Cancel(f)) \/ Push \/ Rest

LookupSpec == LookupInit /\ [][LookupNext]_lookupVars

\* Refreshes go on, both calls of a lookup have a timeout, and time passes.
FairSpec == LookupSpec /\ WF_lookupVars(Fetch("poll")) /\ WF_lookupVars(Rest)

-----------------------------------------------------------------------------
LookupTypeOK ==
  /\ advertised \subseteq Gated \cup {Other} /\ features \in {{}, advertised}
  /\ model \in Names \cup Placeholders \cup {Unset}
  /\ attempts \in 0..MaxAttempts /\ rested \in BOOLEAN
  /\ pc \in [Fetches -> {"idle", "asking", "resolving"}]
  /\ offered \in (SUBSET Modes) \ {{}}
  /\ heard \in BOOLEAN
  /\ source \in {Unset, "poll", "informed", "degraded", "push"}

\* A fetch that fails while another one has found the model does not replace it by
\* "Unknown" (_handle_model_fetch_failure, "self._model or").
KnownModelStays == [][(model \in Names) => (model' # "Unknown")]_lookupVars

\* Once the features call has listed the features, with a model or without, a
\* refresh offers no speed that the robot does not advertise, unless it advertises
\* none of them (_get_device_model, _narrow_fan_speeds_to_features).
PolledSpeedsAreAdvertised ==
  source = "informed" =>
    \/ offered \cap Gated \subseteq advertised
    \/ Modes = Gated /\ Gated \cap advertised = {}
    \/ advertised = {}

\* However often lookups are cancelled, one of them settles the model, be it as
\* "Unknown" (_should_retry_model_fetch).
LookupSettles == <>(model # Unset)
=============================================================================
