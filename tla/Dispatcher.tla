------------------------------- MODULE Dispatcher -------------------------------
(***************************************************************************)
(* The AI dispatcher (ai-dispatcher/app: runtime.py, policy.py, vault.py,   *)
(* main.py).  An inference walks the provider chain with retries and an    *)
(* overall deadline and ends with a provider's answer or the rules' one.   *)
(* Other inferences and an unlock of the vault run between its awaits.     *)
(* Time is counted for each inference from its start, and passes in its    *)
(* calls and its pauses only.                                              *)
(***************************************************************************)
EXTENDS Integers, Sequences, FiniteSets, FiniteSetsExt

CONSTANTS
    Chain,       \* provider_chain(): supported providers in order
    VaultKinds,  \* providers a vault may hold
    Inferences,  \* bound: inferences
    Overall,     \* AI_TIMEOUT_SECONDS
    Retries,     \* AI_PROVIDER_RETRIES
    MaxCall,     \* bound: time a call takes
    MaxUnlocks   \* bound: unlocks of the vault

ASSUME DispatcherAssumption ==
    /\ Overall \in Nat \ {0} /\ Retries \in Nat /\ MaxCall \in Nat /\ MaxUnlocks \in Nat
    /\ \A l \in DOMAIN Chain : Chain[l] \notin {"none", "rules"}

VARIABLES
    settings,   \* environment of a provider: "unconfigured", "denied" (egress) or "usable"
    vault,      \* _vault_override: [provider, no], no = 0 without one
    verified,   \* _verified_provider and the number of the vault it was called with
    inference   \* state of an inference

dispatcherVars == <<settings, vault, verified, inference>>

Providers == {Chain[i] : i \in DOMAIN Chain}
NoVault == [provider |-> "none", no |-> 0]
Waiting == [at |-> "none", link |-> 1, retry |-> 0, no |-> 0, time |-> 0,
            usable |-> {}, failed |-> {}, late |-> FALSE, answer |-> "none", fallback |-> FALSE]

-----------------------------------------------------------------------------

\* provider_config: a vault's values go before the environment's, and unlock has let only a
\* key and an endpoint through that can be used
Config(p) ==
    IF vault.provider = p THEN [use |-> "usable", no |-> vault.no]
    ELSE [use |-> settings[p], no |-> 0]

\* unlock: a wrong password, a vault without a key and an endpoint outside the allowlist
\* change nothing; a success forgets what was verified
Unlock(p) ==
    /\ vault.no < MaxUnlocks
    /\ vault' = [provider |-> p, no |-> vault.no + 1] /\ verified' = NoVault
    /\ UNCHANGED <<settings, inference>>

Begin(i) ==
    /\ inference[i].at = "none"
    /\ inference' = [inference EXCEPT ![i].at = "provider"]
    /\ UNCHANGED <<settings, vault, verified>>

\* require_allowed_egress: the endpoint's origin is on the allowlist
Allowed(c) == c.use # "denied"

\* _fallback_response
Fallback(q) == [q EXCEPT !.at = "done", !.answer = "rules", !.fallback = TRUE]

\* The next provider.  Its configuration is read once, under the lock, and used for all of
\* its calls
NextProvider(i) ==
    LET q == inference[i]
        c == Config(Chain[q.link])
        skipped == [q EXCEPT !.link = @ + 1] IN
    /\ q.at = "provider" /\ q.link \in DOMAIN Chain
    /\ inference' = [inference EXCEPT ![i] =
          CASE c.use = "unconfigured" -> skipped
            [] ~Allowed(c) -> [skipped EXCEPT !.failed = @ \cup {Chain[q.link]}]
            [] OTHER -> [q EXCEPT !.at = "call", !.retry = 0, !.no = c.no,
                                  !.usable = @ \cup {Chain[q.link]}]]
    /\ UNCHANGED <<settings, vault, verified>>

Exhausted(i) ==
    /\ inference[i].at = "provider" /\ inference[i].link \notin DOMAIN Chain
    /\ inference' = [inference EXCEPT ![i] = Fallback(@)]
    /\ UNCHANGED <<settings, vault, verified>>

\* The deadline is looked at before each call
DeadlineOver(i) ==
    LET q == inference[i] IN
    /\ q.at = "call" /\ q.time >= Overall
    /\ inference' = [inference EXCEPT ![i] =
          Fallback([q EXCEPT !.late = TRUE, !.failed = @ \cup {Chain[q.link]}])]
    /\ UNCHANGED <<settings, vault, verified>>

\* How long a call may take.  AI_PROVIDER_TIMEOUT_SECONDS and what is left of the deadline
\* bound each wait for bytes and not the call: a slow answer outlasts them both.
CallTakes == 0..MaxCall

\* _fallback_used: a call or the policy failed before this call.  A provider that is not
\* configured does not count.
FallbackUsed(q) == q.failed # {}

CallSucceeds(i, d) ==
    LET q == inference[i]
        p == Chain[q.link] IN
    /\ q.at = "call" /\ q.time < Overall
    /\ inference' = [inference EXCEPT ![i] =
          [q EXCEPT !.at = "done", !.time = @ + d, !.answer = p,
                    !.fallback = FallbackUsed(q)]]
    /\ verified' = [provider |-> p, no |-> q.no]
    /\ UNCHANGED <<settings, vault>>

\* _classify_error
ErrorClasses == {"timeout", "transport", "rate_limit", "upstream", "authentication",
                 "provider_error", "invalid_response", "internal"}
Retriable == {"timeout", "transport", "rate_limit", "upstream"}

\* What follows a failed call.  Mutant: an error that is not worth a retry ends the inference.
GivesUp(q, error) ==
    IF error \in Retriable /\ q.retry < Retries THEN [q EXCEPT !.retry = @ + 1] ELSE Fallback(q)
AfterFailure(q, error) ==
    IF error \in Retriable /\ q.retry < Retries THEN [q EXCEPT !.retry = @ + 1]
    ELSE [q EXCEPT !.at = "provider", !.link = @ + 1]

\* A retry comes after a pause that ends by the deadline
CallFails(i, d, error, pause) ==
    LET q == inference[i]
        failed == [q EXCEPT !.time = @ + d, !.failed = @ \cup {Chain[q.link]}]
        slept == IF error \in Retriable /\ q.retry < Retries
                 THEN Min({pause, Max({Overall - failed.time, 0})}) ELSE 0 IN
    /\ q.at = "call" /\ q.time < Overall
    /\ inference' = [inference EXCEPT ![i] =
          AfterFailure([failed EXCEPT !.time = @ + slept], error)]
    /\ UNCHANGED <<settings, vault, verified>>

-----------------------------------------------------------------------------

DispatcherInit ==
    /\ settings \in [Providers -> {"unconfigured", "denied", "usable"}]
    /\ vault = NoVault /\ verified = NoVault
    /\ inference = [i \in Inferences |-> Waiting]

DispatcherStep ==
    \/ \E p \in VaultKinds : Unlock(p)
    \/ \E i \in Inferences :
          \/ Begin(i) \/ NextProvider(i) \/ Exhausted(i) \/ DeadlineOver(i)
          \/ \E d \in CallTakes :
                \/ CallSucceeds(i, d)
                \/ \E error \in ErrorClasses, pause \in 0..1 : CallFails(i, d, error, pause)

DispatcherSpec == DispatcherInit /\ [][DispatcherStep]_dispatcherVars

-----------------------------------------------------------------------------
(* Properties *)

\* An inference says what was tried.  The rules answer only when every provider that was
\* usable when it was looked at has failed, and all of the chain was looked at unless the
\* deadline had really passed; a provider that answers was usable, and the answer says
\* whether something else was tried before.
EndsAsTried ==
    \A i \in Inferences :
       LET q == inference[i] IN
       /\ q.answer = "rules" =>
             /\ q.usable \subseteq q.failed
             /\ q.link \notin DOMAIN Chain \/ (q.late /\ q.time >= Overall)
       /\ q.answer \in Providers => /\ q.answer \in q.usable
                                    /\ q.failed # {} => q.fallback
=============================================================================
