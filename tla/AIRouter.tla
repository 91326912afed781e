------------------------------- MODULE AIRouter -------------------------------
(* A completion on its way through the candidates: AIRouter.generate and     *)
(* stream (ai/router.py), RetryPolicy.execute (ai/retry.py), and how the     *)
(* four providers' adapters (ai/providers) translate what HTTP gives them.   *)
EXTENDS Naturals, Sequences, FiniteSets

CONSTANTS
  Registered,  \* the providers that have credentials; ollama always
  Capable,     \* those that support what the request needs
  MaxRetries

Providers == {"openai", "anthropic", "gemini", "ollama"}

ASSUME AIAssumption ==
  "ollama" \in Registered /\ Registered \subseteq Providers /\ MaxRetries \in Nat

VARIABLES
  asked,  \* "none", or the request's kind: "generate" or "stream"
  queue,  \* the candidates not yet given up, the current one first
  tries,  \* RetryPolicy's attempt counter for the current one
  wait,   \* what the caller awaits: nothing, a reply, or a backoff
  result, \* how the completion ended, "none" before
  log,    \* history: every call of a provider and how it went
  heard   \* history: the providers whose tokens reached the caller

aiVars == <<asked, queue, tries, wait, result, log, heard>>

Results == {"answer", "retryable", "fatal", "next", "foreign", "cancelled", "absorbable"}

AITypeOK ==
  /\ asked \in {"none", "generate", "stream"}
  /\ queue \in Seq(Providers) /\ tries \in 0 .. MaxRetries
  /\ wait \in {"none", "reply", "backoff"} /\ result \in {"none"} \cup Results
  /\ log \in Seq(Registered \X Results) /\ heard \subseteq Registered

AIInit ==
  /\ asked = "none" /\ queue = <<>> /\ tries = 0 /\ wait = "none"
  /\ result = "none" /\ log = <<>> /\ heard = {}

-----------------------------------------------------------------------------
(* What an HTTP exchange may come to.  hollow: JSON without the fields; a    *)
(* connection is refused, or breaks later.                                   *)
Replies == {"ok", "hollow", "garbled", "400", "401", "403", "404", "429", "5xx",
            "4xx", "timeout", "refused", "broken"}

(* "retryable", "next" and "fatal" are AIErrors: to be tried again, to be    *)
(* left to the next candidate, or the end.  "foreign" is any other exception.*)
Status(reply) ==
  CASE reply \in {"400", "401", "403"} -> "fatal"
    [] reply = "404" -> "next"
    [] reply \in {"429", "5xx"} -> "retryable"
    [] reply = "4xx" -> "foreign"

Transport == {"timeout", "refused", "broken"}

(* A stream skips lines it cannot parse.                                     *)
OpenAI(reply, streaming) ==
  CASE reply = "ok" -> "answer"
    [] reply \in {"hollow", "garbled"} -> IF streaming THEN "answer" ELSE "foreign"
    [] reply \in Transport -> "retryable"
    [] OTHER -> Status(reply)

Anthropic(reply, streaming) ==
  CASE reply \in {"ok", "hollow"} -> "answer"
    [] reply = "garbled" -> IF streaming THEN "answer" ELSE "foreign"
    [] reply \in Transport -> "retryable"
    [] OTHER -> Status(reply)

Gemini(reply, streaming) == Anthropic(reply, streaming)

(* Every error status but 404 is the daemon's; a broken connection is not    *)
(* caught.                                                                   *)
Ollama(reply, streaming) ==
  CASE reply \in {"ok", "hollow"} -> "answer"
    [] reply = "garbled" -> IF streaming THEN "answer" ELSE "foreign"
    [] reply = "broken" -> "foreign"
    [] reply = "404" -> IF streaming THEN "retryable" ELSE "next"
    [] OTHER -> "retryable"

Outcome(p, reply) ==
  LET streaming == asked = "stream" IN
    CASE p = "openai" -> OpenAI(reply, streaming)
      [] p = "anthropic" -> Anthropic(reply, streaming)
      [] p = "gemini" -> Gemini(reply, streaming)
      [] p = "ollama" -> Ollama(reply, streaming)

-----------------------------------------------------------------------------
(* build_ai_system: OpenAI first when there is a key, the local daemon first *)
(* when there is none.                                                       *)
Preference ==
  <<IF "openai" \in Registered THEN "openai" ELSE "ollama", "anthropic", "gemini",
    IF "openai" \in Registered THEN "ollama" ELSE "openai">>

Finish(how) == result' = how /\ wait' = "none" /\ UNCHANGED <<queue, tries>>

Fit(q) == {i \in DOMAIN q : q[i] \in Registered \cap Capable}

(* From the head of q on: a candidate that is not there or lacks a           *)
(* capability is passed over; when none is left the last error is raised.    *)
Approach(q, last) ==
  \/ Fit(q) = {} /\ Finish(last)
  \/ \E i \in Fit(q) :
       /\ \A k \in Fit(q) : i <= k
       /\ queue' = SubSeq(q, i, Len(q)) /\ tries' = 0 /\ wait' = "reply"
       /\ UNCHANGED result

(* A caller may insist on one provider.                                      *)
Ask(kind) ==
  /\ asked = "none" /\ asked' = kind
  /\ \/ Approach(Preference, "next")
     \/ \E p \in Providers : IF p \in Registered THEN Approach(<<p>>, "next")
                                                 ELSE Finish("retryable")
  /\ UNCHANGED <<log, heard>>

(* A fatal error counts like any other.                                      *)
Mutant_Replied(class) ==
  \/ class \in {"answer", "foreign"} /\ Finish(class)
  \/ /\ class = "retryable" /\ asked = "generate" /\ tries < MaxRetries
     /\ wait' = "backoff" /\ UNCHANGED <<queue, tries, result>>
  \/ /\ class \in {"next", "fatal"} \/ (class = "retryable" /\ (asked = "stream" \/ tries = MaxRetries))
     /\ Approach(Tail(queue), class)

(* The answer is returned, a retryable error is waited out or, as any other  *)
(* that allows it, left to the next candidate; streams are not retried.      *)
Replied(class) ==
  \/ class \in {"answer", "fatal", "foreign"} /\ Finish(class)
  \/ /\ class = "retryable" /\ asked = "generate" /\ tries < MaxRetries
     /\ wait' = "backoff" /\ UNCHANGED <<queue, tries, result>>
  \/ /\ class = "next" \/ (class = "retryable" /\ (asked = "stream" \/ tries = MaxRetries))
     /\ Approach(Tail(queue), class)

(* Tokens of a stream are passed on as they come, whatever comes after them. *)
ProviderReplies ==
  /\ wait = "reply"
  /\ \E reply \in Replies : LET class == Outcome(Head(queue), reply) IN
       Replied(class) /\ log' = Append(log, <<Head(queue), class>>)
  /\ heard' \in {heard} \cup {heard \cup {Head(queue)} : k \in {asked} \cap {"stream"}}
  /\ UNCHANGED asked

(* The attempt is not counted.                                               *)
Mutant_BackoffEnds ==
  /\ wait = "backoff" /\ wait' = "reply"
  /\ UNCHANGED <<asked, queue, tries, result, log, heard>>

BackoffEnds ==
  /\ wait = "backoff" /\ wait' = "reply" /\ tries' = tries + 1
  /\ UNCHANGED <<asked, queue, result, log, heard>>

(* The caller gives up.  In a call the CancelledError becomes an             *)
(* AICancelledError, which the agents' except clauses take for a failure; in *)
(* a backoff it stays what it is.                                            *)
CallCancelled ==
  \/ /\ wait = "reply" /\ Finish("absorbable")
     /\ log' = Append(log, <<Head(queue), "absorbable">>) /\ UNCHANGED <<asked, heard>>
  \/ wait = "backoff" /\ Finish("cancelled") /\ UNCHANGED <<asked, log, heard>>

AINext == \/ \E kind \in {"generate", "stream"} : Ask(kind)
          \/ ProviderReplies \/ BackoffEnds \/ CallCancelled

AISpec == AIInit /\ [][AINext]_aiVars

-----------------------------------------------------------------------------
Calls(p) == {i \in DOMAIN log : log[i][1] = p}

(* Every call of a provider was called for: after an answer, a fatal or a    *)
(* foreign error or a cancellation none is made; another provider is asked   *)
(* only when the one before it cannot serve the request or has used up its   *)
(* retries; and no provider is asked more often than that.                   *)
EveryCallIsDue ==
  \A i \in DOMAIN log :
    /\ log[i][1] \in Capable
    /\ Cardinality(Calls(log[i][1])) <= IF asked = "generate" THEN 1 + MaxRetries ELSE 1
    /\ i < Len(log) =>
         /\ log[i][2] \in {"retryable", "next"}
         /\ log[i][1] # log[i + 1][1] =>
              \/ log[i][2] = "next" \/ asked = "stream"
              \/ Cardinality(Calls(log[i][1])) = 1 + MaxRetries
=============================================================================
