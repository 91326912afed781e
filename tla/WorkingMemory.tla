---------------------------- MODULE WorkingMemory ----------------------------
(* Tier 1 of the memory: the bounded window of recent messages               *)
(* (memory/working/window.py, buffer.py), which evicts messages of low       *)
(* priority first and keeps a trace of what it evicted in its summary.       *)
EXTENDS Naturals, Sequences, FiniteSets, SequencesExt

CONSTANTS
  Messages,     \* what may be said, each once
  Tokens,       \* message -> its estimated tokens
  Vital,        \* those of a priority that reaches the threshold
  Fleeting,     \* those that expire
  MaxMessages, MaxTokens

ASSUME WindowAssumption ==
  /\ Tokens \in [Messages -> Nat] /\ Vital \subseteq Messages
  /\ Fleeting \subseteq Messages /\ MaxMessages \in Nat /\ MaxTokens \in Nat

VARIABLES
  window,   \* WorkingBuffer._messages
  summary,  \* the messages whose snippet went into the summary
  stale,    \* the messages whose expires_at has passed
  said,     \* history: what was appended, in order
  context   \* the system and the task context are set

windowVars == <<window, summary, stale, said, context>>

WindowInit ==
  /\ window = <<>> /\ summary = {} /\ stale = {} /\ said = <<>>
  /\ context = [system |-> FALSE, task |-> FALSE]

(* Those of s that are in S, in their order: a list comprehension.           *)
Kept(s, S) ==
  LET kept[i \in 0 .. Len(s)] ==
        IF i = 0 THEN <<>>
        ELSE IF s[i] \in S THEN Append(kept[i - 1], s[i]) ELSE kept[i - 1]
  IN  kept[Len(s)]

Total(w) ==
  LET total[i \in 0 .. Len(w)] == IF i = 0 THEN 0 ELSE total[i - 1] + Tokens[w[i]]
  IN  total[Len(w)]

Fits(w) == Len(w) <= MaxMessages /\ Total(w) <= MaxTokens
Fresh(w) == Kept(w, Messages \ stale)

(* The threshold protects only among the newest.                             *)
Mutant_Victim(w) == Head(w)

(* The oldest message below the threshold, or else the oldest of all.        *)
Victim(w) ==
  LET low == Kept(w, Messages \ Vital) IN IF low = <<>> THEN Head(w) ELSE Head(low)

Evict(w) == Kept(w, Messages \ {Victim(w)})

(* One eviction for each append.                                             *)
Mutant_Bounded(w) == IF Fits(w) THEN w ELSE Evict(w)

(* The loop of _enforce_bounds: after k rounds, of at most one a message.    *)
Bounded(w) ==
  LET after[k \in 0 .. Len(w)] ==
        IF k = 0 THEN w
        ELSE IF Fits(after[k - 1]) THEN after[k - 1] ELSE Evict(after[k - 1])
  IN  after[Len(w)]

(* _enforce_bounds, once the expired messages are gone.                      *)
Enforce(w) ==
  /\ window' = Bounded(Fresh(w))
  /\ summary' = summary \cup (ToSet(Fresh(w)) \ ToSet(Bounded(Fresh(w))))

AppendMessage(m) ==
  /\ m \notin ToSet(said)
  /\ said' = Append(said, m)
  /\ Enforce(Append(window, m))
  /\ UNCHANGED <<stale, context>>

(* get_recent_messages and get_messages_within_tokens.                       *)
ReadRecent ==
  /\ window' = Fresh(window)
  /\ UNCHANGED <<summary, stale, said, context>>

MessageExpires(m) ==
  /\ m \in Fleeting \ stale /\ m \in ToSet(said)
  /\ stale' = stale \cup {m}
  /\ UNCHANGED <<window, summary, said, context>>

SetContext(slot, isSet) ==
  /\ context' = [context EXCEPT ![slot] = isSet]
  /\ UNCHANGED <<window, summary, stale, said>>

ClearWindow ==
  /\ window' = <<>> /\ summary' = {} /\ context' = [context EXCEPT !.task = FALSE]
  /\ UNCHANGED <<stale, said>>

WindowNext ==
  \/ \E m \in Messages : AppendMessage(m) \/ MessageExpires(m)
  \/ ReadRecent \/ ClearWindow
  \/ \E slot \in {"system", "task"}, isSet \in BOOLEAN : SetContext(slot, isSet)

WindowSpec == WindowInit /\ [][WindowNext]_windowVars

(* What get_messages_within_tokens returns: the newest messages that fit.    *)
WithinTokens(limit) ==
  LET w == Fresh(window)
      fitting == {k \in 0 .. Len(w) : Total(SubSeq(w, k + 1, Len(w))) <= limit}
  IN  SubSeq(w, (CHOOSE k \in fitting : \A i \in fitting : k <= i) + 1, Len(w))

-----------------------------------------------------------------------------
(* However appends, evictions and expiries alternate, the window keeps both  *)
(* of its limits and the order of what was said, and what it dropped for the *)
(* limits is in the summary and not in the window.                           *)
WindowKeepsLimits ==
  /\ Fits(window)
  /\ window = Kept(said, ToSet(window))
  /\ summary \cap ToSet(window) = {}
  /\ \A n \in 0 .. MaxTokens : IsSuffix(WithinTokens(n), Fresh(window))

(* docs/memory-architecture.md, line 43, "Preserves high-priority            *)
(* directives": a message that reaches the threshold is evicted only when    *)
(* nothing below it is left, and eviction stops as soon as the rest fits.    *)
VitalGoLast ==
  [][LET gone == summary' \ summary IN
       /\ gone \cap Vital # {} => ToSet(window') \subseteq Vital
       /\ gone # {} => \E m \in gone :
            ~Fits(Kept(said', {m} \cup ToSet(window')))]_windowVars
=============================================================================
