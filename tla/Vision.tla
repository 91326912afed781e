-------------------------------- MODULE Vision --------------------------------
(* Visual grounding: VisionManager (vision/manager.py) with its cache of     *)
(* observations, and TargetResolver over ElementMatcher (vision/grounding),  *)
(* which turn a description into the place to click.  Similarities, scores   *)
(* and confidences are in thousandths.  The cache holds whatever was on the  *)
(* screen when it was filled, so only its age is kept.                       *)
EXTENDS Integers, FiniteSets, FiniteSetsExt

CONSTANTS
  Elements,   \* what may be on a screen
  Look,       \* element -> what the matcher sees of it
  Named,      \* those whose element_id is asked for
  MaxSeen,    \* how many of them an observation may have, at most
  Thresholds, \* the min_confidence that is asked for
  TTL,        \* observation_ttl_sec, in ticks
  NoElement

(* sim: the best similarity of the query with label, OCR text and            *)
(* placeholder; asked: the type is among those the query hints at; left: the *)
(* center is left of, or above, the primary monitor.                         *)
Looks == [sim : 0 .. 1000, asked : BOOLEAN, clickable : BOOLEAN,
          confidence : 0 .. 1000, left : BOOLEAN]

ASSUME VisionAssumption ==
  /\ Look \in [Elements -> Looks] /\ MaxSeen \in Nat /\ TTL \in Nat
  /\ Thresholds \subseteq Nat /\ Named \subseteq Elements /\ NoElement \notin Elements

(* hints: the query names a type; presses: it says click, press or tap;      *)
(* words: something is left of it without such words; named: it is the       *)
(* element_id of this one.                                                   *)
Question == [hints : BOOLEAN, presses : BOOLEAN, words : BOOLEAN,
             ambiguous : BOOLEAN, threshold : Thresholds,
             named : Named \cup {NoElement}]

VARIABLES
  cached,  \* the age of the cached observation; TTL + 1: stale, or none
  sight,   \* the call: "idle", "analyzing", or an observation "in hand"
  seen,    \* the elements in hand: of the observation, those in the scope asked for
  age,     \* and its age
  ground   \* what the last step grounded

visionVars == <<cached, sight, seen, age, ground>>

Ungrounded ==
  [element |-> NoElement, ambiguous |-> FALSE, threshold |-> 0, named |-> NoElement]
Screens == UNION {kSubset(k, Elements) : k \in 0 .. MaxSeen}

VisionTypeOK ==
  /\ cached \in 0 .. TTL + 1 /\ age \in 0 .. TTL + 1
  /\ sight \in {"idle", "analyzing", "in hand"} /\ seen \subseteq Elements
  /\ ground \in [element : Elements \cup {NoElement}, ambiguous : BOOLEAN, threshold : Nat,
                 named : Elements \cup {NoElement}]

VisionInit ==
  /\ cached = TTL + 1 /\ sight = "idle" /\ seen = {} /\ age = 0
  /\ ground = Ungrounded

-----------------------------------------------------------------------------
(* score_element.                                                            *)
Adjusted(q, e) ==
  (IF ~q.hints THEN 0 ELSE IF Look[e].asked THEN 150 ELSE -200)
  + (IF q.presses /\ Look[e].clickable THEN 40 ELSE 0)

RawScore(q, e) ==
  LET s == Look[e].sim IN
    CASE s >= 950 -> 920 + (s - 950) + Adjusted(q, e)
      [] s \in 700 .. 949 -> 750 + (s - 700) \div 2 + Adjusted(q, e)
      [] s \in 350 .. 699 -> 400 + ((s - 350) * 4) \div 5 + Adjusted(q, e)
      [] s < 350 /\ q.hints /\ Look[e].asked -> 450 + Adjusted(q, e)
      [] OTHER -> (s * 2) \div 5 + (IF q.hints THEN -200 ELSE 0)

Score(q, e) ==
  IF e = q.named THEN 1000
  ELSE IF q.words /\ Look[e].sim < 250 THEN 0
  ELSE LET n == (RawScore(q, e) * Look[e].confidence) \div 1000 IN
         IF n < 0 THEN 0 ELSE IF n > 1000 THEN 1000 ELSE n

Matching(q, els) == {e \in els : Score(q, e) >= 300}

(* A runner-up close behind is overlooked.                                   *)
Mutant_Clear(q, best, els) ==
  \A e \in Matching(q, els) : Score(q, e) <= Score(q, best)

(* The best candidate is ahead of every other by more than                   *)
(* ambiguity_threshold_delta.                                                *)
Clear(q, best, els) ==
  \A e \in Matching(q, els) \ {best} : Score(q, best) - Score(q, e) > 80

(* resolve: an observation too old, too weak or too equal a match, or a      *)
(* place of negative coordinates is refused.                                 *)
Grounds(q, els, years) ==
  {best \in Matching(q, els) :
     /\ years <= TTL
     /\ \A e \in els : Score(q, e) <= Score(q, best)
     /\ Score(q, best) >= q.threshold
     /\ q.ambiguous \/ Clear(q, best, els)
     /\ ~Look[best].left}

(* A fresh cached observation is taken; its age is looked at once more.      *)
TakeCached(els) ==
  /\ sight = "idle" /\ cached <= TTL
  /\ sight' = "in hand" /\ seen' = els /\ age' = cached /\ ground' = Ungrounded
  /\ UNCHANGED cached

(* Otherwise, or with force_refresh, the screen is captured and analyzed.    *)
Analyze ==
  /\ sight = "idle" /\ sight' = "analyzing"
  /\ seen' = {} /\ age' = 0 /\ ground' = Ungrounded
  /\ UNCHANGED cached

(* The observation is dated when the analysis ends, goes into the cache, and *)
(* an event is published before it is used; or the provider fails.           *)
AnalysisEnds(els) ==
  /\ sight = "analyzing"
  /\ \/ sight' = "in hand" /\ seen' = els /\ cached' = 0
     \/ sight' = "idle" /\ UNCHANGED <<seen, cached>>
  /\ UNCHANGED <<age, ground>>

(* The age has been looked at in the cache.                                  *)
Mutant_Resolve(q) ==
  /\ sight = "in hand" /\ sight' = "idle"
  /\ \/ Grounds(q, seen, 0) = {} /\ ground' = Ungrounded
     \/ \E e \in Grounds(q, seen, 0) :
          ground' = [element |-> e, ambiguous |-> q.ambiguous, threshold |-> q.threshold,
                     named |-> q.named]
  /\ UNCHANGED <<cached, seen, age>>

Resolve(q) ==
  /\ sight = "in hand" /\ sight' = "idle"
  /\ \/ Grounds(q, seen, age) = {} /\ ground' = Ungrounded
     \/ \E e \in Grounds(q, seen, age) :
          ground' = [element |-> e, ambiguous |-> q.ambiguous, threshold |-> q.threshold,
                     named |-> q.named]
  /\ UNCHANGED <<cached, seen, age>>

(* Another caller's analysis ends.                                           *)
CacheRefreshed ==
  /\ cached' = 0 /\ ground' = Ungrounded
  /\ UNCHANGED <<sight, seen, age>>

Older(n) == IF n > TTL THEN n ELSE n + 1

Tick ==
  /\ cached' = Older(cached) /\ ground' = Ungrounded
  /\ age' = IF sight = "in hand" THEN Older(age) ELSE age
  /\ UNCHANGED <<sight, seen>>

VisionNext ==
  \/ \E els \in Screens : TakeCached(els) \/ AnalysisEnds(els)
  \/ \E q \in Question : Resolve(q)
  \/ Analyze \/ CacheRefreshed \/ Tick

VisionSpec == VisionInit /\ [][VisionNext]_visionVars

-----------------------------------------------------------------------------
(* What is grounded (resolver.py) comes from an observation within its time  *)
(* to live, however long the call was held up, and is not at negative        *)
(* coordinates.  Without allow_ambiguous an element that is asked for by its *)
(* id is the one that is grounded; when none is, no other element like it is *)
(* as similar to the query, although the score is not monotone: with a hint, *)
(* one of 0.25 to 0.35 gets more than one of 0.36 to 0.41, and bonuses are   *)
(* cut off at 1.  Below a threshold of 0.35 the more similar one may miss    *)
(* the candidates (0.3) and so the check for ambiguity; the default is 0.6.  *)
Alike(d, e) ==
  /\ Look[d].asked = Look[e].asked /\ Look[d].clickable = Look[e].clickable
  /\ Look[d].confidence = Look[e].confidence

GroundingIsBest ==
  ground.element # NoElement =>
    /\ age <= TTL /\ ground.element \in seen /\ ~Look[ground.element].left
    /\ ~ground.ambiguous =>
         IF ground.named \in seen THEN ground.element = ground.named
         ELSE ground.threshold >= 350 =>
           \A e \in seen \ {ground.element} :
             Alike(e, ground.element) => Look[e].sim < Look[ground.element].sim
=============================================================================
