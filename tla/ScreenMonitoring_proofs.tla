------------------------ MODULE ScreenMonitoring_proofs ------------------------
(***************************************************************************)
(* Safety of ScreenMonitoring for every set of screens, every window and   *)
(* text that is private, and whatever terms are found.                     *)
(*                                                                         *)
(* MonitorInv is inductive.  A suggestion that stays because the debouncer *)
(* keeps quiet stays true, as the debouncer's key names it (KeyInv); and   *)
(* nothing is in OCR while monitoring is off, unless it was in OCR when    *)
(* monitoring was turned off (InFlightInv).                                *)
(***************************************************************************)
EXTENDS ScreenMonitoring, TLAPS

\* The debouncer's key is of the suggestion that is shown.
KeyInv == suggestion # "none" => lastKey # <<>> /\ lastKey[1] = suggestion

\* What OCR works on after monitoring was turned off, it did before.
InFlightInv == gate = "off" /\ tick = "reading" => caught = "reading"

MonitorInv == TypeOK /\ KeyInv /\ InFlightInv /\ SuggestionFitsScreen /\ OffForgets

-----------------------------------------------------------------------------
(* The operators *)

\* A kind that is suggested is found, and no other kind is found more often; where none is
\* suggested, none is found.
LEMMA AnalyseFindsMost ==
  ASSUME NEW o \in Observations
  PROVE  LET matches == Matches[o.screen][o.read]
             kind == Analyse(o)
         IN  /\ kind \in Kinds \cup {"none"}
             /\ kind # "none" => matches[kind] > 0 /\ \A k \in Kinds : matches[k] <= matches[kind]
             /\ kind = "none" => \A k \in Kinds : matches[k] = 0
<1> DEFINE matches == Matches[o.screen][o.read]
<1>1. matches \in [Kinds -> Nat]
  BY MatchesAssumption DEF Observations
<1>2. /\ matches["school"] \in Nat /\ matches["business"] \in Nat /\ matches["coding"] \in Nat
      /\ Kinds = {"school", "business", "coding"}
  BY <1>1 DEF Kinds
<1>3. CASE \E k \in Kinds : matches[k] > 0
  <2> DEFINE Most(k) == matches[k] > 0 /\ \A other \in Kinds : matches[other] <= matches[k]
  <2>1. Most("school") \/ Most("business") \/ Most("coding")
    BY <1>2, <1>3
  <2>2. Analyse(o) \in Kinds /\ Most(Analyse(o))
    BY <1>2, <2>1 DEF Analyse
  <2>3. Analyse(o) # "none"
    BY <2>2 DEF Kinds
  <2> QED
    BY <2>2, <2>3
<1>4. CASE \A k \in Kinds : matches[k] = 0
  BY <1>2, <1>4 DEF Analyse
<1> QED
  BY <1>2, <1>3, <1>4

\* What a capture returns, and what OCR makes of it, is an observation.
LEMMA ObservationType ==
  /\ NoObservation \notin Observations
  /\ \A s \in Screens : Raw(s) \in Observations
  /\ \A o \in Observations, read \in BOOLEAN : Enriched(o, read) \in Observations
BY ScreenAssumption DEF NoObservation, Observations, Raw, Enriched

-----------------------------------------------------------------------------
(* The steps *)

\* With monitoring off and nothing seen the invariant holds.
LEMMA InitSafe == Init => MonitorInv
BY ObservationType DEF Init, MonitorInv, TypeOK, KeyInv, InFlightInv, SuggestionFitsScreen, OffForgets

\* What is concluded from an observation: whatever is shown afterwards is about it.
LEMMA ConcludeSafe ==
  ASSUME MonitorInv, NEW o \in Observations, Conclude(o)
  PROVE  /\ captureAt' = TRUE /\ blocked' \in BOOLEAN /\ seen' = o /\ cooling' \in BOOLEAN
         /\ suggestion' \in Kinds \cup {"none"} /\ decision' \in {"idle", "accepted", "dismissed"}
         /\ lastKey' \in (Kinds \X {Window[s] : s \in Screens}) \cup {<<>>}
         /\ KeyInv' /\ SuggestionFitsScreen'
<1> DEFINE kind == Analyse(o)
<1>1. captureAt' = TRUE /\ seen' = o /\ blocked' = Blocked(o) /\ blocked' \in BOOLEAN
  BY DEF Conclude, Blocked
<1>2. kind \in Kinds \cup {"none"} /\ Window[o.screen] \in {Window[s] : s \in Screens}
  BY AnalyseFindsMost DEF Observations
<1>3. CASE Blocked(o) \/ kind = "none"
  <2>1. suggestion' = "none" /\ decision' = "idle" /\ UNCHANGED <<lastKey, cooling>>
    BY <1>3 DEF Conclude, Clear
  <2> QED
    BY <1>1, <2>1 DEF MonitorInv, TypeOK, KeyInv, SuggestionFitsScreen
<1>4. CASE ~Blocked(o) /\ kind # "none" /\ ShouldShow(Key(kind, o))
  <2>1. /\ suggestion' = kind /\ decision' = "idle" /\ cooling' = TRUE
        /\ lastKey' = <<kind, Window[o.screen]>>
    BY <1>4 DEF Conclude, Publish, Key
  <2>2. lastKey' \in Kinds \X {Window[s] : s \in Screens}
    BY <1>2, <1>4, <2>1
  <2>3. SuggestionFitsScreen'
    BY <1>1, <1>4, <2>1, ObservationType DEF SuggestionFitsScreen, Blocked, Analyse
  <2> QED
    BY <1>1, <1>2, <1>4, <2>1, <2>2, <2>3 DEF KeyInv
<1>5. CASE ~Blocked(o) /\ kind # "none" /\ ~ShouldShow(Key(kind, o))
  <2>1. /\ UNCHANGED <<suggestion, decision, lastKey, cooling>>
        /\ lastKey = <<kind, Window[o.screen]>>
    BY <1>5 DEF Conclude, ShouldShow, Key
  <2>2. suggestion # "none" => suggestion = kind
    BY <2>1 DEF MonitorInv, KeyInv
  <2>3. SuggestionFitsScreen'
    BY <1>1, <1>5, <2>1, <2>2, ObservationType DEF SuggestionFitsScreen, Blocked, Analyse
  <2> QED
    BY <1>1, <2>1, <2>3 DEF MonitorInv, TypeOK, KeyInv
<1> QED
  BY <1>3, <1>4, <1>5

\* A capture that returns is concluded, given to OCR or dropped; only the last while off.
LEMMA CapturedSafe == ASSUME MonitorInv, NEW s \in Screens, Captured(s) PROVE MonitorInv'
<1>1. /\ tick = "capturing" /\ UNCHANGED <<gate, ocr, caught>> /\ captured = NoObservation
      /\ Raw(s) \in Observations /\ Raw(s) # NoObservation
  BY ObservationType DEF Captured, MonitorInv, TypeOK
<1>2. CASE ~IsOn /\ tick' = "idle" /\ UNCHANGED <<captured, shown>>
  BY <1>1, <1>2 DEF shown, MonitorInv, TypeOK, KeyInv, InFlightInv, SuggestionFitsScreen, OffForgets
<1>3. CASE IsOn /\ Conclude(Raw(s)) /\ tick' = "idle" /\ UNCHANGED captured
  <2>1. gate' = "on"
    BY <1>1, <1>3 DEF IsOn
  <2>2. /\ captureAt' = TRUE /\ blocked' \in BOOLEAN /\ seen' = Raw(s) /\ cooling' \in BOOLEAN
        /\ suggestion' \in Kinds \cup {"none"} /\ decision' \in {"idle", "accepted", "dismissed"}
        /\ lastKey' \in (Kinds \X {Window[t] : t \in Screens}) \cup {<<>>}
        /\ KeyInv' /\ SuggestionFitsScreen'
    BY <1>1, <1>3, ConcludeSafe
  <2>3. TypeOK'
    BY <1>1, <1>3, <2>1, <2>2 DEF MonitorInv, TypeOK
  <2> QED
    BY <1>3, <2>1, <2>2, <2>3 DEF MonitorInv, InFlightInv, OffForgets
<1>4. CASE IsOn /\ tick' = "reading" /\ captured' = Raw(s) /\ UNCHANGED shown
  <2>1. gate' = "on"
    BY <1>1, <1>4 DEF IsOn
  <2>2. TypeOK'
    BY <1>1, <1>4 DEF shown, MonitorInv, TypeOK
  <2> QED
    BY <1>4, <2>1, <2>2
       DEF shown, MonitorInv, KeyInv, InFlightInv, SuggestionFitsScreen, OffForgets
<1> QED
  BY <1>2, <1>3, <1>4 DEF Captured

\* What OCR has read is concluded also while off, and only if it was in OCR before.
LEMMA ReadSafe == ASSUME MonitorInv, NEW read \in BOOLEAN, Read(read) PROVE MonitorInv'
<1> DEFINE o == Enriched(captured, read)
<1>1. /\ tick = "reading" /\ tick' = "idle" /\ captured' = NoObservation
      /\ UNCHANGED <<gate, ocr, caught>> /\ Conclude(o)
  BY DEF Read
<1>2. o \in Observations
  BY <1>1, ObservationType DEF MonitorInv, TypeOK
<1>3. /\ captureAt' = TRUE /\ blocked' \in BOOLEAN /\ seen' = o /\ cooling' \in BOOLEAN
      /\ suggestion' \in Kinds \cup {"none"} /\ decision' \in {"idle", "accepted", "dismissed"}
      /\ lastKey' \in (Kinds \X {Window[s] : s \in Screens}) \cup {<<>>}
      /\ KeyInv' /\ SuggestionFitsScreen'
  BY <1>1, <1>2, ConcludeSafe
<1> HIDE DEF o
<1>4. TypeOK'
  BY <1>1, <1>2, <1>3 DEF MonitorInv, TypeOK
<1>5. InFlightInv' /\ OffForgets'
  BY <1>1 DEF MonitorInv, InFlightInv, OffForgets
<1> QED
  BY <1>3, <1>4, <1>5 DEF MonitorInv

\* Turning on or off clears what is shown; turning off notes what is in flight.
LEMMA ToggleSafe == ASSUME MonitorInv, TurnOn \/ TurnOff PROVE MonitorInv'
<1>1. /\ tick # "gone" /\ lastKey' = <<>> /\ cooling' = FALSE /\ suggestion' = "none"
      /\ decision' = "idle" /\ blocked' = FALSE /\ seen' = NoObservation
      /\ UNCHANGED <<captured, ocr>>
  BY DEF TurnOn, TurnOff, ResetDebouncer, Clear
<1>2. CASE TurnOn
  <2>1. /\ gate' = "on" /\ tick' = (IF ~IsOn /\ tick = "idle" THEN "capturing" ELSE tick)
        /\ UNCHANGED <<captureAt, caught>>
    BY <1>2 DEF TurnOn, Enable
  <2> QED
    BY <1>1, <2>1 DEF MonitorInv, TypeOK, KeyInv, InFlightInv, SuggestionFitsScreen, OffForgets
<1>3. CASE TurnOff
  <2>1. gate' = "off" /\ caught' = tick /\ tick' = tick /\ captureAt' = FALSE
    BY <1>3 DEF TurnOff, Disable
  <2> QED
    BY <1>1, <2>1 DEF MonitorInv, TypeOK, KeyInv, InFlightInv, SuggestionFitsScreen, OffForgets
<1> QED
  BY <1>2, <1>3

\* The other steps show nothing, and bring nothing to OCR.
LEMMA QuietSafe ==
  ASSUME MonitorInv, Tick \/ CaptureFails \/ Probe \/ Decide \/ CoolDown \/ UNCHANGED vars
  PROVE  MonitorInv'
<1>1. /\ UNCHANGED <<gate, captured, suggestion, lastKey, captureAt, blocked, seen, caught>>
      /\ tick' = tick \/ (IsOn /\ tick = "idle" /\ tick' = "capturing")
                     \/ (tick = "capturing" /\ tick' = "gone")
      /\ ocr' \in {"disabled", "untried", "available", "missing"}
      /\ decision' \in {"idle", "accepted", "dismissed"} /\ cooling' \in BOOLEAN
  BY DEF Tick, CaptureFails, Probe, Decide, Answer, CoolDown, vars, shown, monitor, MonitorInv, TypeOK
<1>2. TypeOK'
  BY <1>1 DEF MonitorInv, TypeOK
<1>3. KeyInv' /\ InFlightInv' /\ SuggestionFitsScreen' /\ OffForgets'
  BY <1>1 DEF MonitorInv, KeyInv, InFlightInv, SuggestionFitsScreen, OffForgets
<1> QED
  BY <1>2, <1>3 DEF MonitorInv

-----------------------------------------------------------------------------
(* The theorems *)

\* What the monitor rests on: MonitorInv holds in every reachable state.
THEOREM MonitorInvariant == Spec => []MonitorInv
<1>1. ASSUME MonitorInv, [Next]_vars PROVE MonitorInv'
  <2>1. ASSUME NEW s \in Screens, Captured(s) PROVE MonitorInv'
    BY <1>1, <2>1, CapturedSafe
  <2>2. ASSUME NEW read \in BOOLEAN, Read(read) PROVE MonitorInv'
    BY <1>1, <2>2, ReadSafe
  <2> QED
    BY <1>1, <2>1, <2>2, ToggleSafe, QuietSafe DEF Next
<1> QED
  BY InitSafe, <1>1, PTL DEF Spec

\* Every variable keeps its type.
THEOREM Typing == Spec => []TypeOK
<1>1. MonitorInv => TypeOK
  BY DEF MonitorInv
<1> QED
  BY <1>1, MonitorInvariant, PTL

\* Whatever is toggled and answered while a capture or OCR is at work, a suggestion is about
\* the screen processed last, and that screen was let through.
THEOREM SuggestionsFit == Spec => []SuggestionFitsScreen
<1>1. MonitorInv => SuggestionFitsScreen
  BY DEF MonitorInv
<1> QED
  BY <1>1, MonitorInvariant, PTL

\* Off forgets what was seen, but for what was in OCR when it was turned off.
THEOREM OffKeepsNothing == Spec => []OffForgets
<1>1. MonitorInv => OffForgets
  BY DEF MonitorInv
<1> QED
  BY <1>1, MonitorInvariant, PTL

=============================================================================
