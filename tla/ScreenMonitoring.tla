---------------------------- MODULE ScreenMonitoring ----------------------------
(***************************************************************************)
(* The screen monitor of the web server and the suggestions made from it.  *)
(*                                                                         *)
(* A timer captures the screen while the gate is on; what is captured goes *)
(* through the privacy filter, OCR and the filter again, and what is left  *)
(* may become a suggestion (agent/vision, app/local-web-server.ts).        *)
(* Capture and OCR are other processes: the user can turn monitoring off   *)
(* and on, and answer a suggestion, while one of them is at work.          *)
(***************************************************************************)
EXTENDS Naturals

CONSTANTS
  Screens,   \* what the screen may show
  Window,    \* Window[s]: title and application in front
  Private,   \* the windows the filter blocks
  Secret,    \* the screens with a text the filter blocks once it has been read
  Matches    \* Matches[s][read][k]: how many of the terms of kind k the observation has

Observations == [screen : Screens, read : BOOLEAN]
NoObservation == [screen |-> "none", read |-> FALSE]
Kinds == {"school", "business", "coding"}

ASSUME ScreenAssumption == "none" \notin Screens

ASSUME MatchesAssumption == Matches \in [Screens -> [BOOLEAN -> [Kinds -> Nat]]]

VARIABLES
  gate,        \* "on" or "off"; the interval timer exists exactly while it is on
  tick,        \* where the tick in flight is: "idle" is captureInFlight = false
  captured,    \* the observation it has in OCR
  ocr,         \* the OCR provider; its first probe decides for good
  suggestion, decision,   \* ScreenSuggestionController
  lastKey, cooling,       \* ScreenSuggestionDebouncer; `cooling` for the cooldown
  captureAt, blocked,     \* latestScreenCaptureAt is set; latestScreenPrivacyBlocked
  seen,        \* history: the last observation processed since monitoring was toggled
  caught       \* history: where the tick was when monitoring was last turned off

monitor == <<gate, tick, captured>>
shown == <<suggestion, decision, lastKey, cooling, captureAt, blocked, seen>>
vars == <<gate, tick, captured, ocr, suggestion, decision, lastKey, cooling,
          captureAt, blocked, seen, caught>>

Init ==
  /\ gate = "off" /\ tick = "idle" /\ captured = NoObservation
  /\ ocr \in {"disabled", "untried"}
  /\ suggestion = "none" /\ decision = "idle"
  /\ lastKey = <<>> /\ cooling = FALSE
  /\ captureAt = FALSE /\ blocked = FALSE
  /\ seen = NoObservation /\ caught = "idle"

-----------------------------------------------------------------------------
(* Filter, suggestions, debouncer *)

\* Mutant: the text is looked at only before OCR, when there is none.
BlockedByWindow(o) == Window[o.screen] \in Private

Blocked(o) == Window[o.screen] \in Private \/ (o.read /\ o.screen \in Secret)

\* What a capture returns: window and picture, no text yet.
Raw(s) == [screen |-> s, read |-> FALSE]

\* enrichScreenObservation: with the text OCR has found, if it found any.
Enriched(o, read) == [o EXCEPT !.read = read]

\* ScreenContextAssistant.analyse: the kind with most matches, in the order of its table.
Analyse(o) ==
  LET matches == Matches[o.screen][o.read]
      Most(k) == matches[k] > 0 /\ \A other \in Kinds : matches[other] <= matches[k]
  IN  IF Most("school") THEN "school" ELSE IF Most("business") THEN "business"
      ELSE IF Most("coding") THEN "coding" ELSE "none"

Clear == suggestion' = "none" /\ decision' = "idle"
Publish(kind) == suggestion' = kind /\ decision' = "idle"

Key(kind, o) == <<kind, Window[o.screen]>>

ShouldShow(key) == key # lastKey \/ ~cooling

ResetDebouncer == lastKey' = <<>> /\ cooling' = FALSE

\* onObservation, once OCR has answered.
Conclude(o) ==
  LET kind == Analyse(o) IN
  /\ captureAt' = TRUE /\ seen' = o /\ blocked' = Blocked(o)
  /\ IF ~Blocked(o) /\ kind # "none"
     THEN IF ShouldShow(Key(kind, o))
          THEN /\ Publish(kind)
               /\ lastKey' = Key(kind, o) /\ cooling' = TRUE
          ELSE UNCHANGED <<suggestion, decision, lastKey, cooling>>
     ELSE Clear /\ UNCHANGED <<lastKey, cooling>>

-----------------------------------------------------------------------------
(* The monitor *)

IsOn == gate = "on"

\* ScreenOcrPipeline.process: what is given to OCR, rather than concluded at once.
GoesToOcr(o) == ~Blocked(o) /\ ocr \in {"untried", "available"}

\* The interval timer: at most one tick at a time.
Tick ==
  /\ IsOn /\ tick = "idle"
  /\ tick' = "capturing"
  /\ UNCHANGED <<gate, captured, ocr, shown, caught>>

\* Mutant: whether monitoring is still on is not asked.
CapturedAnyhow(s) ==
  /\ tick = "capturing"
  /\ IF GoesToOcr(Raw(s))
     THEN /\ tick' = "reading" /\ captured' = Raw(s)
          /\ UNCHANGED shown
     ELSE /\ Conclude(Raw(s))
          /\ tick' = "idle" /\ UNCHANGED captured
  /\ UNCHANGED <<gate, ocr, caught>>

\* The capture returns: dropped when monitoring is off by now, concluded when it is blocked
\* or there is no OCR, and given to OCR otherwise.
Captured(s) ==
  /\ tick = "capturing"
  /\ \/ /\ ~IsOn
        /\ tick' = "idle" /\ UNCHANGED <<captured, shown>>
     \/ /\ IsOn /\ ~GoesToOcr(Raw(s))
        /\ Conclude(Raw(s))
        /\ tick' = "idle" /\ UNCHANGED captured
     \/ /\ IsOn /\ GoesToOcr(Raw(s))
        /\ tick' = "reading" /\ captured' = Raw(s)
        /\ UNCHANGED shown
  /\ UNCHANGED <<gate, ocr, caught>>

\* The capture fails: nobody handles the rejection of tick, and the process ends with it.
CaptureFails ==
  /\ tick = "capturing"
  /\ tick' = "gone"
  /\ UNCHANGED <<gate, captured, ocr, shown, caught>>

\* The probe of the OCR program ends, for a tick or for /api/status, or times out.
Probe ==
  /\ ocr = "untried" /\ tick # "gone"
  /\ ocr' \in {"available", "missing"}
  /\ UNCHANGED <<monitor, shown, caught>>

\* Mutant: an observation that OCR fails on stays in flight.
ReadOnly(read) ==
  /\ tick = "reading" /\ ocr = "available" /\ read
  /\ Conclude(Enriched(captured, read))
  /\ tick' = "idle" /\ captured' = NoObservation
  /\ UNCHANGED <<gate, ocr, caught>>

\* OCR has read the text, or found none, failed or timed out.  The gate is not asked again.
Read(read) ==
  /\ tick = "reading" /\ ocr # "untried" /\ (read => ocr = "available")
  /\ Conclude(Enriched(captured, read))
  /\ tick' = "idle" /\ captured' = NoObservation
  /\ UNCHANGED <<gate, ocr, caught>>

-----------------------------------------------------------------------------
(* The requests *)

\* enable makes the first tick, unless one of before is in flight yet.
Enable ==
  /\ gate' = "on"
  /\ tick' = IF ~IsOn /\ tick = "idle" THEN "capturing" ELSE tick

\* disable takes the interval away; what is in flight goes on.
Disable == gate' = "off" /\ caught' = tick /\ UNCHANGED tick

\* POST /api/screen/on
TurnOn ==
  /\ tick # "gone"
  /\ ResetDebouncer /\ Clear
  /\ blocked' = FALSE /\ seen' = NoObservation
  /\ Enable
  /\ UNCHANGED <<captured, ocr, captureAt, caught>>

\* POST /api/screen/off
TurnOff ==
  /\ tick # "gone"
  /\ Disable
  /\ ResetDebouncer /\ Clear
  /\ captureAt' = FALSE /\ blocked' = FALSE /\ seen' = NoObservation
  /\ UNCHANGED <<captured, ocr>>

\* accept and dismiss do nothing where there is no suggestion.
Answer == suggestion # "none" /\ decision' \in {"accepted", "dismissed"}

\* POST /api/screen/suggestion/accept and dismiss: of whatever suggestion there is by then.
Decide ==
  /\ tick # "gone" /\ Answer
  /\ UNCHANGED <<monitor, ocr, suggestion, lastKey, cooling, captureAt, blocked, seen, caught>>

\* The cooldown of the last suggestion passes.
CoolDown ==
  /\ cooling /\ cooling' = FALSE
  /\ UNCHANGED <<monitor, ocr, suggestion, decision, lastKey, captureAt, blocked, seen, caught>>

Next ==
  \/ Tick \/ CaptureFails \/ Probe
  \/ \E s \in Screens : Captured(s)
  \/ \E read \in BOOLEAN : Read(read)
  \/ TurnOn \/ TurnOff \/ Decide \/ CoolDown

\* The interval timer; capture, probe and OCR are run with a timeout.
Fairness ==
  /\ WF_vars(Tick) /\ WF_vars(Probe)
  /\ WF_vars(CaptureFails \/ \E s \in Screens : Captured(s))
  /\ WF_vars(\E read \in BOOLEAN : Read(read))

Spec == Init /\ [][Next]_vars
FairSpec == Spec /\ Fairness

-----------------------------------------------------------------------------
(* Properties *)

\* The type of every variable.
TypeOK ==
  /\ gate \in {"on", "off"}
  /\ tick \in {"idle", "capturing", "reading", "gone"}
  /\ captured \in Observations \cup {NoObservation}
  /\ captured # NoObservation <=> tick = "reading"
  /\ ocr \in {"disabled", "untried", "available", "missing"}
  /\ suggestion \in Kinds \cup {"none"}
  /\ decision \in {"idle", "accepted", "dismissed"}
  /\ lastKey \in (Kinds \X {Window[s] : s \in Screens}) \cup {<<>>}
  /\ cooling \in BOOLEAN /\ captureAt \in BOOLEAN /\ blocked \in BOOLEAN
  /\ seen \in Observations \cup {NoObservation}
  /\ caught \in {"idle", "capturing", "reading"}

\* A suggestion that is offered is about the screen that was processed last and was let
\* through, although the debouncer and the controller remember different things.
SuggestionFitsScreen ==
  suggestion # "none" =>
    /\ seen # NoObservation /\ ~blocked
    /\ Window[seen.screen] \notin Private /\ (seen.read => seen.screen \notin Secret)
    /\ suggestion = Analyse(seen)

\* While monitoring is off nothing that came from the screen is kept, except what was in
\* OCR at the moment it was turned off.
OffForgets ==
  gate = "off" /\ caught # "reading" =>
    suggestion = "none" /\ lastKey = <<>> /\ ~captureAt /\ ~blocked

\* Monitoring goes on while it is on: no answer that stays away and no toggling leaves a
\* tick in flight for good, or the monitor without ticks.
MonitoringGoesOn ==
  []<>(tick \in {"idle", "gone"}) /\ []<>(gate = "off" \/ tick # "idle")

\* ScreenObservation.ts:22: implementations "must not capture, OCR, upload or retain screen
\* data while disabled".
OffRetainsNothing == gate = "off" => suggestion = "none" /\ ~captureAt

=============================================================================
