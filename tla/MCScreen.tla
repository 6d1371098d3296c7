-------------------------------- MODULE MCScreen --------------------------------
(* ScreenMonitoring as TLC checks it: an editor that shows code or a password, a private
   window, a school task and a screen without any hint. *)
EXTENDS ScreenMonitoring, TLC

MCScreens == {"bank", "vault", "code", "essay", "desk"}
MCWindow == [s \in MCScreens |-> IF s \in {"vault", "code"} THEN "editor" ELSE s]
MCPrivate == {"bank"}
MCSecret == {"vault"}
Hits(school, business, coding) ==
  "school" :> school @@ "business" :> business @@ "coding" :> coding
Same(matches) == [read \in BOOLEAN |-> matches]
MCMatches ==
  "bank" :> Same(Hits(0, 1, 0)) @@ "vault" :> Same(Hits(0, 0, 1))
  @@ "essay" :> Same(Hits(1, 1, 0)) @@ "desk" :> Same(Hits(0, 0, 0))
  @@ "code" :> [read \in BOOLEAN |-> IF read THEN Hits(0, 2, 1) ELSE Hits(0, 0, 1)]
=============================================================================
