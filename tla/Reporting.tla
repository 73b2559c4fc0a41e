------------------------------ MODULE Reporting ------------------------------
(* The narrator: the message for the language model, two attempts at it, and *)
(* the deterministic fallback.                                               *)
EXTENDS BuildingData

(* _finding_payload() reads the limits of every finding's confidence band; a *)
(* finding without one raises, outside any try.                              *)
MessageBuilds(found) == \A f \in found : f.band # None

Confidence(f) == IF f.confidence = None THEN 0 ELSE f.confidence

(* The fallback's lead is a finding of the highest confidence.               *)
Leads(found) == {f \in found : \A g \in found : Confidence(g) <= Confidence(f)}

(* The confidence note comes from the first open finding that justifies the  *)
(* scenario, or from the lead where none does.                               *)
NoteOf(s, found, lead) ==
    LET own == {f \in found : \E j \in s.justifying : j.id = f.id}
    IN  IF own = {} THEN lead ELSE CHOOSE f \in own : \A g \in own : f.id >= g.id

(* FallbackNarrator.generate(): one action per passed scenario; a lead with  *)
(* attributions gets an action of its own when there is no scenario.         *)
Fallback(found, scenarios, lead) ==
    LET passed == {s \in scenarios : s.status = "passed"}
        Action(model, cited, note, payback) ==
            [model |-> model, cites |-> {f.id : f \in cited}, note |-> note.id,
             payback |-> payback]
    IN  IF passed = {} /\ lead.layer = "ml_ensemble"
        THEN {Action("investigate", {lead}, lead, 0)}
        ELSE {Action(s.model, s.justifying, NoteOf(s, found, lead), s.payback) : s \in passed}
=============================================================================
