--------------------------- MODULE MCExportPublish ---------------------------
(* Model-checking constants of ExportPublish. *)
EXTENDS ExportPublish

CONSTANTS review, pin, policy, approval   \* edits, one of each kind

MCPartOf == [c \in Changes |-> IF c = pin THEN "pins"
                               ELSE IF c = policy THEN "policy" ELSE "reviews"]
=============================================================================
