----------------------------- MODULE MCDiagnostics -----------------------------
(* Diagnostics over all short texts with no listing, and all short listings    *)
(* with no text.                                                               *)
EXTENDS Diagnostics, SequencesExt

CONSTANTS MaxText, MaxListing

MCInputs ==
    {[text |-> t, listing |-> <<>>] :
        t \in BoundedSeq(Characters, MaxText)} \cup
    {[text |-> <<>>, listing |-> l] :
        l \in {l \in BoundedSeq(Blocks, MaxListing) :
                    l # <<>> => Head(l) # "blank" /\ Last(l) # "blank"}}
=============================================================================
