------------------------------ MODULE MCPopup ------------------------------
(* A popup and a side panel over one vault, which may be there already.      *)
EXTENDS Popup

CONSTANTS popup, panel, minted1, phrase, typo, long, pw1, wrong

MCFirsts == {None, [seed |-> phrase, pw |-> pw1]}

\* Of a phrase of 24 words the first twelve, which are no phrase.
MCKept == [t \in Typed |-> IF t = long THEN typo ELSE t]

MCUses ==
    (popup :> {"lock", "settings", "close"}) @@ (panel :> {"create", "import", "backup"})
MCMaxJobs == (popup :> 2) @@ (panel :> 1)
MCMaxPolls == (popup :> 2) @@ (panel :> 1)

=============================================================================
