----------------------------- MODULE StoryCanon -----------------------------
(***************************************************************************)
(* What a scene production promises of its canon: of the scenes drafted for *)
(* a story, some become canonical one after the other, each first entered   *)
(* in the Story Bible and then accepted; nothing drafted is lost, nothing   *)
(* canonical is ever changed or withdrawn, and a production is complete     *)
(* only with all of its scenes.                                             *)
(***************************************************************************)
EXTENDS Integers, Sequences

CONSTANT NumUnits

VARIABLES
  drafts,   \* the scenes drafted so far
  canon,    \* the accepted scenes
  bible,    \* the scenes the current Story Bible lists
  complete

vars == <<drafts, canon, bible, complete>>

Init == drafts = {} /\ canon = << >> /\ bible = << >> /\ complete = FALSE

Draft ==
  /\ drafts \subseteq drafts'
  /\ UNCHANGED <<canon, bible, complete>>

Enter ==
  /\ bible = canon /\ Len(canon) < NumUnits
  /\ \E s \in drafts \ {canon[i] : i \in DOMAIN canon} : bible' = Append(canon, s)
  /\ UNCHANGED <<drafts, canon, complete>>

Accept ==
  /\ bible # canon
  /\ canon' = bible
  /\ UNCHANGED <<drafts, bible, complete>>

Complete ==
  /\ Len(canon) = NumUnits /\ bible = canon
  /\ complete' = TRUE
  /\ UNCHANGED <<drafts, canon, bible>>

Next == Draft \/ Enter \/ Accept \/ Complete
Spec == Init /\ [][Next]_vars
=============================================================================
