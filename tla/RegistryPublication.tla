------------------------- MODULE RegistryPublication -------------------------
(***************************************************************************)
(* What the full-corpus extraction script promises of the obligation       *)
(* registry (docstring of scripts/extract_obligations_full.py): readers    *)
(* see, for every document, the complete registry of one corpus, and all   *)
(* documents move to a corpus that was never published before in one step. *)
(***************************************************************************)
CONSTANTS Documents, Corpora, FirstCorpus

VARIABLES
  version,   \* the corpus whose rows are active, by document
  published  \* the corpora that have been published

Init ==
  /\ version = [d \in Documents |-> FirstCorpus]
  /\ published = {FirstCorpus}

Publish(c) ==
  /\ c \notin published
  /\ version' = [d \in Documents |-> c]
  /\ published' = published \cup {c}

Next == \E c \in Corpora : Publish(c)

Spec == Init /\ [][Next]_<<version, published>>
=============================================================================
