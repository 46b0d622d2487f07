------------------------------- MODULE MCHost -------------------------------
(***************************************************************************)
(* The run of Host. The store, the files under /etc, torrc and the onion   *)
(* key meet only in the programs that touch all of them, so that what      *)
(* people do to them between installs is done to one of them at a time.    *)
(***************************************************************************)
EXTENDS Host, FiniteSets

FilesUsed == \/ ships > 0 \/ etc["gateway"] # None
             \/ \E f \in Files : etc[f] # None /\ etc[f].hand
Used == (IF (acked \cap Records) # {} \/ disk # {} \/ backend \notin {None, {}} THEN {"store"} ELSE {})
          \cup (IF FilesUsed THEN {"files"} ELSE {})
          \cup (IF edits > 0 /\ ~FilesUsed THEN {"torrc"} ELSE {})
          \cup (IF onion \in Vanity THEN {"key"} ELSE {})

Apart ==
    /\ Cardinality(Used) <= 1
    /\ failures + reboots <= 1
    /\ fresh => run = "none" \/ at \in {"timer", "check"}
=============================================================================
