---------------------------- MODULE MCSelfUpdate -----------------------------
(***************************************************************************)
(* The instance of SelfUpdate, and of what is fetched for it, in which     *)
(* updates follow one another. An archive is one of GitHub or of a peer,   *)
(* or one thing is wrong with it. The update check shares nothing with an  *)
(* update, and is followed while none was asked for.                       *)
(***************************************************************************)
EXTENDS Upstream, TLC

MCMaxEntries  == 2
MCMaxInflated == 2

OfPeer(v)   == [of |-> v, holds |-> {"files"}, count |-> 1, size |-> 1, whole |-> TRUE]
OfGitHub(v) == [OfPeer(v) EXCEPT !.holds = {"files", "folders", "outside", "data"}, !.size = 2]
Odd(a) == {[a EXCEPT !.whole = FALSE], [a EXCEPT !.count = MCMaxEntries + 1],
           [a EXCEPT !.size = MCMaxInflated + 1], [a EXCEPT !.holds = @ \cup {"escaping"}],
           [a EXCEPT !.holds = @ \ {"files"}], [a EXCEPT !.holds = @ \cup {"dotted"}]}

MCArchives == UNION {{OfPeer(v), OfGitHub(v)} : v \in Versions} \cup Odd(OfGitHub(Installed))

Quiet == \A u \in Updates : up[u] = Idle
Fresh == Clock = 1 /\ check = Nothing

Alone == ~overlapped /\ (Quiet \/ Fresh)

\* No property tells one update from another.
Symmetry == Permutations(Updates)
=============================================================================
