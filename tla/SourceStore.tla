----------------------------- MODULE SourceStore -----------------------------
(***************************************************************************)
(* What replacing an app's source promises: the store holds one version.  An *)
(* upload or a restore that opens either places its own version, in one      *)
(* step, or is dropped without having touched the store; and one upload is   *)
(* under way at a time.  A version that was placed is kept, for good, or,    *)
(* when what follows the placing fails, disowned: it stays in place, and     *)
(* only then may an earlier version, or what a failed removal has left of    *)
(* one, come back in its stead.                                              *)
(*                                                                         *)
(* The promise is made as long as the swaps are alone with the source.       *)
(***************************************************************************)
CONSTANTS Uploads, Restores, Original, Scraps

VARIABLES version, stage, alone

vars == <<version, stage, alone>>

Swappers == Uploads \cup Restores
UnderWay == {"open", "placed"}

Init ==
  /\ version = {Original}
  /\ stage = [p \in Swappers |-> "idle"]
  /\ alone = TRUE

Open(p) ==
  /\ stage[p] = "idle"
  /\ p \in Uploads => \A u \in Uploads : stage[u] \notin UnderWay
  /\ stage' = [stage EXCEPT ![p] = "open"]
  /\ UNCHANGED version

(* Refused: an upload while another is under way, a restore without source.  *)
Refuse(p) ==
  /\ stage[p] = "idle"
  /\ stage' = [stage EXCEPT ![p] = "dropped"]
  /\ UNCHANGED version

Place(p) ==
  /\ stage[p] = "open"
  /\ version' = {p}
  /\ stage' = [stage EXCEPT ![p] = "placed"]

Drop(p) ==
  /\ stage[p] = "open"
  /\ stage' = [stage EXCEPT ![p] = "dropped"]
  /\ UNCHANGED version

Keep(p) ==
  /\ stage[p] = "placed"
  /\ stage' = [stage EXCEPT ![p] = "kept"]
  /\ UNCHANGED version

Disown(p) ==
  /\ stage[p] = "placed"
  /\ stage' = [stage EXCEPT ![p] = "disowned"]
  /\ UNCHANGED version

Laid == {Original, Scraps} \cup {p \in Swappers : stage[p] \in {"placed", "kept", "disowned"}}
Revert(p) ==
  /\ stage[p] \in {"placed", "disowned"}
  /\ version = {p}
  /\ \E v \in Laid : version' = {v}
  /\ stage' = [stage EXCEPT ![p] = "disowned"]

Swap(p) ==
  Open(p) \/ Refuse(p) \/ Place(p) \/ Drop(p) \/ Keep(p) \/ Disown(p) \/ Revert(p)

Next ==
  \/ alone /\ (\E p \in Swappers : Swap(p)) /\ UNCHANGED alone
  \/ ~alone'

Spec == Init /\ [][Next]_vars
=============================================================================
