---------------------------- MODULE EpisodeSpec ----------------------------
(***************************************************************************)
(* What a collection session promises about its episodes, without any of   *)
(* its processes.  Episodes are numbered from First and recorded one at a  *)
(* time; each one is stopped and then either kept or discarded, once and   *)
(* for all.  Only a kept episode may end up in the dataset, it does so at  *)
(* most once, and nothing ever removes it again.                           *)
(***************************************************************************)
EXTENDS Naturals

CONSTANTS First, Last     \* the session's episode indices: First .. Last

VARIABLES
  fate,        \* what the user decided about each episode
  persisted    \* the episodes in the dataset

Index == First .. Last

Fate == {"none", "recording", "pending", "kept", "discarded"}

TypeOK == fate \in [Index -> Fate] /\ persisted \subseteq Index

Init == fate = [e \in Index |-> "none"] /\ persisted = {}

Decided(e) == fate[e] \in {"kept", "discarded"}

Start(e) ==
  /\ fate[e] = "none"
  /\ \A d \in Index : d < e => Decided(d)
  /\ fate' = [fate EXCEPT ![e] = "recording"]
  /\ UNCHANGED persisted

Stop(e) ==
  /\ fate[e] = "recording"
  /\ fate' = [fate EXCEPT ![e] = "pending"]
  /\ UNCHANGED persisted

Decide(e) ==
  /\ fate[e] = "pending"
  /\ \E f \in {"kept", "discarded"} : fate' = [fate EXCEPT ![e] = f]
  /\ UNCHANGED persisted

Persist(e) ==
  /\ fate[e] = "kept"
  /\ e \notin persisted
  /\ persisted' = persisted \cup {e}
  /\ UNCHANGED fate

Next == \E e \in Index : Start(e) \/ Stop(e) \/ Decide(e) \/ Persist(e)

Spec == Init /\ [][Next]_<<fate, persisted>>
============================================================================
