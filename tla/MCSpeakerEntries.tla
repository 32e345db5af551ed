-------------------------- MODULE MCSpeakerEntries --------------------------
(***************************************************************************)
(* Small instances of SpeakerEntries for TLC.                              *)
(***************************************************************************)
EXTENDS SpeakerEntries, TLC

\* Neither two addresses nor two entries differ but by what happens to them.
Alike == Permutations(Hosts) \cup Permutations(Entries)

\* "the device's hardware model name, not guaranteed unique across units"
SameName == [s \in Speakers |-> "ASeries"]

\* config_flow.py: "so that the same physical speaker is never registered
\* twice, even if its IP address changes and it is re-discovered".
NeverTwice ==
  \A e, f \in Entries :
    Exists(e) /\ Exists(f) /\ data[e].made = data[f].made => e = f
=============================================================================
