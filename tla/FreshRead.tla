------------------------------ MODULE FreshRead ------------------------------
(***************************************************************************)
(* What the device layer promises the client: a register file that others  *)
(* write at any time, and a read that either fails or returns a value the  *)
(* parameter really had at some moment between the question and the        *)
(* answer.  Nothing is promised about which reads succeed.                 *)
(***************************************************************************)
EXTENDS Naturals

CONSTANTS Params, Values, NoParam, NoValue

VARIABLES
  value,    \* the speaker's parameters
  asked,    \* the parameter being read, or NoParam
  window,   \* the values it had since it was asked for
  outcome   \* what the last read returned; NoValue if it failed

vars == <<value, asked, window, outcome>>

Init ==
  /\ value \in [Params -> Values]
  /\ asked = NoParam
  /\ window = {}
  /\ outcome = NoValue

Change(p, v) ==
  /\ value' = [value EXCEPT ![p] = v]
  /\ window' = IF asked = p THEN window \cup {v} ELSE window
  /\ UNCHANGED <<asked, outcome>>

Ask(p) ==
  /\ asked = NoParam
  /\ asked' = p
  /\ window' = {value[p]}
  /\ outcome' = NoValue
  /\ UNCHANGED value

Return(r) ==
  /\ asked # NoParam
  /\ r \in window \cup {NoValue}
  /\ outcome' = r
  /\ asked' = NoParam
  /\ window' = {}
  /\ UNCHANGED value

Next ==
  \/ \E p \in Params, v \in Values : Change(p, v)
  \/ \E p \in Params : Ask(p)
  \/ \E r \in Values \cup {NoValue} : Return(r)

Spec == Init /\ [][Next]_vars
=============================================================================
