--------------------------- MODULE AppendOnlyLog ----------------------------
(***************************************************************************)
(* What the registry log promises its readers ("Tamper-evident append-only *)
(* registry log", registry_log.py): the events it holds are only ever      *)
(* extended at the end, whatever connections write to it.                  *)
(***************************************************************************)
EXTENDS Naturals, Sequences

CONSTANT Event
VARIABLE entries

AppendInit == entries = <<>>

\* One commit makes the entries of one transaction visible, in their order.
Extend ==
  /\ entries' \in Seq(Event)
  /\ Len(entries') >= Len(entries)
  /\ \A i \in 1..Len(entries) : entries'[i] = entries[i]

AppendSpec == AppendInit /\ [][Extend]_entries
=============================================================================
