------------------------------ MODULE MCOutbox ------------------------------
(* Small instances of Outbox for TLC. *)
EXTENDS Outbox, TLC

\* A revision that asks for an approval and is decided.
SmallFeed ==
  << [aggregate |-> "intent", notifies |-> TRUE],
     [aggregate |-> "intent", notifies |-> FALSE] >>

\* Two levels of approval, each of which asks for a notification.
TwoLevelFeed ==
  << [aggregate |-> "intent", notifies |-> TRUE],
     [aggregate |-> "intent", notifies |-> TRUE] >>
=============================================================================
