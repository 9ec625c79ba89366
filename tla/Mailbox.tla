------------------------------ MODULE Mailbox -------------------------------
(***************************************************************************)
(* What the messaging service promises: a message that both its ends find  *)
(* in their conversation stays there, and its sender is told so of no      *)
(* other, and of each at most once.                                        *)
(***************************************************************************)
VARIABLES
  delivered,     \* messages that both ends find
  told           \* messages of which a sender holds the confirmation

Init == delivered = {} /\ told = {}

New == delivered' \ delivered

Step == delivered \subseteq delivered' /\ told' \subseteq told \cup New

Spec == Init /\ [][Step]_<<delivered, told>>
=============================================================================
