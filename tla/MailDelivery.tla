---------------------------- MODULE MailDelivery ----------------------------
(***************************************************************************)
(* What the channels promise about a mailbox reply, with no queue, lease,  *)
(* worker or lost answer in sight: the provider gets it at most once, Core *)
(* shows `sent' only for a reply the provider got, and `sent' is final.    *)
(* `failed' promises less: it may turn into `sent', and a reply shown as   *)
(* failed may have gone out (the outcome of its send is unknown).          *)
(*                                                                         *)
(* To Gmail a reply may go more often, as long as each time before its     *)
(* answer looked like a refusal; never after it has been known to be       *)
(* taken, nor after its outcome was in doubt.                              *)
(***************************************************************************)
EXTENDS Integers

CONSTANTS
  Mails,
  Gmail        \* those whose provider may take them and seem to refuse them

VARIABLES
  delivered,   \* how many times the provider got each mail, but for
  denied,      \* how many times it got it and seemed to refuse it
  mail         \* email_messages.delivery_status

vars == <<delivered, denied, mail>>

Init ==
  /\ delivered = [m \in Mails |-> 0]
  /\ denied = [m \in Mails |-> 0]
  /\ mail = [m \in Mails |-> "queued"]

Deliver(m) ==
  /\ delivered[m] = 0
  /\ delivered' = [delivered EXCEPT ![m] = 1]
  /\ UNCHANGED <<denied, mail>>

DeliverDenied(m) ==
  /\ m \in Gmail /\ delivered[m] = 0
  /\ denied' = [denied EXCEPT ![m] = @ + 1]
  /\ UNCHANGED <<delivered, mail>>

ShowSent(m) ==
  /\ delivered[m] = 1
  /\ mail' = [mail EXCEPT ![m] = "sent"]
  /\ UNCHANGED <<delivered, denied>>

ShowFailed(m) ==
  /\ mail[m] # "sent"
  /\ mail' = [mail EXCEPT ![m] = "failed"]
  /\ UNCHANGED <<delivered, denied>>

Next == \E m \in Mails : Deliver(m) \/ DeliverDenied(m) \/ ShowSent(m) \/ ShowFailed(m)

Spec == Init /\ [][Next]_vars
=============================================================================
