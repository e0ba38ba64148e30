--------------------------- MODULE MCMailboxSend ----------------------------
\* MailboxSend on small instances.  Workers are interchangeable: no action
\* compares one with anything but itself.  Replies are not, of two mailboxes.
EXTENDS MailboxSend, TLC

Symmetric == Permutations(Workers)
=============================================================================
