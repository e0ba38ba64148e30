--------------------------- MODULE MCMailCompose ----------------------------
\* MailCompose on small instances; replies never meet, so they are symmetric.
EXTENDS MailCompose, TLC

Symmetric == Permutations(Replies)
=============================================================================
