----------------------------- MODULE MCMaildrop ----------------------------
\* One maildrop of up to three messages, one of them empty.
EXTENDS MaildropSession, TLC

CONSTANTS m1, m2, m3

MCMails == {m1, m2, m3}
MCFileSize == m1 :> 0 @@ m2 :> 2 @@ m3 :> 3
\* Two messages whose sizes do not add up to an int.
LargeFileSize == m1 :> 0 @@ m2 :> 4 @@ m3 :> 5

\* What the proofs assume of the sizes holds here.
ASSUME MCSizesFit == SizesFit
============================================================================
