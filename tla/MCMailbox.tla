------------------------------ MODULE MCMailbox -----------------------------
(* Small instances of Mailbox for TLC. *)
EXTENDS Mailbox

\* The senders' first messages share a coalescing key, every later message
\* has its own: there are more keys than the capacity.
Shared == <<>>
SharedFirst(m) == IF m[2] = 1 THEN Shared ELSE m
MCKeys == {Shared} \cup (Senders \X (2..MaxSends))

=============================================================================
