----------------------------- MODULE MCProcess -----------------------------
(* No timeout asked for, a short one, and one that overflows the Duration. *)
EXTENDS Process

MCRequested == {0, 1, (2 * DurationLimit) \div (Second + 1)}
=============================================================================
