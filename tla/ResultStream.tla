---------------------------- MODULE ResultStream ----------------------------
(***************************************************************************)
(* What the Run RPC promises a client, whatever runs behind it: the        *)
(* results arrive in the order they were produced, and the call ends with  *)
(* OK only when the producer ended without an error and every result it    *)
(* produced has been delivered.  RunSession implements this.               *)
(***************************************************************************)
EXTENDS Naturals, Sequences

CONSTANT Results       \* what a program can produce

VARIABLES
    produced,   \* the results, in the order they were produced
    delivered,  \* the ones the RPC has sent
    failed,     \* the program has failed
    ended,      \* the producer has ended
    verdict     \* the status of the call: none, OK or error

streamVars == <<produced, delivered, failed, ended, verdict>>

StreamInit ==
    /\ produced = <<>>
    /\ delivered = <<>>
    /\ failed = FALSE
    /\ ended = FALSE
    /\ verdict = "none"

\* One more result, after the earlier ones.
Produce ==
    /\ ~ended
    /\ Len(produced') = Len(produced) + 1
    /\ SubSeq(produced', 1, Len(produced)) = produced
    /\ produced'[Len(produced')] \in Results
    /\ UNCHANGED <<delivered, failed, ended, verdict>>

Deliver ==
    /\ verdict = "none"
    /\ Len(delivered) < Len(produced)
    /\ delivered' = Append(delivered, produced[Len(delivered) + 1])
    /\ UNCHANGED <<produced, failed, ended, verdict>>

FailOrEnd ==
    /\ ~ended
    /\ failed' \in {failed, TRUE}
    /\ ended' \in BOOLEAN
    /\ UNCHANGED <<produced, delivered, verdict>>

ReturnOK ==
    /\ verdict = "none"
    /\ ended
    /\ ~failed
    /\ delivered = produced
    /\ verdict' = "OK"
    /\ UNCHANGED <<produced, delivered, failed, ended>>

ReturnError ==
    /\ verdict = "none"
    /\ verdict' = "error"
    /\ UNCHANGED <<produced, delivered, failed, ended>>

StreamNext == Produce \/ Deliver \/ FailOrEnd \/ ReturnOK \/ ReturnError

StreamSpec == StreamInit /\ [][StreamNext]_streamVars
=============================================================================
