----------------------------- MODULE EvalLedger -----------------------------
(***************************************************************************)
(* What an evaluation job promises, without queue, batches or recovery:    *)
(* every sample it reads is settled question by question (the turns of a   *)
(* conversation in order) and then recorded once, or rejected once; the    *)
(* job is over only when no sample is open.  EvalScheduler implements it.  *)
(***************************************************************************)
EXTENDS Naturals

CONSTANT Samples

VARIABLES
    size,     \* the number of questions of each sample
    inOrder,  \* the samples whose questions are turns of a conversation
    status,   \* "unread", "open", "recorded" or "rejected"
    settled,  \* the questions of each sample with an answer or an error
    over

ledgerVars == <<size, inOrder, status, settled, over>>
data == <<size, inOrder>>

LedgerInit ==
    /\ size \in [Samples -> Nat]
    /\ inOrder \in SUBSET Samples
    /\ status = [i \in Samples |-> "unread"]
    /\ settled = [i \in Samples |-> {}]
    /\ over = FALSE

Accept(i) ==
    /\ ~over /\ status[i] = "unread"
    /\ status' = [status EXCEPT ![i] = IF size[i] = 0 THEN "recorded" ELSE "open"]
    /\ UNCHANGED <<data, settled, over>>

Reject(i) ==
    /\ ~over /\ status[i] = "unread" /\ size[i] > 0
    /\ status' = [status EXCEPT ![i] = "rejected"]
    /\ UNCHANGED <<data, settled, over>>

Settle(i, q) ==
    /\ ~over /\ status[i] = "open"
    /\ q \notin settled[i]
    /\ i \in inOrder => \A p \in 1 .. (q - 1) : p \in settled[i]
    /\ settled' = [settled EXCEPT ![i] = @ \cup {q}]
    /\ status' = [status EXCEPT ![i] =
                    IF settled'[i] = 1 .. size[i] THEN "recorded" ELSE "open"]
    /\ UNCHANGED <<data, over>>

Close ==
    /\ ~over /\ \A i \in Samples : status[i] # "open"
    /\ over' = TRUE
    /\ UNCHANGED <<data, status, settled>>

Progress == \E i \in Samples : \E q \in 1 .. size[i] : Settle(i, q)
LedgerNext == Progress \/ Close \/ \E i \in Samples : Accept(i) \/ Reject(i)

\* An open sample does not stay open, and the job ends.
LedgerFairness == WF_ledgerVars(Progress) /\ WF_ledgerVars(Close)
LedgerSpec == LedgerInit /\ [][LedgerNext]_ledgerVars /\ LedgerFairness
=============================================================================
