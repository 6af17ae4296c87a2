------------------------------ MODULE Delivery ------------------------------
(***************************************************************************)
(* What mail between two instances promises (docs/SPEC.md, 6.2): a mail is *)
(* filed with its sender's instance only once the recipient's instance has *)
(* it, the sender is told "sent" only once it is filed, and a mail that was*)
(* refused is at neither, then and later.  An unclear answer promises      *)
(* nothing: the mail may be delivered before it, after it or never.        *)
(***************************************************************************)
CONSTANTS Submission      \* signed mails

VARIABLES delivered,      \* with the recipient's instance
          filed,          \* with the sender's
          answered        \* what the sender was told

vars == <<delivered, filed, answered>>

Answer == {"none", "sent", "refused", "unclear"}

Init ==
    /\ delivered = {} /\ filed = {}
    /\ answered = [s \in Submission |-> "none"]

Deliver(s) ==
    /\ s \notin delivered
    /\ answered[s] # "refused"
    /\ delivered' = delivered \cup {s}
    /\ UNCHANGED <<filed, answered>>

File(s) ==
    /\ s \in delivered \ filed
    /\ answered[s] # "refused"
    /\ filed' = filed \cup {s}
    /\ UNCHANGED <<delivered, answered>>

Tell(s, a) ==
    /\ answered[s] = "none"
    /\ a = "sent" => s \in filed
    /\ a = "refused" => s \notin delivered
    /\ answered' = [answered EXCEPT ![s] = a]
    /\ UNCHANGED <<delivered, filed>>

Next ==
    \E s \in Submission :
        Deliver(s) \/ File(s) \/ \E a \in Answer \ {"none"} : Tell(s, a)

Spec == Init /\ [][Next]_vars
=============================================================================
