-------------------------- MODULE FederationProofs --------------------------
(***************************************************************************)
(* Federation keeps the promise of Delivery, deletes drafts only when      *)
(* their text has arrived, and sends a text twice only for a reason, for   *)
(* any number of texts and submissions.  FedKeys, the other half of the    *)
(* federation package, follows.                                            *)
(***************************************************************************)
EXTENDS Federation, FedKeys, TLAPS

-----------------------------------------------------------------------------
\* The inductive invariant, by parts.

\* What the two handlers of a submission and the two databases know of each
\* other, and what the client was told.
HandlerInv ==
    \A s \in Submission :
        /\ here[s] \in {"none", "request"} => there[s] = "none"
        /\ here[s] = "insert" => there[s] = "accepted"
        /\ here[s] = "refused" => there[s] \in {"none", "refused"}
        /\ s \in delivered <=> there[s] = "accepted"
        /\ here[s] = "sent" <=> s \in filed
        /\ s \in filed => s \in delivered
        /\ outcome[s] = "sent" => here[s] = "sent"
        /\ outcome[s] = "refused" => here[s] = "refused"

\* Submissions are numbered in order.
NumberInv ==
    \A s \in Submission :
        s.no > sends[s.text] => here[s] = "none" /\ outcome[s] = "none"

\* A command that waits was not answered yet; one that was told "sent" was.
AnswerInv ==
    \A t \in Text :
        /\ At(t, "waiting") => sends[t] # 0 /\ outcome[Current(t)] = "none"
        /\ At(t, "sent") => sends[t] # 0 /\ outcome[Current(t)] = "sent"

\* A submission that ended without a copy, or unclearly, or was interrupted.
Excused(s) == outcome[s] \in {"unclear", "refused"} \/ s.text \in interrupted

\* Whoever may still submit t has an excuse for its last submission, and every
\* submission but the last has one.
RetryInv ==
    /\ \A t \in Text :
          /\ t \notin written => sends[t] = 0 /\ At(t, "idle") /\ t \notin drafts
          /\ \/ At(t, "prompt") \/ At(t, "submit") \/ At(t, "failed")
             \/ t \in drafts /\ At(t, "idle")
             => sends[t] = 0 \/ Excused(Current(t))
    /\ \A s \in Submission : s.no < sends[s.text] => Excused(s)

IInv == TypeOK /\ HandlerInv /\ NumberInv /\ AnswerInv /\ RetryInv

-----------------------------------------------------------------------------
\* Submissions and their numbers.
LEMMA Submissions ==
    /\ \A s \in Submission : s.text \in Text /\ s.no \in 1 .. MaxSends
    /\ \A t \in Text, n \in 1 .. MaxSends :
          /\ [text |-> t, no |-> n] \in Submission
          /\ [text |-> t, no |-> n].text = t
          /\ [text |-> t, no |-> n].no = n
    /\ \A r, s \in Submission : r.text = s.text /\ r.no = s.no => r = s
  BY DEF Submission

\* The submission a command waits for is one.
LEMMA CurrentSubmission ==
    ASSUME TypeOK, NEW t \in Text, sends[t] # 0
    PROVE  /\ Current(t) \in Submission
           /\ Current(t).text = t
           /\ Current(t).no = sends[t]
  BY FederationAssumption, Submissions DEF TypeOK, Current

LEMMA InitEstablishes == Init => IInv
<1> SUFFICES ASSUME Init PROVE IInv
  OBVIOUS
<1>1. TypeOK
  BY FederationAssumption DEF Init, TypeOK, Command, Idle, HereSteps, ThereSteps
<1>2. HandlerInv /\ NumberInv
  BY DEF Init, HandlerInv, NumberInv
<1>3. AnswerInv
  BY DEF Init, AnswerInv, At, Idle
<1>4. RetryInv
  BY Submissions, FederationAssumption DEF Init, RetryInv, At, Idle, Excused
<1>5. QED
  BY <1>1, <1>2, <1>3, <1>4 DEF IInv

-----------------------------------------------------------------------------
\* The handlers.

ServerStep(s) ==
    HereStep(s) \/ Abandon(s) \/ RemoteCheck(s) \/ RemoteInsert(s) \/ RemoteAbandon(s)

\* A handler's step leaves the client and the other submissions alone, and
\* keeps the relation of the two handlers to the databases.
LEMMA ServerKeeps ==
    ASSUME IInv, NEW s \in Submission, ServerStep(s)
    PROVE  IInv'
<1> USE DEF ServerStep, HereStep, Check, RelayAnswered, RelayFails, InsertCopy,
            Abandon, RemoteCheck, RemoteInsert, RemoteAbandon
<1>1. UNCHANGED <<clientVars, history>>
  OBVIOUS
<1>2. TypeOK'
  BY <1>1 DEF IInv, TypeOK, HereSteps, ThereSteps, clientVars, history
<1>3. /\ \A r \in Submission : r # s => here'[r] = here[r] /\ there'[r] = there[r]
      /\ \A r \in Submission : r # s =>
            (r \in filed' <=> r \in filed) /\ (r \in delivered' <=> r \in delivered)
  BY DEF IInv, TypeOK
<1>4. outcome' = outcome
  BY <1>1 DEF history
<1>5. here[s] # "none"
  BY DEF IInv, HandlerInv
<1>6. HandlerInv'
  <2>1. ASSUME NEW r \in Submission, r # s
        PROVE  /\ here'[r] \in {"none", "request"} => there'[r] = "none"
               /\ here'[r] = "insert" => there'[r] = "accepted"
               /\ here'[r] = "refused" => there'[r] \in {"none", "refused"}
               /\ r \in delivered' <=> there'[r] = "accepted"
               /\ here'[r] = "sent" <=> r \in filed'
               /\ r \in filed' => r \in delivered'
               /\ outcome'[r] = "sent" => here'[r] = "sent"
               /\ outcome'[r] = "refused" => here'[r] = "refused"
    BY <1>3, <1>4, <2>1 DEF IInv, HandlerInv
  <2>2. /\ here'[s] \in {"none", "request"} => there'[s] = "none"
        /\ here'[s] = "insert" => there'[s] = "accepted"
        /\ here'[s] = "refused" => there'[s] \in {"none", "refused"}
        /\ s \in delivered' <=> there'[s] = "accepted"
        /\ here'[s] = "sent" <=> s \in filed'
        /\ s \in filed' => s \in delivered'
        /\ outcome'[s] = "sent" => here'[s] = "sent"
        /\ outcome'[s] = "refused" => here'[s] = "refused"
    BY <1>4 DEF IInv, HandlerInv, TypeOK
  <2>3. QED
    BY <2>1, <2>2 DEF HandlerInv
<1>7. NumberInv'
  BY <1>1, <1>3, <1>4, <1>5 DEF IInv, NumberInv, clientVars
<1>8. AnswerInv' /\ RetryInv'
  BY <1>1 DEF IInv, AnswerInv, RetryInv, At, Current, Excused, clientVars, history
<1>9. QED
  BY <1>2, <1>6, <1>7, <1>8 DEF IInv

-----------------------------------------------------------------------------
\* The client.

\* A step of a command for t leaves the other texts' commands alone.
LEMMA OtherTexts ==
    ASSUME IInv, NEW t \in Text,
           \A u \in Text : u # t => /\ command'[u] = command[u]
                                    /\ sends'[u] = sends[u]
                                    /\ u \in drafts' <=> u \in drafts
                                    /\ u \in written' <=> u \in written
                                    /\ u \in interrupted' <=> u \in interrupted,
           \A s \in Submission : s.text # t => outcome'[s] = outcome[s]
    PROVE  \A u \in Text : u # t =>
             /\ At(u, "waiting")' => sends'[u] # 0 /\ outcome'[Current(u)'] = "none"
             /\ At(u, "sent")' => sends'[u] # 0 /\ outcome'[Current(u)'] = "sent"
             /\ u \notin written' => sends'[u] = 0 /\ At(u, "idle")' /\ u \notin drafts'
             /\ \/ At(u, "prompt")' \/ At(u, "submit")' \/ At(u, "failed")'
                \/ u \in drafts' /\ At(u, "idle")'
                => sends'[u] = 0 \/ Excused(Current(u))'
<1> TAKE u \in Text
<1> HAVE u # t
<1>1. Current(u)' = Current(u)
  BY DEF Current
<1>2. sends[u] # 0 => Current(u) \in Submission /\ Current(u).text = u
  BY CurrentSubmission DEF IInv
<1>3. sends[u] # 0 => outcome'[Current(u)] = outcome[Current(u)]
  BY <1>2
<1>4. QED
  BY <1>1, <1>2, <1>3 DEF IInv, AnswerInv, RetryInv, At, Excused

\* A command begins, is prompted for its passphrase, ends or is killed: nothing
\* is submitted and nothing answered.
LEMMA LocalKeeps ==
    ASSUME IInv, NEW t \in Text,
           \/ Send(t) \/ SendDraft(t) \/ Prompt(t) \/ Finish(t) \/ Rescue(t) \/ Kill(t)
    PROVE  IInv'
<1> USE DEF Send, SendDraft, Prompt, Finish, Rescue, Kill, ServersUnchanged
<1>1. UNCHANGED <<sends, outcome, here, there, filed, delivered>>
  OBVIOUS
<1>2. TypeOK'
  BY <1>1 DEF IInv, TypeOK, Command, Idle, GoTo
<1>3. HandlerInv' /\ NumberInv'
  BY <1>1 DEF IInv, HandlerInv, NumberInv
<1>4. \A u \in Text : u # t => /\ command'[u] = command[u]
                               /\ u \in drafts' <=> u \in drafts
                               /\ u \in written' <=> u \in written
                               /\ u \in interrupted' <=> u \in interrupted
  BY DEF IInv, TypeOK, GoTo
<1>5. \A u \in Text : u # t =>
         /\ At(u, "waiting")' => sends'[u] # 0 /\ outcome'[Current(u)'] = "none"
         /\ At(u, "sent")' => sends'[u] # 0 /\ outcome'[Current(u)'] = "sent"
         /\ u \notin written' => sends'[u] = 0 /\ At(u, "idle")' /\ u \notin drafts'
         /\ \/ At(u, "prompt")' \/ At(u, "submit")' \/ At(u, "failed")'
            \/ u \in drafts' /\ At(u, "idle")'
            => sends'[u] = 0 \/ Excused(Current(u))'
  BY <1>1, <1>4, OtherTexts
<1>6. Current(t)' = Current(t)
  BY <1>1 DEF Current
<1>7. command'[t].step \notin {"waiting", "sent"}
  BY DEF IInv, TypeOK, Command, Idle, GoTo
<1>8. interrupted \subseteq interrupted' /\ written \subseteq written'
  OBVIOUS
<1>9. AnswerInv'
  BY <1>5, <1>7 DEF AnswerInv, At
<1>10. sends[t] = 0 \/ Current(t).text = t
  BY CurrentSubmission DEF IInv
<1>11. /\ t \notin written' => sends[t] = 0 /\ At(t, "idle")' /\ t \notin drafts'
       /\ \/ At(t, "prompt")' \/ At(t, "submit")' \/ At(t, "failed")'
          \/ t \in drafts' /\ At(t, "idle")'
          => sends[t] = 0 \/ Excused(Current(t))'
  <2>1. CASE Send(t)
    BY <2>1 DEF IInv, TypeOK, RetryInv, At
  <2>2. CASE SendDraft(t)
    BY <1>1, <1>6, <2>2 DEF IInv, TypeOK, RetryInv, At, Excused
  <2>3. CASE Prompt(t)
    BY <1>1, <1>6, <2>3 DEF IInv, TypeOK, RetryInv, At, Excused, Idle, GoTo
  <2>4. CASE Finish(t)
    BY <1>1, <1>6, <1>10, <2>4 DEF IInv, TypeOK, RetryInv, At, Excused, Idle
  <2>5. CASE Rescue(t)
    BY <1>1, <1>6, <2>5 DEF IInv, TypeOK, RetryInv, At, Excused, Idle
  <2>6. CASE Kill(t)
    BY <1>1, <1>6, <1>10, <2>6 DEF IInv, TypeOK, RetryInv, At, Excused, Idle
  <2>7. QED
    BY <2>1, <2>2, <2>3, <2>4, <2>5, <2>6
<1>12. \A s \in Submission : s.no < sends'[s.text] => Excused(s)'
  BY <1>1, <1>8 DEF IInv, RetryInv, Excused
<1>13. RetryInv'
  BY <1>1, <1>5, <1>11, <1>12 DEF RetryInv
<1>14. QED
  BY <1>2, <1>3, <1>9, <1>13 DEF IInv

\* A new submission sets out: the one before it, if any, was excused.
LEMMA SubmitKeeps ==
    ASSUME IInv, NEW t \in Text, Submit(t)
    PROVE  IInv'
<1> USE FederationAssumption
<1>1. CASE UNCHANGED <<sends, here>>
  <2>1. command'[t].step = "failed" /\ \A u \in Text : u # t => command'[u] = command[u]
    BY <1>1 DEF IInv, TypeOK, Submit, GoTo, At, Command
  <2>2. TypeOK'
    BY <1>1 DEF IInv, TypeOK, Submit, GoTo, history, Command
  <2>3. HandlerInv' /\ NumberInv'
    BY <1>1 DEF IInv, HandlerInv, NumberInv, Submit, history
  <2>4. \A u \in Text : Current(u)' = Current(u)
    BY <1>1 DEF Current
  <2>5. AnswerInv'
    BY <1>1, <2>1, <2>4 DEF IInv, AnswerInv, At, Submit, history
  <2>6. RetryInv'
    BY <1>1, <2>1, <2>4 DEF IInv, RetryInv, At, Submit, history, Excused
  <2>7. QED
    BY <2>2, <2>3, <2>5, <2>6 DEF IInv
<1>2. CASE sends[t] < MaxSends /\ sends' = [sends EXCEPT ![t] = @ + 1]
  <2> DEFINE new == [text |-> t, no |-> sends[t] + 1]
  <2>1. sends[t] \in Nat /\ new \in Submission /\ new.text = t /\ new.no = sends[t] + 1
    BY <1>2, Submissions DEF IInv, TypeOK
  <2>2. here[new] = "none" /\ there[new] = "none" /\ outcome[new] = "none"
    BY <2>1 DEF IInv, NumberInv, HandlerInv
  <2>3. CASE At(t, "submit") /\ GoTo(t, "waiting") /\ here' = [here EXCEPT ![new] = "request"]
    <3>1. UNCHANGED <<drafts, there, filed, delivered, written, outcome, failed, interrupted>>
      BY DEF Submit, history
    <3>2. /\ command'[t].step = "waiting"
          /\ \A u \in Text : u # t => command'[u] = command[u] /\ sends'[u] = sends[u]
          /\ sends'[t] = sends[t] + 1
          /\ here'[new] = "request"
          /\ \A s \in Submission : s # new => here'[s] = here[s]
      BY <1>2, <2>1, <2>3 DEF IInv, TypeOK, GoTo
    <3>3. TypeOK'
      BY <1>2, <2>1, <2>3, <3>1 DEF IInv, TypeOK, GoTo, Command, HereSteps
    <3>4. HandlerInv'
      BY <2>1, <2>2, <3>1, <3>2 DEF IInv, HandlerInv
    <3>5. NumberInv'
      <4>1. \A s \in Submission :
               /\ s.text \in Text /\ s.no \in Nat
               /\ s.text = t /\ s.no = sends[t] + 1 => s = new
        BY <2>1, Submissions
      <4>2. QED
        BY <2>1, <3>1, <3>2, <4>1 DEF IInv, TypeOK, NumberInv
    <3>6. Current(t)' = new
      BY <3>2 DEF Current
    <3>7. AnswerInv'
      BY <2>1, <2>2, <3>1, <3>2, <3>6 DEF IInv, AnswerInv, At, Current
    <3>8. \A s \in Submission : s.no < sends'[s.text] => Excused(s)'
      <4>1. SUFFICES ASSUME NEW s \in Submission, s.no < sends'[s.text] PROVE Excused(s)
        BY <3>1 DEF Excused
      <4>2. s.text \in Text /\ s.no \in 1 .. MaxSends
        BY Submissions
      <4>3. CASE s.no < sends[s.text]
        BY <4>3 DEF IInv, RetryInv
      <4>4. CASE s.text = t /\ s.no = sends[t]
        <5>1. sends[t] # 0
          BY <4>2, <4>4
        <5>2. s = Current(t)
          BY <4>4, <5>1, CurrentSubmission, Submissions DEF IInv
        <5>3. QED
          BY <2>3, <5>1, <5>2 DEF IInv, RetryInv
      <4>5. QED
        BY <2>1, <3>2, <4>1, <4>2, <4>3, <4>4 DEF IInv, TypeOK
    <3>9. RetryInv'
      <4>1. t \in written'
        BY <2>3, <3>1 DEF IInv, RetryInv, At
      <4>2. QED
        BY <3>1, <3>2, <3>8, <4>1 DEF IInv, RetryInv, At, Excused, Current
    <3>10. QED
      BY <3>3, <3>4, <3>5, <3>7, <3>9 DEF IInv
  <2>4. CASE UNCHANGED <<sends, here>>
    BY <1>1, <2>4
  <2>5. QED
    BY <2>3, <2>4 DEF Submit
<1>3. QED
  BY <1>1, <1>2 DEF Submit

\* The command learns what became of its submission.
LEMMA AnsweredKeeps ==
    ASSUME IInv, NEW t \in Text, Reply(t) \/ NoReply(t)
    PROVE  IInv'
<1> DEFINE s == Current(t)
<1>1. /\ At(t, "waiting") /\ sends[t] # 0
      /\ s \in Submission /\ s.text = t /\ s.no = sends[t]
      /\ outcome[s] = "none"
  BY CurrentSubmission DEF IInv, AnswerInv, Reply, NoReply
<1>2. UNCHANGED <<drafts, sends, written, failed, interrupted, here, there, filed, delivered>>
  BY DEF Reply, NoReply, ServersUnchanged
<1>3. /\ \A u \in Text : u # t => command'[u] = command[u]
      /\ \A r \in Submission : r # s => outcome'[r] = outcome[r]
  BY DEF IInv, TypeOK, Reply, NoReply, GoTo
<1>4. \/ /\ outcome'[s] = "sent" /\ here[s] = "sent" /\ command'[t].step = "sent"
      \/ /\ outcome'[s] = "unclear" /\ command'[t].step = "failed"
      \/ /\ outcome'[s] = "refused" /\ here[s] = "refused" /\ command'[t].step = "failed"
  BY <1>1 DEF IInv, TypeOK, Reply, NoReply, GoTo, Command
<1>5. TypeOK'
  BY <1>1, <1>2 DEF IInv, TypeOK, Reply, NoReply, GoTo, Command
<1>6. HandlerInv'
  BY <1>1, <1>2, <1>3, <1>4 DEF IInv, HandlerInv
<1>7. NumberInv'
  BY <1>1, <1>2, <1>3 DEF IInv, TypeOK, NumberInv
<1>8. \A u \in Text : Current(u)' = Current(u)
  BY <1>2 DEF Current
<1>9. \A u \in Text : u # t /\ sends[u] # 0 => outcome'[Current(u)] = outcome[Current(u)]
  BY <1>1, <1>3, CurrentSubmission DEF IInv
<1>10. AnswerInv'
  BY <1>1, <1>2, <1>3, <1>4, <1>8, <1>9 DEF IInv, AnswerInv, At
<1>11. \A r \in Submission : Excused(r) => Excused(r)'
  BY <1>1, <1>2, <1>3, <1>4 DEF Excused
<1>12. command'[t].step = "failed" => Excused(s)'
  BY <1>4, <1>8 DEF Excused
<1>13. t \in written
  BY <1>1 DEF IInv, RetryInv, At
<1>14. \A u \in Text : sends[u] # 0 => Current(u) \in Submission
  BY CurrentSubmission DEF IInv
<1>15. \A u \in Text :
          \/ At(u, "prompt")' \/ At(u, "submit")' \/ At(u, "failed")'
          \/ u \in drafts' /\ At(u, "idle")'
          => sends'[u] = 0 \/ Excused(Current(u))'
  <2>1. SUFFICES ASSUME NEW u \in Text, sends[u] # 0,
                        \/ At(u, "prompt")' \/ At(u, "submit")' \/ At(u, "failed")'
                        \/ u \in drafts' /\ At(u, "idle")'
                 PROVE  Excused(Current(u))'
    BY <1>2
  <2>2. CASE u = t
    BY <1>4, <1>12, <2>1, <2>2 DEF At
  <2>3. CASE u # t
    <3>1. Excused(Current(u))
      BY <1>2, <1>3, <2>1, <2>3 DEF IInv, RetryInv, At
    <3>2. Excused(Current(u)) => Excused(Current(u))'
      BY <1>2, <1>8, <1>9, <2>1, <2>3 DEF Excused
    <3>3. QED
      BY <3>1, <3>2
  <2>4. QED
    BY <2>2, <2>3
<1>16. \A u \in Text :
          u \notin written' => sends'[u] = 0 /\ At(u, "idle")' /\ u \notin drafts'
  BY <1>2, <1>3, <1>13 DEF IInv, RetryInv, At
<1>17. \A r \in Submission : r.no < sends'[r.text] => Excused(r)'
  BY <1>2, <1>11 DEF IInv, RetryInv
<1>18. RetryInv'
  BY <1>15, <1>16, <1>17 DEF RetryInv
<1>19. QED
  BY <1>5, <1>6, <1>7, <1>10, <1>18 DEF IInv

-----------------------------------------------------------------------------
LEMMA Inductive == IInv /\ [Next]_vars => IInv'
<1>1. SUFFICES ASSUME IInv, [Next]_vars PROVE IInv'
  OBVIOUS
<1>2. CASE UNCHANGED vars
  BY <1>1, <1>2 DEF vars, clientVars, history, IInv, TypeOK, HandlerInv, NumberInv,
     AnswerInv, RetryInv, At, Current, Excused
<1>3. CASE Next
  BY <1>1, <1>3, ServerKeeps, LocalKeeps, SubmitKeeps, AnsweredKeeps
  DEF Next, ClientStep, ServerStep
<1>4. QED
  BY <1>1, <1>2, <1>3

\* IInv holds of every execution.
THEOREM Invariance == Spec => []IInv
  BY InitEstablishes, Inductive, PTL DEF Spec

\* The variables always have their types.
THEOREM TypeCorrect == Spec => []TypeOK
<1>1. IInv => TypeOK
  BY DEF IInv
<1>2. QED
  BY <1>1, Invariance, PTL

\* Two copies of a text at the recipient are explained by an unclear answer or
\* an interrupted command (main.c send -d, handlers.go relay).
THEOREM NoNeedlessDuplicate == Spec => []DuplicatesExplained
<1>1. IInv => DuplicatesExplained
  <2>1. SUFFICES ASSUME IInv, NEW m \in delivered, NEW n \in delivered,
                        m.text = n.text, m.no < n.no
                 PROVE  outcome[m] = "unclear" \/ m.text \in interrupted
    BY DEF DuplicatesExplained
  <2>2. m \in Submission /\ n \in Submission
    BY <2>1 DEF IInv, TypeOK
  <2>3. /\ m.no \in Int /\ n.no \in Int /\ n.text \in Text
        /\ sends[n.text] \in Int
    BY <2>1, <2>2, Submissions DEF IInv, TypeOK
  <2>4. n.no <= sends[n.text]
    BY <2>1, <2>2, <2>3 DEF IInv, NumberInv, HandlerInv
  <2>5. Excused(m)
    BY <2>1, <2>2, <2>3, <2>4 DEF IInv, RetryInv
  <2>6. outcome[m] # "refused"
    BY <2>1, <2>2 DEF IInv, HandlerInv
  <2>7. QED
    BY <2>5, <2>6 DEF Excused
<1>2. QED
  BY <1>1, Invariance, PTL

\* A draft is deleted only when its text has arrived and is filed.
THEOREM DraftsStay == Spec => DraftsKept
<1>1. ASSUME IInv, [Next]_vars, NEW t \in drafts \ drafts'
      PROVE  \E s \in delivered \cap filed : s.text = t
  <2>1. PICK u \in Text : Finish(u) /\ drafts' = drafts \ {u}
    BY <1>1 DEF Next, vars, clientVars, ClientStep, HereStep, Send, SendDraft, Prompt, Submit,
       Reply, NoReply, Finish, Rescue, Kill, Check, RelayAnswered, RelayFails,
       InsertCopy, Abandon, RemoteCheck, RemoteInsert, RemoteAbandon
  <2>2. u = t /\ At(t, "sent")
    BY <1>1, <2>1 DEF Finish
  <2>3. sends[t] # 0 /\ outcome[Current(t)] = "sent"
    BY <1>1, <2>1, <2>2 DEF IInv, AnswerInv
  <2>4. Current(t) \in Submission /\ Current(t).text = t
    BY <1>1, <2>1, <2>2, <2>3, CurrentSubmission DEF IInv
  <2>5. QED
    BY <1>1, <2>3, <2>4 DEF IInv, HandlerInv
<1>2. IInv /\ [Next]_vars
      => [\A t \in drafts \ drafts' : \E s \in delivered \cap filed : s.text = t]_vars
  BY <1>1
<1>3. QED
  BY <1>2, Invariance, PTL DEF Spec, DraftsKept

\* The client and the two instances implement Delivery: filed only when
\* delivered, told "sent" only when filed, refused only when never delivered.
THEOREM Refinement == Spec => ImplementsDelivery
<1>1. Init => Promise!Init
  BY DEF Init, Promise!Init
<1>2. ASSUME IInv, [Next]_vars PROVE [Promise!Next]_<<delivered, filed, outcome>>
  <2> USE DEF Promise!Next, Promise!Deliver, Promise!File, Promise!Tell, Promise!Answer
  <2>1. ASSUME NEW s \in Submission, RemoteInsert(s)
        PROVE  [Promise!Next]_<<delivered, filed, outcome>>
    <3>1. s \notin delivered /\ outcome[s] # "refused"
      BY <1>2, <2>1 DEF IInv, HandlerInv, RemoteInsert
    <3>2. QED
      BY <2>1, <3>1 DEF RemoteInsert, history
  <2>2. ASSUME NEW s \in Submission, InsertCopy(s)
        PROVE  [Promise!Next]_<<delivered, filed, outcome>>
    <3>1. s \in delivered \ filed /\ outcome[s] # "refused"
      BY <1>2, <2>2 DEF IInv, HandlerInv, InsertCopy
    <3>2. QED
      BY <2>2, <3>1 DEF InsertCopy, history
  <2>3. ASSUME NEW t \in Text, Reply(t) \/ NoReply(t)
        PROVE  [Promise!Next]_<<delivered, filed, outcome>>
    <3>1. Current(t) \in Submission /\ outcome[Current(t)] = "none"
      BY <1>2, <2>3, CurrentSubmission DEF IInv, AnswerInv, Reply, NoReply
    <3>2. PICK a \in {"sent", "refused", "unclear"} :
             /\ outcome' = [outcome EXCEPT ![Current(t)] = a]
             /\ a # "unclear" => here[Current(t)] = a
      BY <2>3 DEF Reply, NoReply
    <3>3. /\ a = "sent" => Current(t) \in filed
          /\ a = "refused" => Current(t) \notin delivered
      BY <1>2, <3>1, <3>2 DEF IInv, HandlerInv
    <3>4. UNCHANGED <<delivered, filed>>
      BY <2>3 DEF Reply, NoReply, ServersUnchanged
    <3>5. Promise!Tell(Current(t), a)
      BY <3>1, <3>2, <3>3, <3>4
    <3>6. QED
      BY <3>1, <3>2, <3>5
  <2>4. ASSUME NEW t \in Text,
               \/ Send(t) \/ SendDraft(t) \/ Prompt(t) \/ Submit(t)
               \/ Finish(t) \/ Rescue(t) \/ Kill(t)
        PROVE  UNCHANGED <<delivered, filed, outcome>>
    BY <2>4 DEF Send, SendDraft, Prompt, Submit, Finish, Rescue, Kill,
       ServersUnchanged, history
  <2>5. ASSUME NEW s \in Submission,
               \/ Check(s) \/ RelayAnswered(s) \/ RelayFails(s) \/ Abandon(s)
               \/ RemoteCheck(s) \/ RemoteAbandon(s)
        PROVE  UNCHANGED <<delivered, filed, outcome>>
    BY <2>5 DEF Check, RelayAnswered, RelayFails, Abandon, RemoteCheck, RemoteAbandon,
       history
  <2>6. CASE UNCHANGED vars
    BY <2>6 DEF vars, history
  <2>7. QED
    BY <1>2, <2>1, <2>2, <2>3, <2>4, <2>5, <2>6 DEF Next, ClientStep, HereStep
<1>3. QED
  BY <1>1, <1>2, Invariance, PTL DEF Spec, ImplementsDelivery, Promise!Spec, Promise!vars
-----------------------------------------------------------------------------
(***************************************************************************)
(* FedKeys: how stale the keys a lookup returns may be, for any number of  *)
(* callers, any lifetime of an entry and any timeout.                      *)
(***************************************************************************)

-----------------------------------------------------------------------------
\* The inductive invariant, by parts.

\* Nothing is dated in the future.
PastInv ==
    /\ cache # None => cache.at <= clock
    /\ \A d \in Caller : flight[d] # None =>
          flight[d].at <= clock /\ clock <= flight[d].at + Timeout
    /\ \A c \in Caller : began[c] <= clock

\* An answer is as old as its request at most, an entry by a timeout more.
AgeInv ==
    /\ cache # None => CurrentSince(cache.keys, cache.at - Timeout)
    /\ \A d \in Caller :
          flight[d] # None /\ flight[d].stage # "asking" /\ flight[d].keys # 0 =>
              CurrentSince(flight[d].keys, flight[d].at)

\* A fresh lookup never reads the cache.
FreshInv == \A c \in Caller : pc[c] = "look" => ~fresh[c]

\* There is one request at a time, and its answer is no older than the entry.
OrderInv ==
    /\ \A d, e \in Flying : d = e
    /\ cache # None => cache.keys <= remote
    /\ \A d \in Caller : flight[d] # None /\ flight[d].keys # 0 =>
          /\ flight[d].keys <= remote
          /\ cache # None => cache.keys <= flight[d].keys

KeysIInv == KeysTypeOK /\ PastInv /\ AgeInv /\ FreshInv /\ StalenessBounded /\ OrderInv

-----------------------------------------------------------------------------
\* Initially nothing has been asked or answered.
LEMMA KeysInitEstablishes == KeysInit => KeysIInv
  BY FedKeysAssumption
  DEF KeysInit, KeysIInv, KeysTypeOK, PastInv, AgeInv, FreshInv, StalenessBounded, OrderInv,
      Keys, Flying, Entry

\* A step that leaves the keys, the clock, the cache and the flights alone
\* keeps the parts about them.
LEMMA CallersKeep ==
    ASSUME KeysIInv, UNCHANGED <<clock, remote, cache, flight, changedAt>>,
           \A c \in Caller : began'[c] <= clock
    PROVE  PastInv' /\ AgeInv' /\ OrderInv'
  BY DEF KeysIInv, PastInv, AgeInv, OrderInv, CurrentSince, Flying

\* A lookup begins.
LEMMA BeginKeeps ==
    ASSUME KeysIInv, NEW c \in Caller, NEW f \in BOOLEAN, Begin(c, f)
    PROVE  KeysIInv'
<1> USE FedKeysAssumption
<1>1. KeysTypeOK'
  BY DEF KeysIInv, KeysTypeOK, Begin, Keys
<1>2. \A b \in Caller : began'[b] <= clock
  BY DEF KeysIInv, KeysTypeOK, PastInv, Begin
<1>3. PastInv' /\ AgeInv' /\ OrderInv'
  BY <1>2, CallersKeep DEF Begin
<1>4. FreshInv'
  BY DEF KeysIInv, KeysTypeOK, FreshInv, Begin
<1>5. StalenessBounded'
  BY DEF KeysIInv, KeysTypeOK, StalenessBounded, CurrentSince, Begin
<1>6. QED
  BY <1>1, <1>3, <1>4, <1>5 DEF KeysIInv

\* A lookup that finds a usable entry returns keys that were current less
\* than TTL + Timeout ago.
LEMMA LookKeeps ==
    ASSUME KeysIInv, NEW c \in Caller, Look(c)
    PROVE  KeysIInv'
<1> USE FedKeysAssumption
<1>1. KeysTypeOK'
  BY DEF KeysIInv, KeysTypeOK, Look, Usable, Entry
<1>2. PastInv' /\ AgeInv' /\ OrderInv'
  BY CallersKeep DEF KeysIInv, PastInv, Look
<1>3. FreshInv'
  BY DEF KeysIInv, KeysTypeOK, FreshInv, Look
<1>4. ASSUME NEW b \in Caller, pc'[b] = "returned", result'[b] # 0
      PROVE  IF fresh[b] THEN CurrentSince(result'[b], began[b] - Timeout)
                         ELSE CurrentSince(result'[b], began[b] - TTL - Timeout)
  <2>1. CASE b # c
    BY <1>4, <2>1 DEF KeysIInv, KeysTypeOK, StalenessBounded, Look
  <2>2. CASE b = c
    <3>1. Usable /\ result'[c] = cache.keys /\ ~fresh[c]
      BY <1>4, <2>2 DEF KeysIInv, KeysTypeOK, FreshInv, Look
    <3>2. CurrentSince(cache.keys, cache.at - Timeout)
      BY <3>1 DEF KeysIInv, AgeInv, Usable
    <3>3. began[c] - TTL - Timeout <= cache.at - Timeout
      BY <3>1 DEF KeysIInv, KeysTypeOK, PastInv, Usable, Entry
    <3>4. CurrentSince(cache.keys, began[c] - TTL - Timeout)
      BY <3>1, <3>2, <3>3 DEF KeysIInv, KeysTypeOK, CurrentSince, Usable, Entry
    <3>5. QED
      BY <2>2, <3>1, <3>4
  <2>3. QED
    BY <2>1, <2>2
<1>5. StalenessBounded'
  BY <1>4 DEF StalenessBounded, CurrentSince, Look
<1>6. QED
  BY <1>1, <1>2, <1>3, <1>5 DEF KeysIInv

\* A lookup joins the request in flight, or starts one when there is none.
LEMMA DoKeeps ==
    ASSUME KeysIInv, NEW c \in Caller, Do(c)
    PROVE  KeysIInv'
<1> USE FedKeysAssumption
<1>1. CASE UNCHANGED flight
  <2>1. KeysTypeOK'
    BY <1>1 DEF KeysIInv, KeysTypeOK, Do, Takeoff, Flying
  <2>2. PastInv' /\ AgeInv' /\ OrderInv'
    BY <1>1, CallersKeep DEF KeysIInv, PastInv, Do
  <2>3. FreshInv' /\ StalenessBounded'
    BY DEF KeysIInv, KeysTypeOK, FreshInv, StalenessBounded, CurrentSince, Do
  <2>4. QED
    BY <2>1, <2>2, <2>3 DEF KeysIInv
<1>2. CASE Flying = {} /\ Takeoff(c)
  <2>1. KeysTypeOK'
    BY <1>2 DEF KeysIInv, KeysTypeOK, Do, Takeoff, Flight, Keys
  <2>2. /\ flight'[c] = [stage |-> "asking", keys |-> 0, at |-> clock]
        /\ \A d \in Caller : d # c => flight'[d] = None
    BY <1>2 DEF KeysIInv, KeysTypeOK, Takeoff, Flying
  <2>3. PastInv' /\ AgeInv' /\ OrderInv'
    BY <2>2 DEF KeysIInv, KeysTypeOK, PastInv, AgeInv, OrderInv, CurrentSince, Flying, Do
  <2>4. FreshInv' /\ StalenessBounded'
    BY DEF KeysIInv, KeysTypeOK, FreshInv, StalenessBounded, CurrentSince, Do
  <2>5. QED
    BY <2>1, <2>3, <2>4 DEF KeysIInv
<1>3. QED
  BY <1>1, <1>2 DEF Do

\* The request of caller d makes a step.
LEMMA FlightKeeps ==
    ASSUME KeysIInv, NEW d \in Caller, FlightStep(d)
    PROVE  KeysIInv'
<1> USE FedKeysAssumption
<1>1. flight[d] # None /\ flight[d] \in Flight
  BY DEF KeysIInv, KeysTypeOK, FlightStep, RemoteAnswers, StoreAnswer, FetchFails, Land
<1>2. \A e \in Caller : e # d => flight[e] = None
  BY <1>1 DEF KeysIInv, OrderInv, Flying
<1>3. CASE RemoteAnswers(d)
  <2>1. /\ flight'[d] = [flight[d] EXCEPT !.stage = "answered", !.keys = remote]
        /\ \A e \in Caller : e # d => flight'[e] = None
    BY <1>2, <1>3 DEF KeysIInv, KeysTypeOK, RemoteAnswers
  <2>2. KeysTypeOK'
    BY <1>1, <1>3 DEF KeysIInv, KeysTypeOK, RemoteAnswers, Flight
  <2>3. PastInv' /\ AgeInv' /\ OrderInv'
    BY <1>1, <1>3, <2>1
    DEF KeysIInv, KeysTypeOK, PastInv, AgeInv, OrderInv, CurrentSince, Flying, RemoteAnswers,
        Flight
  <2>4. FreshInv' /\ StalenessBounded'
    BY <1>3 DEF KeysIInv, FreshInv, StalenessBounded, CurrentSince, RemoteAnswers
  <2>5. QED
    BY <2>2, <2>3, <2>4 DEF KeysIInv
<1>4. CASE StoreAnswer(d)
  <2>1. /\ flight'[d] = [flight[d] EXCEPT !.stage = "cached"]
        /\ \A e \in Caller : e # d => flight'[e] = None
    BY <1>2, <1>4 DEF KeysIInv, KeysTypeOK, StoreAnswer
  <2>2. KeysTypeOK'
    BY <1>1, <1>4 DEF KeysIInv, KeysTypeOK, StoreAnswer, Flight, Entry
  <2>3. PastInv'
    BY <1>1, <1>4, <2>1 DEF KeysIInv, KeysTypeOK, PastInv, StoreAnswer, Flight
  <2>4. flight[d].keys # 0 =>
          /\ CurrentSince(flight[d].keys, flight[d].at)
          /\ CurrentSince(flight[d].keys, clock - Timeout)
    BY <1>1, <1>4
    DEF KeysIInv, KeysTypeOK, PastInv, AgeInv, CurrentSince, StoreAnswer, Flight
  <2>5. AgeInv'
    BY <1>1, <1>4, <2>1, <2>4 DEF KeysIInv, AgeInv, CurrentSince, StoreAnswer, Flight
  <2>6. flight[d].keys # 0 => flight[d].keys <= remote
    BY <1>1, <1>4 DEF KeysIInv, OrderInv, StoreAnswer
  <2>7. OrderInv'
    <3>1. flight'[d].keys = flight[d].keys /\ flight[d].keys \in Int
      BY <1>1, <2>1 DEF Flight, Keys
    <3>2. \A e, f \in Flying' : e = f
      BY <2>1 DEF Flying
    <3>3. CASE flight[d].keys = 0
      BY <1>4, <2>1, <3>1, <3>2, <3>3 DEF KeysIInv, OrderInv, StoreAnswer
    <3>4. CASE flight[d].keys # 0
      <4>1. cache'.keys = flight[d].keys
        BY <1>4, <3>4 DEF StoreAnswer
      <4>2. remote' = remote
        BY <1>4 DEF StoreAnswer
      <4>3. \A e \in Caller : flight'[e] # None => flight'[e].keys = flight[d].keys
        BY <2>1, <3>1
      <4>4. flight[d].keys <= remote /\ flight[d].keys <= flight[d].keys
        BY <2>6, <3>1, <3>4
      <4>5. QED
        BY <3>2, <4>1, <4>2, <4>3, <4>4 DEF OrderInv
    <3>5. QED
      BY <3>3, <3>4
  <2>8. FreshInv' /\ StalenessBounded'
    BY <1>4 DEF KeysIInv, FreshInv, StalenessBounded, CurrentSince, StoreAnswer
  <2>9. QED
    BY <2>2, <2>3, <2>5, <2>7, <2>8 DEF KeysIInv
<1>5. CASE FetchFails(d)
  <2>1. /\ flight'[d] = [flight[d] EXCEPT !.stage = "cached", !.keys = 0]
        /\ \A e \in Caller : e # d => flight'[e] = None
    BY <1>2, <1>5 DEF KeysIInv, KeysTypeOK, FetchFails
  <2>2. KeysTypeOK'
    <3>1. 0 \in Keys
      BY DEF Keys
    <3>2. flight'[d] \in Flight
      BY <1>1, <2>1, <3>1 DEF Flight
    <3>3. flight' \in [Caller -> Flight \cup {None}]
      BY <1>5, <2>1, <3>2 DEF KeysIInv, KeysTypeOK, FetchFails
    <3>4. QED
      BY <1>5, <3>3 DEF KeysIInv, KeysTypeOK, FetchFails
  <2>3. PastInv' /\ AgeInv' /\ OrderInv'
    BY <1>1, <1>5, <2>1
    DEF KeysIInv, KeysTypeOK, PastInv, AgeInv, OrderInv, CurrentSince, Flying, FetchFails,
        Flight
  <2>4. FreshInv' /\ StalenessBounded'
    BY <1>5 DEF KeysIInv, FreshInv, StalenessBounded, CurrentSince, FetchFails
  <2>5. QED
    BY <2>2, <2>3, <2>4 DEF KeysIInv
<1>6. CASE Land(d)
  <2>1. \A e \in Caller : flight'[e] = None
    BY <1>2, <1>6 DEF KeysIInv, KeysTypeOK, Land
  <2>2. KeysTypeOK'
    BY <1>1, <1>6 DEF KeysIInv, KeysTypeOK, Land, Flight
  <2>3. PastInv' /\ AgeInv' /\ OrderInv'
    BY <1>6, <2>1
    DEF KeysIInv, PastInv, AgeInv, OrderInv, CurrentSince, Flying, Land
  <2>4. FreshInv'
    BY <1>6 DEF KeysIInv, FreshInv, Land
  <2>5. ASSUME NEW c \in Waiting(d), flight[d].keys # 0
        PROVE  IF fresh[c] THEN CurrentSince(flight[d].keys, began[c] - Timeout)
                           ELSE CurrentSince(flight[d].keys, began[c] - TTL - Timeout)
    <3>1. CurrentSince(flight[d].keys, flight[d].at)
      BY <1>1, <1>6, <2>5 DEF KeysIInv, AgeInv, Land
    <3>2. began[c] - Timeout <= flight[d].at /\ began[c] - TTL - Timeout <= flight[d].at
      BY <1>1, <2>5 DEF KeysIInv, KeysTypeOK, PastInv, Waiting, Flight
    <3>3. QED
      BY <1>1, <2>5, <3>1, <3>2 DEF KeysIInv, KeysTypeOK, CurrentSince, Waiting, Flight
  <2>6. StalenessBounded'
    BY <1>6, <2>5 DEF KeysIInv, KeysTypeOK, StalenessBounded, CurrentSince, Land
  <2>7. QED
    BY <2>2, <2>3, <2>4, <2>6 DEF KeysIInv
<1>7. QED
  BY <1>3, <1>4, <1>5, <1>6 DEF FlightStep

\* The remote user rotates: what was current stays current since then.
LEMMA RemoteKeeps ==
    ASSUME KeysIInv, RemoteChanges
    PROVE  KeysIInv'
<1> USE FedKeysAssumption
<1>1. KeysTypeOK'
  BY DEF KeysIInv, KeysTypeOK, RemoteChanges, Keys
<1>2. ASSUME NEW k \in Keys, NEW t \in Int, t <= clock, CurrentSince(k, t)
      PROVE  CurrentSince(k, t)'
  BY <1>2 DEF KeysIInv, KeysTypeOK, CurrentSince, RemoteChanges
<1>3. PastInv' /\ FreshInv'
  BY DEF KeysIInv, PastInv, FreshInv, RemoteChanges
<1>4. AgeInv'
  <2>1. cache # None => CurrentSince(cache.keys, cache.at - Timeout)'
    BY <1>2 DEF KeysIInv, KeysTypeOK, PastInv, AgeInv, RemoteChanges, Entry
  <2>2. ASSUME NEW d \in Caller, flight[d] # None, flight[d].stage # "asking",
               flight[d].keys # 0
        PROVE  CurrentSince(flight[d].keys, flight[d].at)'
    BY <1>2, <2>2 DEF KeysIInv, KeysTypeOK, PastInv, AgeInv, RemoteChanges, Flight
  <2>3. QED
    BY <2>1, <2>2 DEF AgeInv, RemoteChanges
<1>5. StalenessBounded'
  <2>1. SUFFICES ASSUME NEW c \in Caller, pc[c] = "returned", result[c] # 0
                 PROVE  IF fresh[c] THEN CurrentSince(result[c], began[c] - Timeout)'
                        ELSE CurrentSince(result[c], began[c] - TTL - Timeout)'
    BY DEF StalenessBounded, RemoteChanges
  <2>2. /\ began[c] - Timeout \in Int /\ began[c] - Timeout <= clock
        /\ began[c] - TTL - Timeout \in Int /\ began[c] - TTL - Timeout <= clock
        /\ result[c] \in Keys
    BY DEF KeysIInv, KeysTypeOK, PastInv
  <2>3. QED
    BY <1>2, <2>1, <2>2 DEF KeysIInv, StalenessBounded, RemoteChanges
<1>6. OrderInv'
  <2>1. remote \in Int /\ remote' = remote + 1
    BY DEF KeysIInv, KeysTypeOK, RemoteChanges, Keys
  <2>2. cache # None => cache.keys \in Int
    BY DEF KeysIInv, KeysTypeOK, Entry, Keys
  <2>3. \A d \in Caller : flight[d] # None => flight[d].keys \in Int
    BY DEF KeysIInv, KeysTypeOK, Flight, Keys
  <2>4. cache' = cache /\ flight' = flight
    BY DEF RemoteChanges
  <2>5. QED
    BY <2>1, <2>2, <2>3, <2>4 DEF KeysIInv, OrderInv, Flying
<1>7. QED
  BY <1>1, <1>3, <1>4, <1>5, <1>6 DEF KeysIInv

\* Time passes, never beyond the timeout of a request.
LEMMA TickKeeps ==
    ASSUME KeysIInv, Tick
    PROVE  KeysIInv'
<1> USE FedKeysAssumption
<1>1. KeysTypeOK'
  BY DEF KeysIInv, KeysTypeOK, Tick
<1>2. PastInv'
  BY DEF KeysIInv, KeysTypeOK, PastInv, Tick, Flying, Entry, Flight
<1>3. AgeInv' /\ FreshInv' /\ StalenessBounded' /\ OrderInv'
  BY DEF KeysIInv, AgeInv, FreshInv, StalenessBounded, OrderInv, CurrentSince, Flying, Tick
<1>4. QED
  BY <1>1, <1>2, <1>3 DEF KeysIInv

-----------------------------------------------------------------------------
LEMMA KeysInductive == KeysIInv /\ [KeysNext]_keysVars => KeysIInv'
<1>1. SUFFICES ASSUME KeysIInv, [KeysNext]_keysVars PROVE KeysIInv'
  OBVIOUS
<1>2. CASE UNCHANGED keysVars
  BY <1>1, <1>2 DEF keysVars, KeysIInv, KeysTypeOK, PastInv, AgeInv, FreshInv, StalenessBounded,
     OrderInv, CurrentSince, Flying
<1>3. QED
  BY <1>1, <1>2, BeginKeeps, LookKeeps, DoKeeps, FlightKeeps, RemoteKeeps, TickKeeps
  DEF KeysNext

\* KeysIInv holds of every execution, with or without fairness.
THEOREM KeysInvariance == KeysSpec => []KeysIInv
  BY KeysInitEstablishes, KeysInductive, PTL DEF KeysSpec

\* The variables always have their types; in particular an error is never
\* cached (keys.go:67).
THEOREM KeysTypeCorrect == KeysSpec => []KeysTypeOK
<1>1. KeysIInv => KeysTypeOK
  BY DEF KeysIInv
<1>2. QED
  BY <1>1, KeysInvariance, PTL

\* A lookup returns keys that were the user's less than TTL + Timeout before it
\* began, a fresh one at most Timeout before (keys.go Lookup).
THEOREM AnswersAreRecent == KeysSpec => []StalenessBounded
<1>1. KeysIInv => StalenessBounded
  BY DEF KeysIInv
<1>2. QED
  BY <1>1, KeysInvariance, PTL

\* The cache never goes back to older keys (keys.go:64-74).
THEOREM CacheIsMonotonic == KeysSpec => CacheMovesForward
<1>1. ASSUME KeysIInv, [KeysNext]_keysVars, cache # None, cache' # cache
      PROVE  cache'.keys >= cache.keys
  <2>1. PICK d \in Caller : StoreAnswer(d)
    BY <1>1 DEF KeysNext, keysVars, Begin, Look, Do, FlightStep, RemoteAnswers, FetchFails,
       Land, RemoteChanges, Tick
  <2>2. cache' = [keys |-> flight[d].keys, at |-> clock] /\ flight[d].keys # 0
    BY <1>1, <2>1 DEF StoreAnswer
  <2>3. cache.keys <= flight[d].keys
    BY <1>1, <2>1, <2>2 DEF KeysIInv, OrderInv, StoreAnswer
  <2>4. cache.keys \in Int /\ flight[d].keys \in Int
    BY <1>1, <2>1 DEF KeysIInv, KeysTypeOK, StoreAnswer, Entry, Flight, Keys
  <2>5. QED
    BY <2>2, <2>3, <2>4
<1>2. KeysIInv /\ [KeysNext]_keysVars
      => [cache # None /\ cache' # cache => cache'.keys >= cache.keys]_keysVars
  BY <1>1
<1>3. QED
  BY <1>2, KeysInvariance, PTL DEF KeysSpec, CacheMovesForward
=============================================================================
