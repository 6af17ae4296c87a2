----------------------------- MODULE Federation -----------------------------
(***************************************************************************)
(* Mail to a user of another instance, from the command line to the        *)
(* recipient's database: the client's send command and its drafts          *)
(* (client/src/cli/main.c), the sender's instance, which relays the mail   *)
(* before it files its own copy (internal/api/handlers.go), and the        *)
(* recipient's.                                                            *)
(*                                                                         *)
(* Every connection may break, every answer may be lost, and a process may *)
(* end at any step; nothing is queued and nobody but the user retries.     *)
(* What the two instances check, and how their handlers interleave, is in  *)
(* Server; here a check passes or fails.  A signature is new with every    *)
(* submission (the mail is encrypted and dated anew), so a submission is a *)
(* text and the number of its sending.  The user, at one terminal, runs    *)
(* one command per text at a time.                                         *)
(***************************************************************************)
EXTENDS Integers

CONSTANTS Text,       \* what the user writes
          MaxSends    \* bound: submissions of one text

ASSUME FederationAssumption == MaxSends \in Nat \ {0}

Submission == [text : Text, no : 1 .. MaxSends]

VARIABLES command,    \* the command that holds each text: its step, and whence the text
          drafts,     \* texts in the drafts directory
          sends,      \* how often each text was submitted
          here,       \* the sender's instance: the handler of each submission
          there,      \* the recipient's
          filed,      \* mail rows of the sender's instance
          delivered   \* mail rows of the recipient's instance

\* History, for the properties.
VARIABLES written,      \* texts the user has written
          outcome,      \* what the client learned about each submission
          failed,       \* texts whose last command returned with a failure
          interrupted   \* texts whose command was killed, or whose draft could
                        \* not be deleted

clientVars == <<command, drafts, sends>>
history == <<written, outcome, failed, interrupted>>
vars == <<clientVars, here, there, filed, delivered, history>>

Command == [step : {"idle", "prompt", "submit", "waiting", "sent", "failed"},
            from : {"stdin", "draft"}]

\* The steps of a submission's handler; the last four end it: answered, or gone.
HereSteps == {"none", "request", "relay", "insert", "sent", "refused", "unclear", "gone"}

ThereSteps == {"none", "request", "insert", "accepted", "refused", "failed", "gone"}

Idle == [step |-> "idle", from |-> "draft"]

Init ==
    /\ command = [t \in Text |-> Idle]
    /\ drafts = {}
    /\ sends = [t \in Text |-> 0]
    /\ here = [s \in Submission |-> "none"]
    /\ there = [s \in Submission |-> "none"]
    /\ filed = {} /\ delivered = {}
    /\ written = {} /\ failed = {} /\ interrupted = {}
    /\ outcome = [s \in Submission |-> "none"]

-----------------------------------------------------------------------------
\* The client.

At(t, step) == command[t].step = step

GoTo(t, step) == command' = [command EXCEPT ![t].step = step]

\* The submission that t's command waits for.
Current(t) == [text |-> t, no |-> sends[t]]

ServersUnchanged == UNCHANGED <<here, there, filed, delivered>>

\* shyake send < text
Send(t) ==
    /\ t \notin written
    /\ command' = [command EXCEPT ![t] = [step |-> "prompt", from |-> "stdin"]]
    /\ written' = written \cup {t}
    /\ UNCHANGED <<drafts, sends, outcome, failed, interrupted>>
    /\ ServersUnchanged

\* shyake send -d
SendDraft(t) ==
    /\ At(t, "idle") /\ t \in drafts
    /\ command' = [command EXCEPT ![t] = [step |-> "prompt", from |-> "draft"]]
    /\ failed' = failed \ {t}
    /\ UNCHANGED <<drafts, sends, written, outcome, interrupted>>
    /\ ServersUnchanged

\* The subject is checked and the passphrase read; when one of them will not
\* do, the command ends here.
Prompt(t) ==
    /\ At(t, "prompt")
    /\ \/ /\ GoTo(t, "submit")
          /\ UNCHANGED failed
       \/ /\ command' = [command EXCEPT ![t] = Idle]
          /\ failed' = failed \cup {t}
    /\ UNCHANGED <<drafts, sends, written, outcome, interrupted>>
    /\ ServersUnchanged

\* The recipient's keys are fetched and compared, the text is encrypted and
\* signed, and the request sets out; any of this may fail.
Submit(t) ==
    /\ At(t, "submit")
    /\ \/ /\ sends[t] < MaxSends
          /\ GoTo(t, "waiting")
          /\ sends' = [sends EXCEPT ![t] = @ + 1]
          /\ here' = [here EXCEPT ![[text |-> t, no |-> sends[t] + 1]] = "request"]
       \/ /\ GoTo(t, "failed")
          /\ UNCHANGED <<sends, here>>
    /\ UNCHANGED <<drafts, there, filed, delivered, history>>

\* The answer arrives.
Reply(t) ==
    /\ At(t, "waiting")
    /\ here[Current(t)] \in {"sent", "refused", "unclear"}
    /\ outcome' = [outcome EXCEPT ![Current(t)] = here[Current(t)]]
    /\ GoTo(t, IF here[Current(t)] = "sent" THEN "sent" ELSE "failed")
    /\ UNCHANGED <<drafts, sends, written, failed, interrupted>>
    /\ ServersUnchanged

\* The connection breaks before the answer.
NoReply(t) ==
    /\ At(t, "waiting")
    /\ outcome' = [outcome EXCEPT ![Current(t)] = "unclear"]
    /\ GoTo(t, "failed")
    /\ UNCHANGED <<drafts, sends, written, failed, interrupted>>
    /\ ServersUnchanged

\* The draft stays when it was sent.
FinishKeepingDraft(t) ==
    /\ At(t, "sent")
    /\ command' = [command EXCEPT ![t] = Idle]
    /\ UNCHANGED <<drafts, sends, written, outcome, failed, interrupted>>
    /\ ServersUnchanged

\* Sent: the draft is deleted, if unlink works.
Finish(t) ==
    /\ At(t, "sent")
    /\ command' = [command EXCEPT ![t] = Idle]
    /\ \/ /\ drafts' = drafts \ {t}
          /\ UNCHANGED interrupted
       \/ /\ t \in drafts
          /\ interrupted' = interrupted \cup {t}
          /\ UNCHANGED drafts
    /\ UNCHANGED <<sends, written, outcome, failed>>
    /\ ServersUnchanged

\* The draft goes whether or not its mail was sent.
RescueDroppingDraft(t) ==
    /\ At(t, "failed")
    /\ command' = [command EXCEPT ![t] = Idle]
    /\ drafts' = IF command[t].from = "draft" THEN drafts \ {t} ELSE drafts \cup {t}
    /\ failed' = failed \cup {t}
    /\ UNCHANGED <<sends, written, outcome, interrupted>>
    /\ ServersUnchanged

\* Not sent: a text from the input is saved as a draft, if that works; one
\* from a draft is still there.
Rescue(t) ==
    /\ At(t, "failed")
    /\ command' = [command EXCEPT ![t] = Idle]
    /\ \/ drafts' = drafts \cup {t}
       \/ command[t].from = "stdin" /\ UNCHANGED drafts
    /\ failed' = failed \cup {t}
    /\ UNCHANGED <<sends, written, outcome, interrupted>>
    /\ ServersUnchanged

\* The process is killed, and with it what only it held.
Kill(t) ==
    /\ command[t].step # "idle"
    /\ command' = [command EXCEPT ![t] = Idle]
    /\ interrupted' = interrupted \cup {t}
    /\ UNCHANGED <<drafts, sends, written, outcome, failed>>
    /\ ServersUnchanged

-----------------------------------------------------------------------------
\* The sender's instance, POST /api/mail (handlers.go sendMail).

\* Every check before the relay passes, and the request goes out to the
\* recipient's instance; or one fails.
Check(s) ==
    /\ here[s] = "request"
    /\ \/ /\ here' = [here EXCEPT ![s] = "relay"]
          /\ there' = [there EXCEPT ![s] = "request"]
       \/ /\ \E answer \in {"refused", "unclear"} : here' = [here EXCEPT ![s] = answer]
          /\ UNCHANGED there
    /\ UNCHANGED <<clientVars, filed, delivered, history>>

\* An answer is an answer.
AnswerAnyStatus(s) ==
    /\ here[s] = "relay"
    /\ there[s] \in {"accepted", "refused", "failed"}
    /\ here' = [here EXCEPT ![s] = "insert"]
    /\ UNCHANGED <<clientVars, there, filed, delivered, history>>

\* 2xx goes on to the insertion, 4xx is the sender's answer too, the rest
\* (408 and 429 among it) is a 502.
RelayAnswered(s) ==
    /\ here[s] = "relay"
    /\ \/ /\ there[s] = "accepted"
          /\ here' = [here EXCEPT ![s] = "insert"]
       \/ /\ there[s] = "refused"
          /\ here' = [here EXCEPT ![s] = "refused"]
       \/ /\ there[s] = "failed"
          /\ here' = [here EXCEPT ![s] = "unclear"]
    /\ UNCHANGED <<clientVars, there, filed, delivered, history>>

\* Without relayTimeout only a broken connection is noticed.
RelayWaits(s) ==
    /\ here[s] = "relay" /\ there[s] = "gone"
    /\ here' = [here EXCEPT ![s] = "unclear"]
    /\ UNCHANGED <<clientVars, there, filed, delivered, history>>

\* No answer within relayTimeout, or a broken connection: a 502, whatever
\* became of the request.
RelayFails(s) ==
    /\ here[s] = "relay"
    /\ here' = [here EXCEPT ![s] = "unclear"]
    /\ UNCHANGED <<clientVars, there, filed, delivered, history>>

\* The sender's copy, or a 500.
InsertCopy(s) ==
    /\ here[s] = "insert"
    /\ \/ /\ filed' = filed \cup {s}
          /\ here' = [here EXCEPT ![s] = "sent"]
       \/ /\ here' = [here EXCEPT ![s] = "unclear"]
          /\ UNCHANGED filed
    /\ UNCHANGED <<clientVars, there, delivered, history>>

\* The process ends, or its client has hung up.
Abandon(s) ==
    /\ here[s] \in {"request", "relay", "insert"}
    /\ here' = [here EXCEPT ![s] = "gone"]
    /\ UNCHANGED <<clientVars, there, filed, delivered, history>>

-----------------------------------------------------------------------------
\* The recipient's instance: the same handler for a mail to a local user.

RemoteCheck(s) ==
    /\ there[s] = "request"
    /\ \E step \in {"insert", "refused", "failed"} :
          there' = [there EXCEPT ![s] = step]
    /\ UNCHANGED <<clientVars, here, filed, delivered, history>>

RemoteInsert(s) ==
    /\ there[s] = "insert"
    /\ \/ /\ delivered' = delivered \cup {s}
          /\ there' = [there EXCEPT ![s] = "accepted"]
       \/ /\ there' = [there EXCEPT ![s] = "failed"]
          /\ UNCHANGED delivered
    /\ UNCHANGED <<clientVars, here, filed, history>>

\* The request never arrives, or the process that handles it ends.
RemoteAbandon(s) ==
    /\ there[s] \in {"request", "insert"}
    /\ there' = [there EXCEPT ![s] = "gone"]
    /\ UNCHANGED <<clientVars, here, filed, delivered, history>>

-----------------------------------------------------------------------------
\* The connection of a handler that is gone breaks.
HungUp(t) ==
    /\ At(t, "waiting")
    /\ here[Current(t)] = "gone"
    /\ NoReply(t)

ClientStep(t) == Submit(t) \/ Reply(t) \/ Finish(t) \/ Rescue(t)

HereStep(s) == Check(s) \/ RelayAnswered(s) \/ RelayFails(s) \/ InsertCopy(s)

Next ==
    \/ \E t \in Text :
          \/ Send(t) \/ SendDraft(t) \/ Prompt(t) \/ ClientStep(t)
          \/ NoReply(t) \/ Kill(t)
    \/ \E s \in Submission :
          \/ HereStep(s) \/ Abandon(s)
          \/ RemoteCheck(s) \/ RemoteInsert(s) \/ RemoteAbandon(s)

\* The client and the sender's instance run on, and the client notices when
\* the instance is gone.  Nothing is assumed of the recipient's instance or of
\* the user.
Fairness ==
    /\ \A t \in Text : WF_vars(ClientStep(t) \/ HungUp(t))
    /\ \A s \in Submission : WF_vars(HereStep(s))

Spec == Init /\ [][Next]_vars

FairSpec == Spec /\ Fairness

-----------------------------------------------------------------------------
TypeOK ==
    /\ command \in [Text -> Command]
    /\ drafts \subseteq Text
    /\ sends \in [Text -> 0 .. MaxSends]
    /\ here \in [Submission -> HereSteps]
    /\ there \in [Submission -> ThereSteps]
    /\ filed \subseteq Submission
    /\ delivered \subseteq Submission
    /\ written \subseteq Text
    /\ outcome \in [Submission -> {"none", "sent", "refused", "unclear"}]
    /\ failed \subseteq Text
    /\ interrupted \subseteq Text

\* A text is at the recipient twice only for a reason: an earlier submission
\* of it ended in an unclear answer (a 5xx, a broken connection), or its
\* command was killed or could not delete the draft.  A definite answer, sent
\* or refused, never leads to a second copy (main.c send -d, SPEC 6.2).
DuplicatesExplained ==
    \A m, n \in delivered :
        m.text = n.text /\ m.no < n.no =>
            outcome[m] = "unclear" \/ m.text \in interrupted

\* A draft is deleted only when its text is with the recipient and the sender's
\* copy is filed: whatever is lost, killed or refused, the text stays
\* (main.c send -d).
DraftsKept ==
    [][\A t \in drafts \ drafts' : \E s \in delivered \cap filed : s.text = t]_vars

\* A command that waits for its instance returns, even when the recipient's
\* instance never answers (relay.go relayTimeout).
CommandsReturn == \A t \in Text : At(t, "waiting") ~> ~At(t, "waiting")

Promise == INSTANCE Delivery WITH answered <- outcome

\* The client and the two instances keep the promise of Delivery.
ImplementsDelivery == Promise!Spec

\* "If a send fails, for any reason, the client saves what you wrote as a
\* draft" (README.md:142).  It does not hold: a command that ends at Prompt
\* returns without the rescue.
FailedSendsKept == failed \subseteq drafts
=============================================================================
