------------------------------- MODULE Drafts -------------------------------
(***************************************************************************)
(* The drafts directory of a client (client/src/cli/drafts.c) under the    *)
(* commands that write into it: compose, reply and send (cli/main.c).      *)
(* Each run of the client is one command, and each access to the directory *)
(* or the instance one of its steps; nothing locks the directory.          *)
(*                                                                         *)
(* A text is named by the command it was written in.  A file holds a text, *)
(* the mail it answers and its recipient, or nothing that can be read: it  *)
(* is torn from the moment it is opened to be written.  What the instance  *)
(* does with a submission is in Federation; keys are in ClientKeys.        *)
(***************************************************************************)
EXTENDS Integers, FiniteSets

CONSTANTS Command,      \* runs of the client
          User,         \* recipients
          Mail,         \* mail that can be answered
          Party,        \* the user a reply to a mail goes to
          NoText, NoMail, Nobody,
          MaxId,        \* bound: draft ids
          MaxAtOnce     \* bound: commands that run at one time

ASSUME DraftsAssumption ==
    /\ Party \in [Mail -> User]
    /\ NoText \notin Command /\ NoMail \notin Mail /\ Nobody \notin User
    /\ MaxId \in Nat \ {0} /\ MaxAtOnce \in Nat \ {0}

Id == 1 .. MaxId

VARIABLES files,      \* drafts/<id>.json
          command,    \* the step of each command, and what it holds
          accepted    \* what the instance accepted

\* History, for the properties.
VARIABLES saved,      \* where each text was last reported as saved, 0 if nowhere
          origin,     \* the text each text was edited from
          removed,    \* texts of files the user removed
          broken,     \* ids whose file a command did not write to its end
          crossed     \* ids that two commands, or one and the user, had at once

history == <<saved, origin, removed, broken, crossed>>
vars == <<files, command, accepted, history>>

Draft == [text : Command, ref : Mail \cup {NoMail}, to : User \cup {Nobody}]

Absent == [state |-> "absent"]
Torn == [state |-> "torn"]

\* id is 0 while the command has no draft, base the text it read from one;
\* ask is whether it offers to send what it saves.
Holding == [step : {"idle", "edit", "seal", "scan", "create", "open", "write",
                    "orphan", "ask", "reread", "submit", "delete", "done"},
            id : 0 .. MaxId + 1, base : Command \cup {NoText},
            text : Command \cup {NoText}, ref : Mail \cup {NoMail},
            to : User \cup {Nobody}, ask : BOOLEAN]

Idle == [step |-> "idle", id |-> 0, base |-> NoText, text |-> NoText,
         ref |-> NoMail, to |-> Nobody, ask |-> FALSE]

Sent == [text : Command, ref : Mail \cup {NoMail}, to : User, id : 0 .. MaxId]

Init ==
    /\ files = [i \in Id |-> Absent]
    /\ command = [c \in Command |-> Idle]
    /\ accepted = {}
    /\ saved = [t \in Command |-> 0]
    /\ origin = [t \in Command |-> NoText]
    /\ removed = {} /\ broken = {} /\ crossed = {}

-----------------------------------------------------------------------------
At(c, step) == command[c].step = step

Running(c) == ~At(c, "idle") /\ ~At(c, "done")

Readable(i) == files[i] \notin {Absent, Torn}

\* A command has a draft from when it read or created it until it ends.
Has(r, i) == r.id = i /\ r.step \notin {"idle", "done", "scan", "create"}

Has2(commands) == {i \in Id : \E c, d \in Command : c # d /\ Has(commands[c], i) /\ Has(commands[d], i)}

\* Commands go on as commands says.
Go(commands) ==
    /\ command' = commands
    /\ crossed' = crossed \cup Has2(commands)

Advance(c, r) == Go([command EXCEPT ![c] = r])

GoTo(c, step) == Advance(c, [command[c] EXCEPT !.step = step])

-----------------------------------------------------------------------------
\* The commands begin.  A wrong passphrase, a mail that cannot be fetched, or a
\* draft that cannot be read end them before they do anything.

Begin(c, r) ==
    /\ At(c, "idle")
    /\ Cardinality({d \in Command : Running(d)}) < MaxAtOnce
    /\ Advance(c, r)
    /\ UNCHANGED <<files, accepted, saved, origin, removed, broken>>

\* cli_read_draft.
HoldingDraft(i, step) ==
    [Idle EXCEPT !.step = step, !.id = i, !.base = files[i].text, !.text = files[i].text,
                 !.ref = files[i].ref, !.to = files[i].to]

\* shyake compose [<id>]
Compose(c) ==
    \/ Begin(c, [Idle EXCEPT !.step = "edit"])
    \/ \E i \in Id : Readable(i) /\ Begin(c, HoldingDraft(i, "edit"))

\* shyake reply <mail> [-d <draft>]
Reply(c) ==
    \E m \in Mail :
        \/ Begin(c, [Idle EXCEPT !.step = "edit", !.ref = m, !.to = Party[m], !.ask = TRUE])
        \/ \E i \in Id : Readable(i) /\ Begin(c, [HoldingDraft(i, "seal") EXCEPT
                                          !.ref = m, !.to = Party[m], !.ask = TRUE])

\* shyake send -t <user> and reply <mail>, with a text from a file or a pipe
SendText(c) ==
    LET r == [Idle EXCEPT !.step = "submit", !.text = c] IN
    \/ \E u \in User : Begin(c, [r EXCEPT !.to = u])
    \/ \E m \in Mail : Begin(c, [r EXCEPT !.ref = m, !.to = Party[m]])

\* Sends the draft of a reply wherever -t says.
SendDraftAnywhere(c) ==
    \E i \in Id :
        /\ Readable(i)
        /\ \/ files[i].to # Nobody /\ Begin(c, HoldingDraft(i, "submit"))
           \/ \E u \in User : Begin(c, [HoldingDraft(i, "submit") EXCEPT !.to = u])

\* shyake send -d <draft> [-t <user>]
SendDraft(c) ==
    \E i \in Id :
        /\ Readable(i)
        /\ \/ files[i].to # Nobody /\ Begin(c, HoldingDraft(i, "submit"))
           \/ \E u \in User : /\ files[i].ref # NoMail => u = files[i].to
                              /\ Begin(c, [HoldingDraft(i, "submit") EXCEPT !.to = u])

-----------------------------------------------------------------------------
\* The editor: aborted, or a text.  Only a reply keeps its recipient.
Edit(c) ==
    /\ At(c, "edit")
    /\ LET r == command[c] IN
       \/ GoTo(c, "done") /\ UNCHANGED origin
       \/ /\ \E u \in User \cup {Nobody} :
                /\ r.ref # NoMail => u = r.to
                /\ Advance(c, [r EXCEPT !.step = "seal", !.text = c, !.to = u])
          /\ origin' = [origin EXCEPT ![c] = r.base]
    /\ UNCHANGED <<files, accepted, saved, removed, broken>>

-----------------------------------------------------------------------------
\* cli_save_draft.

\* Opens the file before the text is sealed, and the sealing may fail.
SealLate(c) ==
    /\ At(c, "seal")
    /\ LET i == command[c].id IN
       IF i = 0
       THEN GoTo(c, "scan") /\ UNCHANGED files
       ELSE IF files[i] = Absent
       THEN GoTo(c, "done") /\ UNCHANGED files
       ELSE (GoTo(c, "write") \/ GoTo(c, "done")) /\ files' = [files EXCEPT ![i] = Torn]
    /\ UNCHANGED <<accepted, saved, origin, removed, broken>>

\* An old draft has to be there; the text is sealed to the user's own key, if
\* that is there.
Seal(c) ==
    /\ At(c, "seal")
    /\ \/ command[c].id = 0 /\ GoTo(c, "scan")
       \/ command[c].id # 0 /\ files[command[c].id] # Absent /\ GoTo(c, "open")
       \/ GoTo(c, "done")
    /\ UNCHANGED <<files, accepted, saved, origin, removed, broken>>

\* The highest id in the directory, and one more (max_draft_id).
Scan(c) ==
    /\ At(c, "scan")
    /\ \E i \in 1 .. MaxId + 1 :
          /\ i # 1 => files[i - 1] # Absent
          /\ \A j \in Id : j >= i => files[j] = Absent
          /\ Advance(c, [command[c] EXCEPT !.step = "create", !.id = i])
    /\ UNCHANGED <<files, accepted, saved, origin, removed, broken>>

\* Opens whatever has the id.
CreateAny(c) ==
    /\ At(c, "create")
    /\ LET i == command[c].id IN
       IF i \in Id
       THEN GoTo(c, "write") /\ files' = [files EXCEPT ![i] = Torn]
       ELSE GoTo(c, "done") /\ UNCHANGED files
    /\ UNCHANGED <<accepted, saved, origin, removed, broken>>

\* O_EXCL: an id that was taken meanwhile is passed over.
Create(c) ==
    /\ At(c, "create")
    /\ LET i == command[c].id IN
       \/ /\ i \in Id /\ files[i] = Absent
          /\ GoTo(c, "write")
          /\ files' = [files EXCEPT ![i] = Torn]
       \/ /\ i \in Id /\ files[i] # Absent
          /\ Advance(c, [command[c] EXCEPT !.id = i + 1])
          /\ UNCHANGED files
       \/ /\ GoTo(c, "done")
          /\ UNCHANGED files
    /\ UNCHANGED <<accepted, saved, origin, removed, broken>>

\* O_TRUNC.
Open(c) ==
    /\ At(c, "open")
    /\ LET i == command[c].id IN
       \/ files[i] # Absent /\ GoTo(c, "write") /\ files' = [files EXCEPT ![i] = Torn]
       \/ GoTo(c, "done") /\ UNCHANGED files
    /\ UNCHANGED <<accepted, saved, origin, removed, broken>>

\* The text is written, or part of it; nobody looks.  A file that was unlinked
\* in the meantime is written all the same.
Write(c) ==
    /\ At(c, "write") \/ At(c, "orphan")
    /\ LET r == command[c] IN
       /\ GoTo(c, IF r.ask THEN "ask" ELSE "done")
       /\ saved' = [saved EXCEPT ![r.text] = r.id]
       /\ \/ /\ At(c, "write")
             /\ files' = [files EXCEPT ![r.id] = [text |-> r.text, ref |-> r.ref, to |-> r.to]]
             /\ UNCHANGED broken
          \/ /\ At(c, "write")
             /\ files' = [files EXCEPT ![r.id] = Torn]
             /\ broken' = broken \cup {r.id}
          \/ /\ At(c, "orphan")
             /\ UNCHANGED <<files, broken>>
    /\ UNCHANGED <<accepted, origin, removed>>

-----------------------------------------------------------------------------
\* offer_reply_send: "Send it to ... now?"
Ask(c) ==
    /\ At(c, "ask")
    /\ GoTo(c, "reread") \/ GoTo(c, "done")
    /\ UNCHANGED <<files, accepted, saved, origin, removed, broken>>

\* The draft is read again; the recipient is still the one of the reply.
Reread(c) ==
    /\ At(c, "reread")
    /\ LET r == command[c] IN
       \/ /\ Readable(r.id) /\ files[r.id].ref # NoMail
          /\ Advance(c, [HoldingDraft(r.id, "submit") EXCEPT !.to = r.to])
       \/ GoTo(c, "done")
    /\ UNCHANGED <<files, accepted, saved, origin, removed, broken>>

Submission(c) == [text |-> command[c].text, ref |-> command[c].ref,
                  to |-> command[c].to, id |-> command[c].id]

\* Deletes the draft whatever the answer was.
SubmitOnce(c) ==
    /\ At(c, "submit")
    /\ accepted' \in {accepted, accepted \cup {Submission(c)}}
    /\ GoTo(c, IF command[c].id # 0 THEN "delete" ELSE "done")
    /\ UNCHANGED <<files, saved, origin, removed, broken>>

\* Accepted; or refused, or not heard of: a draft stays, and a text becomes one
\* (rescue_draft).
Submit(c) ==
    /\ At(c, "submit")
    /\ LET drafted == command[c].id # 0 IN
       \/ /\ accepted' = accepted \cup {Submission(c)}
          /\ GoTo(c, IF drafted THEN "delete" ELSE "done")
       \/ /\ accepted' \in {accepted, accepted \cup {Submission(c)}}
          /\ GoTo(c, IF drafted THEN "done" ELSE "seal")
    /\ UNCHANGED <<files, saved, origin, removed, broken>>

\* A command that writes to a file of id i writes to no draft.
Unlinked(i) == [c \in Command |-> IF command[c].id = i /\ At(c, "write")
                                  THEN [command[c] EXCEPT !.step = "orphan"] ELSE command[c]]

\* cli_delete_draft.
Delete(c) ==
    /\ At(c, "delete")
    /\ LET i == command[c].id IN
       \/ /\ files' = [files EXCEPT ![i] = Absent]
          /\ Go([Unlinked(i) EXCEPT ![c].step = "done"])
       \/ /\ GoTo(c, "done")
          /\ UNCHANGED files
    /\ UNCHANGED <<accepted, saved, origin, removed, broken>>

-----------------------------------------------------------------------------
\* The user removes a file, the documented way to delete a draft (cli/man.c).
Remove(i) ==
    /\ files[i] # Absent
    /\ files' = [files EXCEPT ![i] = Absent]
    /\ command' = Unlinked(i)
    /\ removed' = IF Readable(i) THEN removed \cup {files[i].text} ELSE removed
    /\ crossed' = crossed \cup {j \in {i} : \E c \in Command : Has(command[c], j)}
    /\ UNCHANGED <<accepted, saved, origin, broken>>

Kill(c) ==
    /\ Running(c)
    /\ GoTo(c, "done")
    /\ broken' = broken \cup (IF At(c, "write") THEN {command[c].id} ELSE {})
    /\ UNCHANGED <<files, accepted, saved, origin, removed>>

Step(c) ==
    \/ Compose(c) \/ Reply(c) \/ SendText(c) \/ SendDraft(c)
    \/ Edit(c) \/ Seal(c) \/ Scan(c) \/ Create(c) \/ Open(c) \/ Write(c)
    \/ Ask(c) \/ Reread(c) \/ Submit(c) \/ Delete(c) \/ Kill(c)

Next == (\E c \in Command : Step(c)) \/ (\E i \in Id : Remove(i))

Spec == Init /\ [][Next]_vars

-----------------------------------------------------------------------------
TypeOK ==
    /\ files \in [Id -> Draft \cup {Absent, Torn}]
    /\ command \in [Command -> Holding]
    /\ accepted \subseteq Sent
    /\ saved \in [Command -> 0 .. MaxId]
    /\ origin \in [Command -> Command \cup {NoText}]
    /\ removed \subseteq Command
    /\ broken \subseteq Id /\ crossed \subseteq Id

\* What was reported as saved is on file, unless it was accepted, the user
\* removed it, or an edited text that was saved replaced it: "a failed send must
\* not eat what the user wrote" (cli/main.c).  Broken writes, and commands that
\* have one draft at once, are the exceptions.
TextsKept ==
    \A t \in Command : saved[t] # 0 /\ saved[t] \notin broken \cup crossed =>
        \/ Readable(saved[t]) /\ files[saved[t]].text = t
        \/ t \in removed
        \/ \E s \in accepted : s.text = t
        \/ \E u \in Command : origin[u] = t /\ saved[u] = saved[t]
        \/ \E c \in Command : At(c, "write") /\ command[c].id = saved[t] /\ command[c].base = t

\* A reply goes to the other party of the mail it answers, by whichever way its
\* draft came to be, was edited and sent: "You cannot change its recipient"
\* (README.md, reply).  When two commands have a draft, the second may make it a
\* reply to another mail while the first asks whether to send it.
RepliesGoHome ==
    /\ \A i \in Id : Readable(i) /\ files[i].ref # NoMail => files[i].to = Party[files[i].ref]
    /\ \A s \in accepted : s.ref # NoMail /\ s.id \notin crossed => s.to = Party[s.ref]

\* A file is torn only while somebody writes it, or when a write was cut off:
\* what can fail before that fails before the file is opened.
TornExplained ==
    \A i \in Id : files[i] = Torn =>
        i \in broken \/ \E c \in Command : At(c, "write") /\ command[c].id = i

\* A draft is overwritten or deleted only by its user, or by a command that has
\* it and has read the text that is lost, unless two commands have it: ids are
\* created exclusively, and may be used again.
ChangedKnowingly ==
    [][\A i \in Id : Readable(i) /\ files'[i] # files[i] =>
          \/ files[i].text \in removed'
          \/ \E c \in Command : /\ Has(command[c], i)
                                /\ command[c].base = files[i].text \/ i \in crossed]_vars
=============================================================================
