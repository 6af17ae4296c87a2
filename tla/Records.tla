------------------------------ MODULE Records ------------------------------
(***************************************************************************)
(* What a client keeps about others: the keys it trusts (known_hosts,      *)
(* client/src/lib/known_hosts.c) under send and fingerprint --update, and  *)
(* the mail it saved (client/src/lib/mail.c) under save, burn, fetch,      *)
(* check and read.  Each run of the client is one command, and each access *)
(* to a file or to the instance one of its steps; nothing locks the files. *)
(*                                                                         *)
(* A line of known_hosts is a user and the number of one of the user's     *)
(* keys; lines are of one length.  Lines are compared with what was typed  *)
(* (strcmp): a user here is one spelling of an address, and an address in  *)
(* two spellings is two users with a line each.  What becomes of a mail    *)
(* that is sealed is in Federation and Server.                             *)
(***************************************************************************)
EXTENDS Integers, Sequences, FiniteSets

CONSTANTS Command,      \* runs of the client
          User,         \* whom mail is sent to, as typed
          Mail,         \* mail of this account
          Box,          \* the box each mail is listed in
          Answers,      \* the mail that a mail answers, or NoMail
          Nobody, NoMail, NoFile,
          MaxKey,       \* bound: keys a user has had
          MaxAtOnce     \* bound: commands that run at one time

ASSUME RecordsAssumption ==
    /\ Box \in [Mail -> {"inbox", "sent"}]
    /\ Answers \in [Mail -> Mail \cup {NoMail}]
    /\ Nobody \notin User /\ NoMail \notin Mail /\ NoFile \notin Command
    /\ MaxKey \in Nat \ {0} /\ MaxAtOnce \in Nat \ {0}

VARIABLES hosts,        \* the file that is known_hosts, named by who made it
          tmp,          \* the file that is known_hosts.tmp
          content,      \* the lines of each file
          newest,       \* the number of each user's newest key
          mail,         \* mail at the instance
          saved,        \* saved/<id>.json
          command       \* the step of each command, and what it holds

\* History, for the properties.
VARIABLES pinned,       \* the key last trusted for each user
          sealed,       \* the keys mail was sealed to since then
          loose,        \* users whose line may have been lost or doubled
          reported,     \* mail that was reported as saved
          broken,       \* saved mail that was not written to its end
          missed        \* commands whose mail was nowhere while they looked for it

hostVars == <<hosts, tmp, content, newest, pinned, sealed, loose>>
mailVars == <<mail, saved, reported, broken>>
vars == <<hostVars, mailVars, command, missed>>

Garbled == 0
NoKey == -1

\* A line of known_hosts is [user, key, cut]; one that was cut short has no end,
\* and the next one continues it.

\* One shape for all commands: the step, whom and with which key it writes to or
\* which mail it is about, the file it has open and the one it reads, what it
\* showed of an answered mail, and whether something failed.
Idle == [step |-> "idle", user |-> Nobody, key |-> Garbled, mail |-> NoMail,
         file |-> NoFile, reads |-> NoFile, shown |-> "nothing", failed |-> FALSE]

Init ==
    /\ hosts = NoFile /\ tmp = NoFile
    /\ content = [f \in Command |-> <<>>]
    /\ newest = [u \in User |-> 1]
    /\ mail = [m \in Mail |-> "coming"]
    /\ saved = [m \in Mail |-> "absent"]
    /\ command = [c \in Command |-> Idle]
    /\ pinned = [u \in User |-> NoKey]
    /\ sealed = [u \in User |-> {}]
    /\ loose = {} /\ reported = {} /\ broken = {} /\ missed = {}

-----------------------------------------------------------------------------
At(c, step) == command[c].step = step

Running(c) == ~At(c, "idle") /\ ~At(c, "done")

Searching(c) == At(c, "inbox") \/ At(c, "sent") \/ At(c, "saved")

Nowhere(m) == mail[m] # "there" /\ saved[m] # "whole"

\* Every step ends by noting who looks for mail that is nowhere.
Note == missed' = missed \cup {c \in Command : Searching(c)' /\ Nowhere(command[c].mail)'}

Begin(c, r) ==
    /\ At(c, "idle")
    /\ Cardinality({d \in Command : Running(d)}) < MaxAtOnce
    /\ command' = [command EXCEPT ![c] = r]
    /\ UNCHANGED <<hostVars, mailVars>>

GoTo(c, step) == command' = [command EXCEPT ![c].step = step]

End(c) == command' = [command EXCEPT ![c] = [Idle EXCEPT !.step = "done"]]

-----------------------------------------------------------------------------
\* known_hosts.

LinesOf(f) == IF f = NoFile THEN <<>> ELSE content[f]

IsFirst(i, lines, u) ==
    lines[i].user = u /\ \A j \in 1 .. i - 1 : lines[j].user # u

\* The key of the user's first line.
KeyIn(lines, u) ==
    IF \E i \in DOMAIN lines : lines[i].user = u
    THEN lines[CHOOSE i \in DOMAIN lines : IsFirst(i, lines, u)].key
    ELSE NoKey

\* get_known_host
Known(u) == KeyIn(LinesOf(hosts), u)

NewLine(c) == [user |-> command[c].user, key |-> command[c].key, cut |-> FALSE]

\* What a full disk leaves of a line.
Cuts(l) == {[l EXCEPT !.cut = TRUE], [l EXCEPT !.key = Garbled, !.cut = TRUE],
            [user |-> Nobody, key |-> Garbled, cut |-> TRUE]}

WithLine(lines, l) ==
    LET n == Len(lines) IN
    IF n > 0 /\ lines[n].cut
    THEN [lines EXCEPT ![n] = [user |-> lines[n].user, key |-> Garbled, cut |-> l.cut]]
    ELSE Append(lines, l)

\* new, written over what another command has written to the same file.
Over(old, new) == new \o SubSeq(old, Len(new) + 1, Len(old))

Updating(c) == At(c, "copy") \/ At(c, "rename")

\* What an append costs: a line that another command does not see when it
\* rewrites the file, a line after one that was cut, or a second line, when the
\* first was written meanwhile or could not be read.
Unseen(u) ==
    \/ \E d \in Command : At(d, "rename") \/ (At(d, "copy") /\ command[d].reads = NoFile)
    \/ LinesOf(hosts) # <<>> /\ LinesOf(hosts)[Len(LinesOf(hosts))].cut
    \/ Known(u) # NoKey

Write(f, lines) == content' = [content EXCEPT ![f] = lines]

\* The public key that the instance answers, which may have it from a cache.
Send(c) ==
    \E u \in User : \E k \in 1 .. newest[u] :
        Begin(c, [Idle EXCEPT !.step = "check", !.user = u, !.key = k])

Seal(c) == sealed' = [sealed EXCEPT ![command[c].user] = @ \cup {command[c].key}]

\* The key of a line that cannot be decoded is not compared, and a file that
\* cannot be opened is as good as none: the user counts as new.
Check(c) ==
    /\ At(c, "check")
    /\ LET known == Known(command[c].user) IN
       \/ known = NoKey /\ GoTo(c, "append") /\ UNCHANGED sealed
       \/ hosts # NoFile /\ GoTo(c, "append") /\ UNCHANGED sealed
       \/ known \in {command[c].key, Garbled} /\ End(c) /\ Seal(c)
       \/ known \notin {command[c].key, NoKey} /\ End(c) /\ UNCHANGED sealed
    /\ UNCHANGED <<mailVars, hosts, tmp, content, newest, pinned, loose>>

\* add_known_host; send_mail does not hear of a failure.
AppendLine(c) ==
    /\ At(c, "append")
    /\ LET u == command[c].user
           file == IF hosts = NoFile THEN c ELSE hosts IN
       /\ \/ /\ Write(file, WithLine(LinesOf(hosts), NewLine(c)))
             /\ hosts' = file
             /\ loose' = loose \cup {v \in {u} : Unseen(u)}
          \/ /\ \E l \in Cuts(NewLine(c)) : Write(file, WithLine(LinesOf(hosts), l))
             /\ hosts' = file
             /\ loose' = loose \cup {u}
          \/ /\ UNCHANGED <<content, hosts>>
             /\ loose' = loose \cup {u}
       /\ pinned' = [pinned EXCEPT ![u] = command[c].key]
    /\ Seal(c)
    /\ End(c)
    /\ UNCHANGED <<mailVars, tmp, newest>>

\* fingerprint <user> --update
Update(c) ==
    \E u \in User : \E k \in 1 .. newest[u] :
        Begin(c, [Idle EXCEPT !.step = "open", !.user = u, !.key = k])

\* Whose lines an update will not copy when it opens reads.
Unread(u, reads) == {v \in User \ {u} : reads = NoFile /\ Known(v) # NoKey}

\* known_hosts is opened, and known_hosts.tmp made or emptied.  An update that
\* cannot open known_hosts goes on as if there were none.
Open(c) ==
    /\ At(c, "open")
    /\ LET file == IF tmp = NoFile THEN c ELSE tmp IN
       \/ /\ Write(file, <<>>)
          /\ tmp' = file
          /\ \E reads \in {hosts, NoFile} :
                /\ command' = [command EXCEPT ![c].step = "copy", ![c].file = file,
                                              ![c].reads = reads]
                /\ loose' = IF \E d \in Command : Updating(d) THEN User
                            ELSE loose \cup Unread(command[c].user, reads)
       \/ /\ End(c)
          /\ UNCHANGED <<content, tmp, loose>>
    /\ UNCHANGED <<mailVars, hosts, newest, pinned, sealed>>

\* A slip: the new line comes after all the others, and none is left out.
CopyUnmatched(c) ==
    /\ At(c, "copy")
    /\ LET r == command[c] IN
       Write(r.file, Over(content[r.file], LinesOf(r.reads) \o <<NewLine(c)>>))
    /\ GoTo(c, "rename")
    /\ UNCHANGED <<mailVars, hosts, tmp, newest, pinned, sealed, loose>>

\* The lines of all others.
LinesBut(u, lines) ==
    LET Kept[n \in 0 .. Len(lines)] ==
            IF n = 0 THEN <<>>
            ELSE IF lines[n].user \in {u, Nobody} THEN Kept[n - 1]
            ELSE Append(Kept[n - 1], [lines[n] EXCEPT !.cut = FALSE])
    IN  Kept[Len(lines)]

\* They are copied and the new one added, or as much of it as the disk holds.
Copy(c) ==
    /\ At(c, "copy")
    /\ LET r == command[c]
           new == Append(LinesBut(r.user, LinesOf(r.reads)), NewLine(c))
       IN \/ /\ Write(r.file, Over(content[r.file], new))
             /\ UNCHANGED loose
          \/ /\ \E n \in 1 .. Len(new) : \E l \in Cuts(new[n]) :
                   Write(r.file, Over(content[r.file], Append(SubSeq(new, 1, n - 1), l)))
             /\ loose' = User
    /\ GoTo(c, "rename")
    /\ UNCHANGED <<mailVars, hosts, tmp, newest, pinned, sealed>>

\* There is nothing to rename when another command has done it.
Rename(c) ==
    /\ At(c, "rename")
    /\ IF tmp = NoFile THEN UNCHANGED <<hosts, tmp>> ELSE hosts' = tmp /\ tmp' = NoFile
    /\ pinned' = [pinned EXCEPT ![command[c].user] = command[c].key]
    /\ sealed' = [sealed EXCEPT ![command[c].user] = {}]
    /\ End(c)
    /\ UNCHANGED <<mailVars, content, newest, loose>>

\* A user rotates keys.
Rotate(u) ==
    /\ newest[u] < MaxKey
    /\ newest' = [newest EXCEPT ![u] = @ + 1]
    /\ UNCHANGED <<mailVars, command, hosts, tmp, content, pinned, sealed, loose>>

-----------------------------------------------------------------------------
\* Mail at the instance, and saved mail.

Arrive(m) ==
    /\ mail[m] = "coming"
    /\ mail' = [mail EXCEPT ![m] = "there"]
    /\ UNCHANGED <<hostVars, saved, reported, broken, command>>

\* The other party burns it: there is one copy for both.
Vanish(m) ==
    /\ mail[m] = "there"
    /\ mail' = [mail EXCEPT ![m] = "gone"]
    /\ UNCHANGED <<hostVars, saved, reported, broken, command>>

\* shyake burn <mail>
Burn(c) == \E m \in Mail : Begin(c, [Idle EXCEPT !.step = "burn", !.mail = m])

\* The request may be lost or refused, and so may its answer.
Burnt(c) ==
    /\ At(c, "burn")
    /\ LET m == command[c].mail IN
       mail' \in {mail, [mail EXCEPT ![m] = IF @ = "there" THEN "gone" ELSE @]}
    /\ End(c)
    /\ UNCHANGED <<hostVars, saved, reported, broken>>

\* shyake save <mail>
Save(c) == \E m \in Mail : Begin(c, [Idle EXCEPT !.step = "get", !.mail = m])

\* A slip: the file is opened before the mail is fetched.
GetInto(c) ==
    /\ At(c, "get")
    /\ LET m == command[c].mail IN
       /\ saved' = [saved EXCEPT ![m] = "torn"]
       /\ IF mail[m] = "there" THEN GoTo(c, "write") ELSE End(c)
    /\ UNCHANGED <<hostVars, mail, reported, broken>>

\* The instance answers with the mail, or with an error, or not at all.
Get(c) ==
    /\ At(c, "get")
    /\ \/ mail[command[c].mail] = "there" /\ GoTo(c, "save")
       \/ End(c)
    /\ UNCHANGED <<hostVars, mailVars>>

\* fopen empties the file.
OpenSaved(c) ==
    /\ At(c, "save")
    /\ \/ GoTo(c, "write") /\ saved' = [saved EXCEPT ![command[c].mail] = "torn"]
       \/ End(c) /\ UNCHANGED saved
    /\ UNCHANGED <<hostVars, mail, reported, broken>>

\* "Mail saved.", whatever the disk held of it.
WriteSaved(c) ==
    /\ At(c, "write")
    /\ LET m == command[c].mail IN
       /\ \/ saved' = [saved EXCEPT ![m] = "whole"] /\ UNCHANGED broken
          \/ saved' = [saved EXCEPT ![m] = "torn"] /\ broken' = broken \cup {m}
       /\ reported' = reported \cup {m}
    /\ End(c)
    /\ UNCHANGED <<hostVars, mail>>

-----------------------------------------------------------------------------
\* Mail is shown, and with it where the mail is that it answers.

Search(c, m) ==
    /\ Answers[m] # NoMail
    /\ Begin(c, [Idle EXCEPT !.step = "inbox", !.mail = Answers[m]])

\* shyake fetch <mail>, shyake check <mail>
Show(c) == \E m \in Mail : mail[m] = "there" /\ Search(c, m)

\* shyake read <mail>, shyake check saved <mail>
Read(c) == \E m \in Mail : saved[m] = "whole" /\ Search(c, m)

Shown(c, as) ==
    command' = [command EXCEPT ![c] = [Idle EXCEPT !.step = "done", !.shown = as, !.failed = command[c].failed]]

\* shyake_check: the mail of one box, as it is at the instance.
Listed(m, box) == mail[m] = "there" /\ Box[m] = box

\* find_ref_in_box: a list that fails is as good as an empty one.
FindInBox(c, box, next) ==
    /\ At(c, box)
    /\ \/ Listed(command[c].mail, box) /\ Shown(c, "id")
       \/ ~Listed(command[c].mail, box) /\ GoTo(c, next)
       \/ command' = [command EXCEPT ![c].step = next, ![c].failed = TRUE]
    /\ UNCHANGED <<hostVars, mailVars>>

\* A slip: gives up when neither box has the mail.
FindInBoxes(c) ==
    \/ FindInBox(c, "inbox", "sent")
    \/ /\ FindInBox(c, "sent", "saved")
       /\ command'[c].shown = "id"
    \/ /\ At(c, "sent")
       /\ ~Listed(command[c].mail, "sent")
       /\ Shown(c, "unavailable")
       /\ UNCHANGED <<hostVars, mailVars>>

\* shyake_find_ref asks for the inbox, then for what was sent.
FindListed(c) == FindInBox(c, "inbox", "sent") \/ FindInBox(c, "sent", "saved")

\* find_ref_in_saved, and what describe_reply makes of it.
FindInSaved(c) ==
    /\ At(c, "saved")
    /\ Shown(c, IF saved[command[c].mail] = "whole" THEN "saved" ELSE "unavailable")
    /\ UNCHANGED <<hostVars, mailVars>>

-----------------------------------------------------------------------------
Kill(c) ==
    /\ Running(c)
    /\ End(c)
    /\ broken' = IF At(c, "write") THEN broken \cup {command[c].mail} ELSE broken
    /\ UNCHANGED <<hostVars, mail, saved, reported>>

Step(c) ==
    \/ Send(c) \/ Check(c) \/ AppendLine(c)
    \/ Update(c) \/ Open(c) \/ Copy(c) \/ Rename(c)
    \/ Burn(c) \/ Burnt(c) \/ Save(c) \/ Get(c) \/ OpenSaved(c) \/ WriteSaved(c)
    \/ Show(c) \/ Read(c) \/ FindListed(c) \/ FindInSaved(c) \/ Kill(c)

Next ==
    /\ \/ \E c \in Command : Step(c)
       \/ \E u \in User : Rotate(u)
       \/ \E m \in Mail : Arrive(m) \/ Vanish(m)
    /\ Note

Spec == Init /\ [][Next]_vars

-----------------------------------------------------------------------------
\* Whatever keys the instance answers, all mail to a user is sealed to the one
\* that known_hosts got at the first mail, until the user of the client updates
\* it: "before every send, the client compares" (docs/SPEC.md, 7).  A pin is lost
\* to a full disk, to a second command that writes known_hosts in the meantime,
\* or to a known_hosts that is there and cannot be opened.
PinsHold ==
    \A u \in User \ loose : Known(u) = pinned[u] /\ sealed[u] \subseteq {pinned[u]}

\* Mail that was reported as saved can be read, whatever becomes of it at the
\* instance and however often it is saved again, but for a write that was cut off.
SavedKept ==
    \A m \in reported \ broken :
        saved[m] = "whole" \/ \E c \in Command : At(c, "write") /\ command[c].mail = m

\* "(unavailable)" is shown for a mail that was nowhere, at least for a moment,
\* while it was looked for: one that is saved and burned meanwhile is found.  But a
\* list that cannot be had counts as empty.
UnavailableIsGone ==
    \A c \in Command : command[c].shown = "unavailable" => c \in missed \/ command[c].failed
=============================================================================
