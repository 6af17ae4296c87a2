----------------------------- MODULE ClientKeys -----------------------------
(***************************************************************************)
(* The keys of a client: four files in its directory (kem_pk.bin,          *)
(* kem_sk.bin, sig_pk.bin, sig_sk.bin), the name in its config file, and   *)
(* the accounts of its instance.  The commands init, register, rotate and  *)
(* destroy (client/src/cli/init.c, main.c, client/src/lib/libshyake.c,     *)
(* account.c) change them a file at a time, with no transaction over the   *)
(* files or between the files and the instance.  A command may be killed   *)
(* at any step, a write may fail, an answer may be lost while its request  *)
(* takes effect, and two commands may overlap: nothing locks the           *)
(* directory.                                                              *)
(*                                                                         *)
(* A key pair is named by the run of a command that generated it.  A       *)
(* secret key is stored under a passphrase, or under none.  A command that *)
(* fails before its first effect (a file it needs is missing, a passphrase *)
(* is wrong) leaves no trace, and is not a step.                           *)
(***************************************************************************)
EXTENDS Integers, FiniteSets

CONSTANTS Run,          \* runs of the client: each is one command
          Name,         \* user names of the instance
          Passphrase,   \* what a user may protect keys with
          Plain,        \* no passphrase
          Absent,       \* no key: the file is not there
          Torn,         \* no key: the file is empty or cut short
          NoName,       \* the config file names no user
          MaxAtOnce     \* bound: commands that run at a time

ASSUME KeysAssumption ==
    /\ Absent \notin Run /\ Torn \notin Run /\ Absent # Torn
    /\ Plain \notin Passphrase
    /\ NoName \notin Name

File == {"kem_pk", "kem_sk", "sig_pk", "sig_sk"}
Secret == {"kem_sk", "sig_sk"}
Lock == Passphrase \cup {Plain}
Content == [key : Run \cup {Absent, Torn}, lock : Lock]

VARIABLES file,       \* the key files
          config,     \* USERNAME in the config file
          papers,     \* KEM keys that drafts and saved mail are sealed with
          command,    \* the commands: their step and what they hold
          request,    \* the request of each command, at the instance
          account     \* the instance's users table

\* History, for the properties: what went wrong.
VARIABLE trouble

files == <<file, config, papers>>
server == <<request, account>>
vars == <<files, command, server, trouble>>

Command == [op : {"none", "init", "register", "rotate", "destroy"},
            step : {"new", "kem", "sig", "wait", "name", "wipe", "done"} \cup File,
            name : Name \cup {NoName},
            lock : Lock,                        \* for the secret keys it saves
            signer : Run \cup {Absent},         \* the key its request is signed with
            kem : Run \cup {Absent}, sig : Run \cup {Absent}]  \* and the keys in it

RequestSteps == {"none", "sent", "checked", "ok", "refused"}

Free == [state |-> "free", kem |-> Absent, sig |-> Absent]
Destroyed == [state |-> "destroyed", kem |-> Absent, sig |-> Absent]
Live(kem, sig) == [state |-> "live", kem |-> kem, sig |-> sig]
Account == {Free, Destroyed} \cup [state : {"live"}, kem : Run, sig : Run]

New == [op |-> "none", step |-> "new", name |-> NoName, lock |-> Plain,
        signer |-> Absent, kem |-> Absent, sig |-> Absent]

Init ==
    /\ file = [f \in File |-> [key |-> Absent, lock |-> Plain]]
    /\ config = NoName
    /\ papers = {}
    /\ command = [c \in Run |-> New]
    /\ request = [c \in Run |-> "none"]
    /\ account = [n \in Name |-> Free]
    /\ trouble = {}

-----------------------------------------------------------------------------
At(c, step) == command[c].step = step

Running(c) == command[c].step \notin {"new", "done"}

GoTo(c, step) == command' = [command EXCEPT ![c].step = step]

Begin(c, op, step, name, lock, signer, kem, sig) ==
    /\ At(c, "new")
    /\ Cardinality({d \in Run : Running(d)}) < MaxAtOnce
    /\ command' = [command EXCEPT ![c] =
           [op |-> op, step |-> step, name |-> name, lock |-> lock,
            signer |-> signer, kem |-> kem, sig |-> sig]]
    /\ trouble' = IF \E d \in Run : Running(d) THEN trouble \cup {"overlap"} ELSE trouble

Holds(f) == file[f].key \in Run

\* prompt_passphrase looks at kem_sk.bin alone: when that is stored under no
\* passphrase, none is asked for.
Typed == IF file["kem_sk"].lock = Plain THEN {Plain} ELSE Passphrase

\* load_sk_decrypted of sig_sk.bin, with a passphrase of Typed.
CanSign == Holds("sig_sk") /\ file["sig_sk"].lock \in Typed \cup {Plain}

-----------------------------------------------------------------------------
\* init.

\* A passphrase is asked for when keys will be generated.
StartInit(c) ==
    /\ \E lock \in IF \E f \in {"kem_pk", "sig_pk"} : file[f].key = Absent
                   THEN Lock ELSE {Plain} :
          Begin(c, "init", "kem", NoName, lock, Absent, c, c)
    /\ UNCHANGED <<files, server>>

\* Generates anew whatever is there.
LookAlways(c) ==
    /\ \/ At(c, "kem") /\ GoTo(c, "kem_pk")
       \/ At(c, "sig") /\ GoTo(c, "sig_pk")
    /\ UNCHANGED <<files, server, trouble>>

\* shyake_generate_keys generates a pair when its public key is not there.
Look(c) ==
    /\ \/ At(c, "kem") /\ GoTo(c, IF file["kem_pk"].key = Absent THEN "kem_pk" ELSE "sig")
       \/ At(c, "sig") /\ GoTo(c, IF file["sig_pk"].key = Absent THEN "sig_pk" ELSE "done")
    /\ UNCHANGED <<files, server, trouble>>

\* Only secret KEM keys are stored under the passphrase.
SavedLockingKem(c, f) ==
    [key |-> IF f \in {"kem_pk", "kem_sk"} THEN command[c].kem ELSE command[c].sig,
     lock |-> IF f = "kem_sk" THEN command[c].lock ELSE Plain]

Saved(c, f) ==
    [key |-> IF f \in {"kem_pk", "kem_sk"} THEN command[c].kem ELSE command[c].sig,
     lock |-> IF f \in Secret THEN command[c].lock ELSE Plain]

\* A rotation that saves the new KEM pair only.
AfterSaveKem(c, f) ==
    CASE f = "kem_pk" -> "kem_sk"
      [] f = "kem_sk" -> IF command[c].op = "init" THEN "sig" ELSE "done"
      [] f = "sig_pk" -> "sig_sk"
      [] f = "sig_sk" -> "done"

\* The order of the files, in generate_keys and in rotate.
AfterSave(c, f) ==
    CASE f = "kem_pk" -> "kem_sk"
      [] f = "kem_sk" -> IF command[c].op = "init" THEN "sig" ELSE "sig_pk"
      [] f = "sig_pk" -> "sig_sk"
      [] f = "sig_sk" -> "done"

\* What a write of f that does not succeed leaves: fopen fails, or has cut the
\* file; the first bytes, which tell a locked key, may be there or not.
Broken(c, f) ==
    {file[f]} \cup {[key |-> Torn, lock |-> l] : l \in {Plain, Saved(c, f).lock}}

\* save_file, save_sk_encrypted.  No caller looks at the result.
Save(c) ==
    /\ command[c].step \in File
    /\ LET f == command[c].step IN
       /\ GoTo(c, AfterSave(c, f))
       /\ \/ /\ file' = [file EXCEPT ![f] = Saved(c, f)]
             /\ UNCHANGED trouble
          \/ /\ \E content \in Broken(c, f) : file' = [file EXCEPT ![f] = content]
             /\ trouble' = trouble \cup {command[c].op}
    /\ UNCHANGED <<config, papers, server>>

-----------------------------------------------------------------------------
\* register, rotate and destroy, up to the answer.

Sends(c) == request' = [request EXCEPT ![c] = "sent"]

\* Needs both public keys and the secret key it signs with, not kem_sk.bin.
\* (A torn public key is sent too, and refused for its length.)
StartRegister(c) ==
    /\ Holds("kem_pk") /\ Holds("sig_pk") /\ CanSign
    /\ \E name \in Name :
          Begin(c, "register", "wait", name, Plain, file["sig_sk"].key,
                file["kem_pk"].key, file["sig_pk"].key)
    /\ Sends(c)
    /\ UNCHANGED <<files, account>>

\* The new keys are in memory until the answer.
StartRotate(c) ==
    /\ config # NoName /\ CanSign
    /\ \E lock \in Lock :
          Begin(c, "rotate", "wait", config, lock, file["sig_sk"].key, c, c)
    /\ Sends(c)
    /\ UNCHANGED <<files, account>>

StartDestroy(c) ==
    /\ config # NoName /\ CanSign
    /\ Begin(c, "destroy", "wait", config, Plain, file["sig_sk"].key, Absent, Absent)
    /\ Sends(c)
    /\ UNCHANGED <<files, account>>

\* Where the answer 200 or 201 takes each command.
AfterAnswer(c) ==
    CASE command[c].op = "register" -> "name"
      [] command[c].op = "rotate" -> "kem_pk"
      [] command[c].op = "destroy" -> "wipe"

\* Any answer will do.
AnswerAny(c) ==
    /\ At(c, "wait")
    /\ request[c] \in {"ok", "refused"}
    /\ GoTo(c, AfterAnswer(c))
    /\ UNCHANGED <<files, server, trouble>>

Answer(c) ==
    /\ At(c, "wait")
    /\ \/ request[c] = "ok" /\ GoTo(c, AfterAnswer(c))
       \/ request[c] = "refused" /\ GoTo(c, "done")
    /\ UNCHANGED <<files, server, trouble>>

\* The trouble it is when nobody hears of c's request: the keys of a rotation
\* that may take effect are gone.
Unheard(c) ==
    IF command[c].op = "rotate" /\ request[c] # "refused" THEN {"rotate"} ELSE {}

\* The connection breaks, whatever becomes of the request.
NoReply(c) ==
    /\ At(c, "wait")
    /\ GoTo(c, "done")
    /\ trouble' = trouble \cup Unheard(c)
    /\ UNCHANGED <<files, server>>

-----------------------------------------------------------------------------
\* After the answer.

\* What a write of the config file leaves: the name; the old one, when the
\* file cannot be opened; none, when it is cut short or has no INSTANCE line.
WriteConfig(c) ==
    /\ At(c, "name")
    /\ config' \in {command[c].name, config, NoName}
    /\ GoTo(c, "done")
    /\ UNCHANGED <<file, papers, server, trouble>>

\* The names of the key files as rm -rf <dir>/* removes them, the config file
\* before them all.
Removal == <<"kem_pk", "kem_sk", "sig_pk", "sig_sk">>

Without(n) ==
    [f \in File |-> IF \E i \in 1 .. n : Removal[i] = f
                    THEN [key |-> Absent, lock |-> Plain] ELSE file[f]]

\* rm removes everything, or stops on its way.  The result is not looked at.
Wipe(c) ==
    /\ At(c, "wipe")
    /\ GoTo(c, "done")
    /\ \/ /\ file' = Without(4) /\ config' = NoName /\ papers' = {}
          /\ UNCHANGED trouble
       \/ /\ \E n \in 0 .. 3 : file' = Without(n)
          /\ config' = NoName
          /\ papers' \in {papers, {}}
          /\ trouble' = trouble \cup {"destroy"}
    /\ UNCHANGED server

\* A command is killed; a file it was writing may be torn.
Kill(c) ==
    /\ Running(c)
    /\ GoTo(c, "done")
    /\ IF command[c].step \in File
       THEN /\ \E content \in Broken(c, command[c].step) :
                  file' = [file EXCEPT ![command[c].step] = content]
            /\ trouble' = trouble \cup {command[c].op}
       ELSE /\ UNCHANGED file
            /\ trouble' = trouble \cup Unheard(c) \cup ({"init"} \cap {command[c].op})
    /\ config' \in IF At(c, "name") THEN {config, NoName} ELSE {config}
    /\ UNCHANGED <<papers, server>>

-----------------------------------------------------------------------------
\* The instance (handlers.go register, rotate, destroy): the check of the
\* signature and the write are two steps.

\* register checks the key it is sent, the others the keys of the account.
Genuine(c) ==
    LET r == command[c] IN
    IF r.op = "register" THEN r.signer = r.sig
    ELSE account[r.name].state = "live" /\ account[r.name].sig = r.signer

Check(c) ==
    /\ request[c] = "sent"
    /\ request' = [request EXCEPT ![c] = IF Genuine(c) THEN "checked" ELSE "refused"]
    /\ UNCHANGED <<files, command, account, trouble>>

Becomes(c) ==
    CASE command[c].op = "destroy" -> Destroyed
      [] OTHER -> Live(command[c].kem, command[c].sig)

\* CreateUser needs a free name, RotateKeys and DestroyUser update the row of
\* the name whatever became of it since.
Apply(c) ==
    /\ request[c] = "checked"
    /\ LET name == command[c].name IN
       \/ /\ command[c].op = "register" => account[name] = Free
          /\ account' = [account EXCEPT ![name] = Becomes(c)]
          /\ request' = [request EXCEPT ![c] = "ok"]
       \/ /\ command[c].op = "register" /\ account[name] # Free
          /\ request' = [request EXCEPT ![c] = "refused"]
          /\ UNCHANGED account
    /\ UNCHANGED <<files, command, trouble>>

\* Refused for another reason, or a failing database.
Refuse(c) ==
    /\ request[c] \in {"sent", "checked"}
    /\ request' = [request EXCEPT ![c] = "refused"]
    /\ UNCHANGED <<files, command, account, trouble>>

-----------------------------------------------------------------------------
\* compose and the rescue of a failed send seal a draft with kem_pk.bin.
KeepDraft ==
    /\ Holds("kem_pk")
    /\ papers' = papers \cup {file["kem_pk"].key}
    /\ UNCHANGED <<file, config, command, server, trouble>>

\* save keeps a mail as the instance has it: sealed to the account's key.
SaveMail ==
    /\ config # NoName /\ CanSign
    /\ account[config].state = "live" /\ account[config].sig = file["sig_sk"].key
    /\ papers' = papers \cup {account[config].kem}
    /\ UNCHANGED <<file, config, command, server, trouble>>

ClientStep(c) ==
    \/ StartInit(c) \/ StartRegister(c) \/ StartRotate(c) \/ StartDestroy(c)
    \/ Look(c) \/ Save(c)
    \/ Answer(c) \/ NoReply(c) \/ WriteConfig(c) \/ Wipe(c)
    \/ Kill(c)

ServerStep(c) == Check(c) \/ Apply(c) \/ Refuse(c)

Next ==
    \/ \E c \in Run : ClientStep(c) \/ ServerStep(c)
    \/ KeepDraft \/ SaveMail

Spec == Init /\ [][Next]_vars

-----------------------------------------------------------------------------
TypeOK ==
    /\ file \in [File -> Content]
    /\ config \in Name \cup {NoName}
    /\ papers \subseteq Run
    /\ command \in [Run -> Command]
    /\ request \in [Run -> RequestSteps]
    /\ account \in [Name -> Account]
    /\ trouble \subseteq {"overlap", "init", "rotate", "destroy"}

\* The account this client goes by.
Mine == IF config = NoName THEN Free ELSE account[config]

\* The account has new keys and the files are being written.
Rotating == \E c \in Run :
    Running(c) /\ command[c].op = "rotate" /\ request[c] = "ok"

\* The key that signs for the account is in sig_sk.bin: only a rotation that
\* was cut off (its answer lost, its writes broken) and overlapping commands
\* take it away, whatever became of init, of register and of destroy, and of
\* their requests (account.c shyake_rotate, libshyake.c shyake_register).
SignerKept ==
    Mine.state = "live" /\ trouble \cap {"rotate", "overlap"} = {} /\ ~Rotating
    => file["sig_sk"].key = Mine.sig

\* The key that opens the account's mail is in kem_sk.bin.  register does not
\* look for it, so an init that was cut off is a reason here too.
ReaderKept ==
    Mine.state = "live" /\ trouble = {} /\ ~Rotating
    => file["kem_sk"].key = Mine.kem

\* One passphrase opens both secret keys: prompt_passphrase asks once.
OnePassphrase ==
    (trouble = {} /\ (\A c \in Run : ~Running(c)) /\ Holds("kem_sk") /\ Holds("sig_sk"))
    => file["kem_sk"].lock = file["sig_sk"].lock

\* No step takes a secret key the account has now from its file: not a second
\* init, not a refused rotation or destruction, not a broken write or a
\* process that is killed, however late answers and requests come.  (Two
\* commands at once can.)
LiveKeyStays ==
    [][Mine.state = "live" /\ "overlap" \notin trouble' =>
          /\ file["kem_sk"].key = Mine.kem => file'["kem_sk"].key = Mine.kem
          /\ file["sig_sk"].key = Mine.sig => file'["sig_sk"].key = Mine.sig]_vars

\* "`read` decrypts and displays a saved mail", and a local draft
\* (README.md:346, 353): what is sealed is sealed to the key on disk, be it by
\* compose or by a correspondent, and no init, no register and no refused or
\* unheard rotation costs it.  A rotation that goes well does: nothing seals
\* anew what there is (account.c:283).
PapersReadable ==
    /\ trouble = {} /\ \A c \in Run : ~Running(c)
    /\ ~\E c \in Run : command[c].op = "rotate" /\ request[c] = "ok"
    => papers \subseteq {file["kem_sk"].key}
=============================================================================
