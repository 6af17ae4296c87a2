------------------------------- MODULE Update -------------------------------
(***************************************************************************)
(* `shyake update` (client/src/cli/update.c, and its command in main.c):   *)
(* ask the instance for the newest releases, choose, download, compare     *)
(* with the digest, and copy the new program over the running one.         *)
(*                                                                         *)
(* Runs of it are processes of one user.  They share the program, the      *)
(* download in /tmp, which is named for the platform and not the release,  *)
(* and the directory it is unpacked to.  Each has a request of its own, so *)
(* a run is named by the handler of it.                                    *)
(***************************************************************************)
EXTENDS Versions

VARIABLES locks,     \* the system refuses to write to a running program
          program,   \* the installed file
          tarball,   \* /tmp/shyake-<os>-<arch>.tar.gz
          unpacked,  \* /tmp/shyake-<os>-<arch>/shyake
          run,       \* where each run is, or NotRunning
          told,      \* how a run has just ended, see End
          spoiled    \* history: a copy was cut off, or two updates met

files == <<program, tarball, unpacked>>
updateVars == <<versionVars, locks, files, run, told, spoiled>>

Op == {"show"} \cup Channel

\* A file holds a build of a release, or only a part of one.
Torn == [release |-> 0, build |-> 0]
NoFile == [release |-> 0, build |-> -1]
Whole == [release : Release, build : Nat]
File == Whole \cup {Torn, NoFile}

\* What can go wrong in a run.
Trouble == {"fault", "another update"}

NotRunning ==
    [at |-> "no", running |-> 0, target |-> 0, digest |-> 0, opened |-> NoFile, trouble |-> {}]

UpdateInit ==
    /\ VersionsInit
    /\ locks \in BOOLEAN
    /\ program = [release |-> 1, build |-> 1]
    /\ tarball = NoFile
    /\ unpacked = NoFile
    /\ run = [c \in Handler |-> NotRunning]
    /\ told = "nothing"
    /\ spoiled = FALSE

-----------------------------------------------------------------------------
\* cli_self_update's guards, in their order.

\* Without the one about previews.
ChoiceAnyPreview(op, running, news) ==
    LET target == IF op = "preview" THEN news.preview ELSE news.stable
    IN  IF news.stable.release = 0 \/ target.release = 0 THEN "refused"
        ELSE IF running = target.release THEN "latest"
        ELSE IF target.digest = 0 THEN "refused"
        ELSE "download"

\* What becomes of `update <op>` with these news.
Choice(op, running, news) ==
    LET target == IF op = "preview" THEN news.preview ELSE news.stable
        newer  == op = "stable" \/ target.release > news.stable.release
    IN  IF news.stable.release = 0 \/ target.release = 0 \/ ~newer THEN "refused"
        ELSE IF running = target.release THEN "latest"
        ELSE IF target.digest = 0 THEN "refused"
        ELSE "download"

\* A run ends: with "updated", with "failed" for no cause that is modelled as
\* trouble, or with the program left as it is, which has "nothing" to tell.
End(c, word) ==
    /\ run' = [run EXCEPT ![c] = NotRunning]
    /\ told' = word

\* A run goes on.
GoOn(c, step) ==
    /\ run' = [run EXCEPT ![c].at = step]
    /\ told' = "nothing"

\* A run goes on, and has met trouble.
GoOnWith(c, step, trouble) ==
    /\ run' = [run EXCEPT ![c].at = step, ![c].trouble = @ \cup trouble]
    /\ told' = "nothing"

\* The request is the same for each command.  (Bound: no run starts after a
\* spoiled update.)
Start(c) ==
    /\ run[c] = NotRunning
    /\ program # Torn /\ ~spoiled
    /\ run' = [run EXCEPT ![c] =
           [NotRunning EXCEPT !.at = "asking", !.running = program.release]]
    /\ told' = "nothing"
    /\ Look(c)
    /\ UNCHANGED <<locks, files, spoiled>>

\* No answer: an error, or none in 10 seconds, after which the handler may
\* still be at work.
NoAnswer(c) ==
    /\ run[c].at = "asking"
    /\ End(c, "nothing")
    /\ UNCHANGED <<versionVars, locks, files, spoiled>>

\* The answer comes, and the command chooses.
Choose(c, op) ==
    /\ run[c].at = "asking" /\ handler[c].at = "answered"
    /\ LET news == handler[c].news
           choice == Choice(op, run[c].running, news)
       IN  IF op = "show" \/ choice # "download" THEN End(c, "nothing")
           ELSE /\ run' = [run EXCEPT ![c] = [@ EXCEPT !.at = "chosen",
                              !.target = news[op].release, !.digest = news[op].digest]]
                /\ told' = "nothing"
    /\ handler' = [handler EXCEPT ![c] = Idle]
    /\ UNCHANGED <<clock, listed, build, cache, flight, wentBack, locks, files, spoiled>>

\* An answer nobody gets: an error, or its client has gone.
Drop(h) ==
    /\ \/ handler[h].at = "refused"
       \/ handler[h].at = "answered" /\ run[h].at # "asking"
    /\ handler' = [handler EXCEPT ![h] = Idle]
    /\ UNCHANGED <<clock, listed, build, cache, flight, wentBack,
                   locks, files, run, spoiled>>
    /\ told' = "nothing"

-----------------------------------------------------------------------------
AtWork == {c \in Handler : run[c].at \notin {"no", "asking", "chosen"}}

\* What c leaves of a file in /tmp.  When no other run is at work, the next one
\* writes over it before it reads it, and it is not kept here.
Left(c, file) == IF AtWork \subseteq {c} THEN NoFile ELSE file

\* download_to_tmp: fopen truncates what another run may be using.
Download(c) ==
    /\ run[c].at = "chosen"
    /\ run' = [d \in Handler |->
           IF d = c THEN [run[c] EXCEPT !.at = "downloading",
                             !.trouble = IF AtWork = {} THEN {} ELSE {"another update"}]
           ELSE IF d \in AtWork THEN [run[d] EXCEPT !.trouble = @ \cup {"another update"}]
           ELSE run[d]]
    /\ spoiled' = (spoiled \/ AtWork # {})
    /\ tarball' = Torn
    /\ UNCHANGED <<versionVars, locks, program, unpacked>>
    /\ told' = "nothing"

\* A run fails, and its download is removed.
Fail(c, trouble) ==
    /\ tarball' = NoFile
    /\ End(c, IF run[c].trouble \cup trouble = {} THEN "failed" ELSE "nothing")

\* The download comes to its end, be it cut short by a full disk, which
\* fclose does not tell.
Downloaded(c) ==
    /\ run[c].at = "downloading"
    /\ LET n == run[c].target
           other == IF build[n] = run[c].digest THEN {} ELSE {"fault"}
       IN
       \/ /\ IsThere(n)
          /\ \/ /\ tarball' = [release |-> n, build |-> build[n]]
                /\ GoOnWith(c, "downloaded", other)
             \/ /\ tarball' = Torn
                /\ GoOnWith(c, "downloaded", {"fault"})
             \/ /\ "another update" \in run[c].trouble  \* it was removed meanwhile
                /\ GoOn(c, "downloaded") /\ UNCHANGED tarball
       \/ /\ ~IsThere(n)
          /\ Fail(c, other)
    /\ UNCHANGED <<versionVars, locks, program, unpacked, spoiled>>

NotDownloaded(c) ==
    /\ run[c].at = "downloading"
    /\ Fail(c, {"fault"})
    /\ UNCHANGED <<versionVars, locks, program, unpacked, spoiled>>

\* The digest is taken with the "sha256:" before it.
MatchesNone(c) == tarball = NoFile

\* The digest is that of any build of the release.
MatchesRelease(c) == tarball.release = run[c].target

\* verify_sha256: the file is the build that the digest is of.
Matches(c) ==
    tarball = [release |-> run[c].target, build |-> run[c].digest]

Verify(c) ==
    /\ run[c].at = "downloaded"
    /\ \/ Matches(c) /\ GoOn(c, "verified") /\ UNCHANGED tarball
       \/ ~Matches(c) /\ Fail(c, {})
    /\ UNCHANGED <<versionVars, locks, program, unpacked, spoiled>>

-----------------------------------------------------------------------------
\* The script: tar && cp && chmod && rm.

\* As if tar and cp were joined by a semicolon.
UntarCarelessly(c) ==
    /\ run[c].at = "verified"
    /\ \/ unpacked' = tarball /\ GoOn(c, "unpacked")
       \/ unpacked' = Torn /\ GoOnWith(c, "unpacked", {"fault"})
    /\ UNCHANGED <<versionVars, locks, program, tarball, spoiled>>

Untar(c) ==
    /\ run[c].at = "verified"
    /\ \/ /\ tarball \in Whole
          /\ unpacked' = tarball
          /\ GoOn(c, "unpacked") /\ UNCHANGED tarball
       \/ /\ unpacked' = Left(c, IF tarball = NoFile THEN unpacked ELSE Torn)
          /\ Fail(c, {"fault"})
    /\ UNCHANGED <<versionVars, locks, program, spoiled>>

\* cp opens both files and truncates the running program.  Linux refuses
\* that: ETXTBSY.
Copy(c) ==
    /\ run[c].at = "unpacked"
    /\ \/ /\ locks \/ unpacked = NoFile
          /\ Fail(c, {})
          /\ unpacked' = Left(c, unpacked)
          /\ UNCHANGED program
       \/ /\ ~locks /\ unpacked # NoFile
          /\ program' = Torn
          /\ run' = [run EXCEPT ![c].at = "copying", ![c].opened = unpacked]
          /\ told' = "nothing"
          /\ UNCHANGED <<tarball, unpacked>>
    /\ UNCHANGED <<versionVars, locks, spoiled>>

Copied(c) ==
    /\ run[c].at = "copying"
    /\ \/ /\ program' = run[c].opened
          /\ GoOn(c, "copied") /\ UNCHANGED <<tarball, unpacked, spoiled>>
       \/ /\ spoiled' = TRUE  \* the disk is full
          /\ Fail(c, {"fault"})
          /\ unpacked' = Left(c, unpacked)
          /\ UNCHANGED program
    /\ UNCHANGED <<versionVars, locks>>

\* chmod, rm -rf, and the download is removed.
Finish(c) ==
    /\ run[c].at = "copied"
    /\ unpacked' = NoFile
    /\ tarball' = NoFile
    /\ End(c, "updated")
    /\ UNCHANGED <<versionVars, locks, program, spoiled>>

\* A run is killed, and its script with it; or it fails before it has opened
\* its download.
Kill(c) ==
    /\ run[c] # NotRunning
    /\ spoiled' = (spoiled \/ run[c].at = "copying")
    /\ tarball' = Left(c, tarball)
    /\ unpacked' = Left(c, unpacked)
    /\ End(c, "nothing")
    /\ UNCHANGED <<versionVars, locks, program>>

-----------------------------------------------------------------------------
Relay ==
    \/ Tick \/ Publish \/ Read \/ Land \/ Break
    \/ \E n \in Release : Upload(n)
    \/ \E h \in Handler : Do(h) \/ Store(h)

UpdateNext ==
    \/ ~spoiled /\ Relay /\ told' = "nothing" /\ UNCHANGED <<locks, files, run, spoiled>>
    \/ \E c \in Handler :
          \/ Start(c) \/ NoAnswer(c) \/ Drop(c)
          \/ \E op \in Op : Choose(c, op)
          \/ Download(c) \/ Downloaded(c) \/ NotDownloaded(c) \/ Verify(c)
          \/ Untar(c) \/ Copy(c) \/ Copied(c) \/ Finish(c) \/ Kill(c)

UpdateSpec == UpdateInit /\ [][UpdateNext]_updateVars

-----------------------------------------------------------------------------
UpdateTypeOK ==
    /\ VersionsTypeOK
    /\ locks \in BOOLEAN /\ spoiled \in BOOLEAN
    /\ program \in File \ {NoFile} /\ tarball \in File /\ unpacked \in File
    /\ run \in [Handler ->
           [at      : {"no", "asking", "chosen", "downloading", "downloaded", "verified",
                       "unpacked", "copying", "copied"},
            running : 0 .. Last,
            target  : 0 .. Last,
            digest  : Nat,
            opened  : File,
            trouble : SUBSET Trouble]]
    /\ told \in {"nothing", "failed", "updated"}

\* An update installs nothing older than what runs, except that `update
\* stable` leaves a preview: update.c:333 compares the tags for equality only,
\* and relies on the instance for news that move forward.  They do not when a
\* handler that is slow to store puts old news over new ones (version.go:73);
\* for an hour, updates of that instance then go back.
NoDowngrade ==
    \A c \in Handler :
        run[c].target # 0 /\ run[c].target < run[c].running
        => wentBack \/ (Kind[run[c].running] = "preview" /\ Kind[run[c].target] = "stable")

\* There is a whole program at every moment, whatever fails and whenever a run
\* is killed, except while it is copied, or after the copy was cut off or two
\* updates met in /tmp (the script in update.c:389 stops at what fails).
ProgramRuns ==
    program # Torn \/ spoiled \/ \E c \in Handler : run[c].at = "copying"

UpdatedToTarget ==
    \A c \in Handler :
        told' = "updated" /\ run[c] # run'[c] =>
            \/ "another update" \in run[c].trouble
            \/ program' = [release |-> run[c].target, build |-> run[c].digest]

\* "Updated to v" is only said when the program is now the build of v that the
\* instance gave the digest of, also when that build was uploaded again
\* meanwhile or the disk was full; unless two updates met in /tmp
\* (update.c:350-419).
ToldIsTrue == [][UpdatedToTarget]_updateVars

FailedByLock == told' = "failed" => locks

\* An update that meets no trouble succeeds where a running program may be
\* written.  Linux refuses that, and there none does (update.c:391).
UpdatesInPlace == [][FailedByLock]_updateVars
=============================================================================
