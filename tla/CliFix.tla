------------------------------- MODULE CliFix -------------------------------
(***************************************************************************)
(* mailent fix: editing the configuration of a local Postfix or Dovecot.   *)
(*                                                                         *)
(* A run plans its changes from the file, asks, backs the file up, reads   *)
(* it again, replaces it by a rename, has the service check it, reloads    *)
(* the service and challenges it over the network (apps/cli/src/fix).      *)
(* Several runs, an administrator's editor and crashes interleave between  *)
(* these steps.  A file is a sequence of lines; a value is a sequence of   *)
(* words, because Postfix continues a value on indented lines.             *)
(***************************************************************************)
EXTENDS Integers, Sequences, FiniteSets, SequencesExt

CONSTANTS
    Runs,           \* invocations of mailent fix
    Requests,       \* what they are asked: rule, service, path, yes, planOnly
    Configs,        \* initial files: functions from Services to lines or Missing
    Edits,          \* lines an administrator may add to a file
    KeyPairs,       \* certificate and key paths that exist on disk
    Containers,     \* services that run in a container, from a copy of the file
    MaxFaults       \* bound on crashes, failed restores and edits together

Services == {"postfix", "dovecot"}
\* No file, and a file whose copy was cut short.
Missing == <<[kind |-> "missing", key |-> "", value |-> <<>>, indent |-> FALSE]>>
Truncated == <<[kind |-> "half", key |-> "", value |-> <<>>, indent |-> FALSE]>>

LineType == [kind : {"set", "more", "comment", "blank", "text", "half"}, key : STRING,
             value : Seq(STRING), indent : BOOLEAN]
WholeLine == {l \in LineType : l.kind # "half"}

ASSUME FixAssumption ==
    /\ Containers \subseteq Services /\ MaxFaults \in Nat
    /\ Configs \subseteq [Services -> Seq(WholeLine) \cup {Missing}]
    /\ Edits \subseteq WholeLine
    /\ \A req \in Requests : /\ req.service \in Services \cup {"auto"}
                            /\ req.path \in Services \cup {"default"}

\* What a change writes; the provers know of no string that it is one.
ASSUME WrittenAreStrings ==
    {"", "smtpd_tls_protocols", "smtpd_tls_mandatory_protocols", "smtpd_tls_security_level",
     "ssl_min_protocol", ">=TLSv1.2,", "!TLSv1.1", "may", "TLSv1.2"} \subseteq STRING

VARIABLES
    file,           \* path -> the lines on disk
    copy,           \* path -> the lines last copied into the container
    running,        \* service -> the lines it loaded
    backups,        \* the files <config>.mailent-backup-<timestamp>, in order
    run,            \* run -> where it is and what it holds
    faults

vars == <<file, copy, running, backups, run, faults>>

-----------------------------------------------------------------------------
(* Lines, and update_params of the two adapters.                           *)

Line(kind, key, value, indent) ==
    [kind |-> kind, key |-> key, value |-> value, indent |-> indent]
Setting(key, value) == Line("set", key, value, FALSE)
Comment == Line("comment", "", <<>>, FALSE)
Blank == Line("blank", "", <<>>, FALSE)

Assigns(l, key) == l.kind = "set" /\ l.key = key

\* The last of the indented lines after line i; only Postfix continues values.
Continued(s, ls, i) ==
    LET flush == {j \in (i + 1)..Len(ls) : ~ls[j].indent} IN
    CASE s = "dovecot" -> i
      [] s = "postfix" /\ flush = {} -> Len(ls)
      [] OTHER -> Min(flush) - 1

Value(s, ls, i) ==
    LET words[j \in i..Continued(s, ls, i)] ==
            IF j = i THEN ls[i].value ELSE words[j - 1] \o ls[j].value
    IN words[Continued(s, ls, i)]

\* Mutant of UpdateParam: leaves the rest of the old value behind the new one.
UpdateParamFirstLine(s, acc, param) ==
    LET ls == acc.lines
        i == SelectInSeq(ls, LAMBDA l : Assigns(l, param.key))
        line == Setting(param.key, param.value)
    IN [lines |-> IF i = 0 THEN Append(ls, line) ELSE [ls EXCEPT ![i] = line],
        changes |-> Append(acc.changes, param)]

\* One parameter: the first line that assigns it is rewritten when its value
\* differs, its continuation lines go in any case, a new one is appended.
UpdateParam(s, acc, param) ==
    LET ls == acc.lines
        i == SelectInSeq(ls, LAMBDA l : Assigns(l, param.key))
        stale == i = 0 \/ Value(s, ls, i) # param.value
        line == Setting(param.key, param.value)
        gap == IF ls # <<>> /\ Last(ls).kind # "blank" THEN <<Blank>> ELSE <<>>
    IN [lines |-> IF i = 0
                  THEN ls \o gap \o <<Comment, line>>
                  ELSE SubSeq(ls, 1, i - 1) \o <<IF stale THEN line ELSE ls[i]>>
                       \o SubSeq(ls, Continued(s, ls, i) + 1, Len(ls)),
        changes |-> IF stale THEN Append(acc.changes, param) ELSE acc.changes]

UpdateParams(s, ls, params) ==
    LET after[n \in 0..Len(params)] ==
            IF n = 0 THEN [lines |-> ls, changes |-> <<>>]
            ELSE UpdateParam(s, after[n - 1], params[n])
    IN after[Len(params)]

\* What the service makes of a file: the last assignment outside a block.
Effective(s, ls, key) ==
    LET at == {i \in 1..Len(ls) : Assigns(ls[i], key) /\ ~ls[i].indent} IN
    IF at = {} THEN <<>> ELSE Value(s, ls, Max(at))

-----------------------------------------------------------------------------
(* plan of the two adapters.                                               *)

Param(key, value) == [key |-> key, value |-> value]
Modern == <<">=TLSv1.2,", "!TLSv1.1">>

\* The last certificate and the last key named outside comments.
CertFilesExist(ls) ==
    LET named(key) == {i \in 1..Len(ls) : Assigns(ls[i], key)}
        c == named("smtpd_tls_cert_file")
        k == named("smtpd_tls_key_file")
    IN c # {} /\ k # {} /\ <<ls[Max(c)].value, ls[Max(k)].value>> \in KeyPairs

\* The parameters of a supported change; <<>> is guidance only.
PostfixParams(rule, ls) ==
    CASE rule = "TLS_LEGACY_VERSION" ->
             <<Param("smtpd_tls_protocols", Modern), Param("smtpd_tls_mandatory_protocols", Modern)>>
      [] rule = "STARTTLS_MISSING" /\ CertFilesExist(ls) ->
             <<Param("smtpd_tls_security_level", <<"may">>)>>
      [] OTHER -> <<>>

DovecotParams(rule) ==
    IF rule = "TLS_LEGACY_VERSION" THEN <<Param("ssl_min_protocol", <<"TLSv1.2">>)>> ELSE <<>>

Params(s, rule, ls) == IF s = "postfix" THEN PostfixParams(rule, ls) ELSE DovecotParams(rule)

\* detect: the file that is there, the one named first.
Detected(path) == file[path] # Missing

\* The adapter: as asked, else by the rule, else by the file there is.
Adapter(req) ==
    LET detected(s) == Detected(IF req.path = "default" THEN s ELSE req.path) IN
    IF req.service # "auto" THEN req.service
    ELSE IF req.rule = "STARTTLS_MISSING" \/ detected("postfix") \/ ~detected("dovecot")
         THEN "postfix" ELSE "dovecot"

\* A file with a line that assigns nothing never passes the service's check, nor
\* the check of each line when the service's is not installed; the first may
\* refuse a file for reasons of its own.
LinesPass(ls) == \A i \in 1..Len(ls) : ls[i].kind # "text"

-----------------------------------------------------------------------------
(* The steps of a run.                                                     *)

Idle == [pc |-> "idle", req |-> <<>>, s |-> "postfix", path |-> "postfix", changes |-> <<>>,
         backup |-> 0, read |-> <<>>, new |-> <<>>, end |-> "", heard |-> <<>>, verdict |-> "", opened |-> FALSE]

Init ==
    /\ file \in Configs
    /\ copy = [s \in Services |-> IF s \in Containers THEN file[s] ELSE Missing]
    /\ running = file
    /\ backups = <<>>
    /\ run = [p \in Runs |-> Idle]
    /\ faults = 0

At(p, pc) == run[p].pc = pc
Goto(p, pc) == run' = [run EXCEPT ![p].pc = pc]
End(p, how) == run' = [run EXCEPT ![p].pc = "ended", ![p].end = how]

\* run_fix up to the confirmation: adapter, file, plan, permission.
Plan(p) ==
    /\ At(p, "idle")
    /\ \E req \in Requests :
        LET s == Adapter(req)
            path == IF req.path = "default" THEN s ELSE req.path
            params == Params(s, req.rule, file[path])
            ask == [Idle EXCEPT !.req = req, !.s = s, !.path = path]
            ended(how) == [ask EXCEPT !.pc = "ended", !.end = how]
        IN run' = [run EXCEPT ![p] =
            IF file[path] = Missing THEN ended("failed")
            ELSE IF params = <<>> THEN ended("guided")
            ELSE IF req.planOnly THEN ended("shown")
            ELSE [ask EXCEPT !.pc = IF req.yes THEN "backup" ELSE "confirm",
                             !.changes = UpdateParams(s, file[path], params).changes]]
    /\ UNCHANGED <<file, copy, running, backups, faults>>

Confirm(p) ==
    /\ At(p, "confirm")
    /\ Goto(p, "backup") \/ End(p, "cancelled")
    /\ UNCHANGED <<file, copy, running, backups, faults>>

\* Mutant of CreateBackup: announces the backup of the preview, and makes none.
CreateBackupPreview(p) ==
    /\ At(p, "backup")
    /\ Goto(p, "read")
    /\ UNCHANGED <<file, copy, running, backups, faults>>

\* create_backup: a copy of the file under a new name.
CreateBackup(p) ==
    /\ At(p, "backup")
    /\ backups' = Append(backups, [path |-> run[p].path, lines |-> file[run[p].path]])
    /\ run' = [run EXCEPT ![p].pc = "read", ![p].backup = Len(backups')]
    /\ UNCHANGED <<file, copy, running, faults>>

\* apply reads the file again, so what was saved while the user was asked is
\* kept, and edits the lines in memory.
ReadConfig(p) ==
    /\ At(p, "read")
    /\ run' = [run EXCEPT ![p].pc = "write", ![p].read = file[run[p].path],
            ![p].new = UpdateParams(run[p].s, file[run[p].path], run[p].changes).lines]
    /\ UNCHANGED <<file, copy, running, backups, faults>>

\* Mutant of AtomicWrite: writes into the configuration itself.
AtomicWriteInPlace(p) ==
    /\ At(p, "write")
    /\ \/ /\ file[run[p].path] # Truncated
          /\ file' = [file EXCEPT ![run[p].path] = Truncated] /\ UNCHANGED run
       \/ /\ file' = [file EXCEPT ![run[p].path] = run[p].new] /\ Goto(p, "copy")
    /\ UNCHANGED <<copy, running, backups, faults>>

\* atomic_write: the temporary file is renamed over the configuration.
AtomicWrite(p) ==
    /\ At(p, "write")
    /\ file' = [file EXCEPT ![run[p].path] = run[p].new]
    /\ Goto(p, "copy")
    /\ UNCHANGED <<copy, running, backups, faults>>

\* It fails: apply restores the backup and gives up.
WriteFails(p) ==
    /\ At(p, "write") /\ faults < MaxFaults
    /\ faults' = faults + 1
    /\ run' = [run EXCEPT ![p].pc = "restore", ![p].end = "failed"]
    /\ UNCHANGED <<file, copy, running, backups>>

\* sync_to_container_if_running copies the file to the adapter's place.
SyncToContainer(p) ==
    /\ At(p, "copy")
    /\ copy' = IF run[p].s \in Containers
               THEN [copy EXCEPT ![run[p].s] = file[run[p].path]] ELSE copy
    /\ Goto(p, IF run[p].end = "" THEN "validate" ELSE "reload")
    /\ UNCHANGED <<file, running, backups, faults>>

ValidateConfig(p) ==
    /\ At(p, "validate")
    /\ \/ LinesPass(file[run[p].path]) /\ Goto(p, "reload")
       \/ run' = [run EXCEPT ![p].pc = "restore", ![p].end = "rejected"]
    /\ UNCHANGED <<file, copy, running, backups, faults>>

\* restore_backup opens the file for writing, which empties it, then fills it.
\* A failure to open or to fill is an error only of the manual rollback.
Restore(p) ==
    /\ At(p, "restore")
    /\ file' = [file EXCEPT ![run[p].path] = Truncated]
    /\ run' = [run EXCEPT ![p].pc = "fill", ![p].opened = TRUE]
    /\ UNCHANGED <<copy, running, backups, faults>>

Fill(p) ==
    /\ At(p, "fill")
    /\ file' = [file EXCEPT ![run[p].path] = backups[run[p].backup].lines]
    /\ Goto(p, CASE run[p].end = "failed" -> "ended"
                 [] run[p].end = "rejected" -> "copy"
                 [] OTHER -> "reload")
    /\ UNCHANGED <<copy, running, backups, faults>>

RestoreFails(p) ==
    /\ run[p].pc \in {"restore", "fill"} /\ faults < MaxFaults
    /\ faults' = faults + 1
    /\ run' = [run EXCEPT ![p].pc = "ended",
                          ![p].end = IF @ = "restored" THEN "failed" ELSE @]
    /\ UNCHANGED <<file, copy, running, backups>>

\* reload_service: the service loads its file, in the container the copy of it.
Loaded(s) == IF s \in Containers THEN copy[s] ELSE file[s]

\* Failing to reload is not an error.
ReloadService(p) ==
    LET s == run[p].s IN
    /\ At(p, "reload")
    /\ \/ running' = [running EXCEPT ![s] = Loaded(s)]
       \/ running' = running
    /\ Goto(p, IF run[p].end = "" THEN "probe" ELSE "ended")
    /\ UNCHANGED <<file, copy, backups, faults>>

\* run_fix --rollback: the file the name of the backup was made from.
ManualRollback(p) ==
    /\ At(p, "idle")
    /\ \E b \in 1..Len(backups) :
        run' = [run EXCEPT ![p] = [Idle EXCEPT !.pc = "restore", !.end = "restored", !.backup = b,
                                               !.s = backups[b].path, !.path = backups[b].path]]
    /\ UNCHANGED <<file, copy, running, backups, faults>>

-----------------------------------------------------------------------------
(* run_active_verification.                                                *)

Legacy(s, ls) ==
    IF s = "postfix" THEN Effective(s, ls, "smtpd_tls_protocols") # Modern
                     ELSE Effective(s, ls, "ssl_min_protocol") # <<"TLSv1.2">>
StartTls(s, ls) == s # "postfix" \/ Effective(s, ls, "smtpd_tls_security_level") = <<"may">>

\* Mutant of Classify: takes silence for a refusal.
ClassifySilence(answer) == IF answer = "handshake" THEN "Accepted" ELSE "Rejected"

\* classify_challenge: what an answer of the network counts as.  A handshake
\* that failed without an alert about the version, and a connection that was
\* reset, count as the refusal an alert is.
Classify(answer) ==
    CASE answer = "handshake" -> "Accepted"
      [] answer \in {"alert", "failure", "reset"} -> "Rejected"
      [] OTHER -> "Unavailable"

\* The primary probe: the service is reached, or it is not.
PrimaryProbe(p) ==
    /\ At(p, "probe")
    /\ \E reached \in BOOLEAN :
        LET up == reached /\ StartTls(run[p].s, running[run[p].s])
            ask == up /\ run[p].req.rule = "TLS_LEGACY_VERSION"
        IN run' = [run EXCEPT ![p].pc = IF ask THEN "challenge" ELSE "verdict",
                              ![p].verdict = IF up THEN "up"
                                             ELSE IF reached THEN "plain" ELSE "silent"]
    /\ UNCHANGED <<file, copy, running, backups, faults>>

\* One challenge each for TLS 1.0 and 1.1.  "alert" is about the protocol version,
\* "failure" another handshake failure; "nothing" a timeout, the end of the
\* connection or another address.
Challenge(p) ==
    /\ At(p, "challenge")
    /\ \E answer \in {IF Legacy(run[p].s, running[run[p].s]) THEN "handshake" ELSE "alert",
                      "failure", "reset", "nothing"} :
        run' = [run EXCEPT ![p].heard = Append(@, answer),
                           ![p].pc = IF Len(run[p].heard) = 1 THEN "verdict" ELSE "challenge"]
    /\ UNCHANGED <<file, copy, running, backups, faults>>

\* verify_remediation for the conditions a change can have.
VerifyRemediation(r) ==
    LET outcomes == {Classify(r.heard[i]) : i \in 1..Len(r.heard)} IN
    IF r.verdict = "silent" THEN "Inconclusive"
    ELSE IF r.req.rule = "STARTTLS_MISSING"
         THEN IF r.verdict = "up" THEN "VerifiedFixed" ELSE "StillPresent"
    ELSE IF "Accepted" \in outcomes THEN "StillPresent"
    ELSE IF r.verdict = "up" /\ outcomes = {"Rejected"} THEN "VerifiedFixed" ELSE "Inconclusive"

\* The verdict is shown, saved with the path of the backup, and may be sent.
Conclude(p) ==
    /\ At(p, "verdict")
    /\ run' = [run EXCEPT ![p].pc = "ended", ![p].end = "done",
                          ![p].verdict = VerifyRemediation(run[p])]
    /\ UNCHANGED <<file, copy, running, backups, faults>>

-----------------------------------------------------------------------------
(* The environment.                                                        *)

Crash(p) ==
    /\ run[p].pc \notin {"idle", "ended"} /\ faults < MaxFaults
    /\ faults' = faults + 1
    /\ run' = [run EXCEPT ![p].pc = "ended", ![p].end = "crashed"]
    /\ UNCHANGED <<file, copy, running, backups>>

\* An administrator adds a line to the file.
Edit(s) ==
    /\ faults < MaxFaults /\ file[s] \notin {Missing, Truncated}
    /\ faults' = faults + 1
    /\ \E l \in Edits : file' = [file EXCEPT ![s] = Append(@, l)]
    /\ UNCHANGED <<copy, running, backups, run>>

Step(p) ==
    \/ CreateBackup(p) \/ ReadConfig(p) \/ AtomicWrite(p) \/ WriteFails(p)
    \/ SyncToContainer(p) \/ ValidateConfig(p)
    \/ Restore(p) \/ Fill(p) \/ RestoreFails(p) \/ ReloadService(p)
    \/ PrimaryProbe(p) \/ Challenge(p) \/ Conclude(p)

Next ==
    \/ \E p \in Runs : Plan(p) \/ Confirm(p) \/ ManualRollback(p) \/ Step(p) \/ Crash(p)
    \/ \E s \in Services : Edit(s)

Spec == Init /\ [][Next]_vars

-----------------------------------------------------------------------------
(* Properties.                                                             *)

Pcs == {"idle", "confirm", "backup", "read", "write", "copy", "validate", "restore", "fill",
        "reload", "probe", "challenge", "verdict", "ended"}

\* Types, and what a run needs to be where it is: changes to make before it
\* writes and a backup before it can restore one.
TypeOK ==
    /\ \A s \in Services : \A ls \in {file[s], copy[s], running[s]} \ {Missing} :
        \A i \in 1..Len(ls) : ls[i] \in LineType
    /\ faults \in 0..MaxFaults
    /\ \A p \in Runs :
        /\ run[p].pc \in Pcs /\ run[p].s \in Services /\ run[p].path \in Services
        /\ run[p].pc \notin {"idle", "confirm", "backup", "ended"} => run[p].backup \in 1..Len(backups)
        /\ run[p].end = "" => Len(run[p].heard) <= 2

\* docs/remediation.md:128: writes are staged and renamed.  Whatever crashes or
\* fails, a configuration cut short is the work of a restore, which is not: it is
\* being filled, was cut in that step, or was read by another run meanwhile.
NoHalfFile ==
    \A s \in Services : (\E i \in 1..Len(file[s]) : file[s][i].kind = "half") =>
        \E p \in Runs : run[p].path = s /\ run[p].opened

FirstAt(ls, key) == SelectInSeq(ls, LAMBDA l : Assigns(l, key))
Names(l, keys) == l.kind = "set" /\ l.key \in keys

\* Whether an indented line of Postfix, which continues the one before, reads as
\* if it assigned a parameter: update_params takes it for an assignment.
Misread(s, ls, keys) == s = "postfix" /\ \E l \in ToSet(ls) : l.indent /\ Names(l, keys)

\* The file has the value already, over several lines.
Already(s, ls, param) ==
    LET i == FirstAt(ls, param.key)
    IN i # 0 /\ Continued(s, ls, i) > i /\ Value(s, ls, i) = param.value

\* update_params ("cleanly handling continuation lines", postfix.rs:15): the planned
\* parameters have the planned values where the file first names them, every other
\* parameter means what it did, and no line is lost but those that continue a planned
\* parameter.  Not so a value that somebody brought to the planned one meanwhile,
\* over several lines, which loses all but its first, nor a misread file.
WrittenAsPlanned ==
    \A p \in Runs : At(p, "write") =>
        LET r == run[p]
            keys == {c.key : c \in ToSet(r.changes)}
        IN ~Misread(r.s, r.read, keys) =>
            /\ \A c \in ToSet(r.changes) :
                 Already(r.s, r.read, c) \/ Value(r.s, r.new, FirstAt(r.new, c.key)) = c.value
            /\ \A key \in {l.key : l \in ToSet(r.read)} \ keys :
                 Effective(r.s, r.new, key) = Effective(r.s, r.read, key)
            /\ \A l \in ToSet(r.read) :
                 (r.s = "postfix" /\ l.indent) \/ Names(l, keys) \/ l \in ToSet(r.new)

\* verify_remediation after classify_challenge: a legacy handshake that was
\* accepted is the verdict, whatever the other one met and whatever rewrites or
\* reloads the configuration meanwhile; without two failed handshakes, or after a
\* timeout, nothing is verified (docs/remediation.md:22-24).  That a failure or a
\* reset is enough is what VerifiedMeansAlerted is about.
VerdictFollowsAnswers ==
    \A p \in Runs : run[p].end = "done" /\ run[p].req.rule = "TLS_LEGACY_VERSION" =>
        LET heard == ToSet(run[p].heard) IN
        /\ run[p].verdict = "StillPresent" => "handshake" \in heard
        /\ run[p].verdict = "Inconclusive" => "handshake" \notin heard
        /\ run[p].verdict = "VerifiedFixed" =>
             Len(run[p].heard) = 2 /\ heard \cap {"handshake", "nothing"} = {}

\* docs/remediation.md:117: "both must receive explicit server protocol refusal
\* alerts", and :22-23: resets and generic handshake failures are inconclusive.
\* The code does otherwise (verify.rs:28-36, 71-79).
VerifiedMeansAlerted ==
    \A p \in Runs :
        run[p].verdict = "VerifiedFixed" /\ run[p].req.rule = "TLS_LEGACY_VERSION" =>
            run[p].heard = <<"alert", "alert">>
=============================================================================
