------------------------------ MODULE DeviceLogin ------------------------------
(***************************************************************************)
(* How a host joins a workspace and leaves it (api/devices.rs, auth.rs and *)
(* the commands of the CLI that use credentials).                          *)
(*                                                                         *)
(* mailent login opens a challenge, a user of the workspace approves it by *)
(* three storage calls, and login saves the token it polls.  Commands of   *)
(* the host share the credentials file.  Each holds the credentials it     *)
(* read when it started, asks Core in their name and signs out when Core   *)
(* rejects them.  Core's handlers read a device, edit its capabilities and *)
(* write them back, also when the command has stopped waiting.             *)
(***************************************************************************)
EXTENDS Integers

CONSTANTS
    Processes,      \* commands running on the host at once
    Programs,       \* process -> the commands it may run
    MaxCodes,       \* bound on challenges opened
    MaxDevices,     \* bound on devices registered; a device and its token share a number
    Approvers,      \* approvals served at once
    Handlers,       \* requests of devices served at once
    MaxFaults       \* bound on lost requests, time-outs, approvals and commands cut short

ASSUME DeviceLoginAssumption == MaxDevices \in Nat \ {0} /\ MaxCodes \in Nat /\ MaxFaults \in Nat

VARIABLES
    challenges,     \* code -> [state, grant]; an expired one gives its grant to nobody
    devices,        \* device -> [saved, token, revoked, can]
    approval,       \* approver -> [pc, code, device]
    call,           \* handler -> the request it serves
    cli,            \* process -> its command, where it is and the credentials it holds
    file,           \* the credentials file: a device, or NoDevice
    settled,        \* history: devices whose report met no heartbeat half done
    faults

vars == <<challenges, devices, approval, call, cli, file, settled, faults>>

NoDevice == 0
Devices == 1..MaxDevices
Codes == 1..MaxCodes
NoCode == 0
Nobody == "nobody"

Commands == {"login", "companion", "monitor", "status", "logout"}
ASSUME ProgramsAssumption == Nobody \notin Processes /\ \A p \in Processes : Programs[p] \subseteq Commands
Requests == {"report", "heartbeat", "status", "watch", "logout"}
Reads == {"status", "watch"}    \* answered once the token is valid

\* Capabilities, as far as requests treat them differently: what a report of
\* the installation stores and what a heartbeat stores.
Capabilities == {"installed", "remote"}

AbsentDevice == [saved |-> FALSE, token |-> FALSE, revoked |-> FALSE, can |-> {}]
Off == [does |-> "none", pc |-> "off", grant |-> NoDevice, code |-> NoCode, asks |-> "none"]
Free == [pc |-> "free", kind |-> "none", device |-> NoDevice, can |-> {}, by |-> Nobody]
NoApproval == [pc |-> "idle", code |-> NoCode, device |-> NoDevice]

\* A host that was never connected, or is since an earlier login.
Init ==
    /\ challenges = [c \in Codes |-> [state |-> "none", grant |-> NoDevice]]
    /\ file \in {NoDevice, 1}
    /\ devices = [k \in Devices |-> IF k = file THEN [AbsentDevice EXCEPT !.saved = TRUE, !.token = TRUE]
                                     ELSE AbsentDevice]
    /\ approval = [a \in Approvers |-> NoApproval]
    /\ call = [h \in Handlers |-> Free]
    /\ cli = [p \in Processes |-> Off]
    /\ settled = {}
    /\ faults = 0

Fault == faults < MaxFaults /\ faults' = faults + 1

-----------------------------------------------------------------------------
(* The challenge and its approval.                                         *)

\* Fifteen minutes after it was made.
Expire(c) ==
    /\ challenges[c].state = "open"
    /\ challenges' = [challenges EXCEPT ![c] = [state |-> "expired", grant |-> NoDevice]]
    /\ UNCHANGED <<devices, approval, call, cli, file, settled, faults>>

\* Ids are random; here they are given out in order.
NewDevice == {k \in Devices : ~devices[k].saved /\ \A j \in 1..(k - 1) : devices[j].saved}
NewCode == {c \in Codes : challenges[c].state = "none" /\ \A d \in 1..(c - 1) : challenges[d].state # "none"}

\* Mutant of SaveDevice: the challenge gets its token before the device does.
SaveDevicePublished(a) ==
    /\ approval[a].pc = "idle"
    /\ \E c \in Codes, k \in NewDevice :
        /\ challenges[c].state = "open"
        /\ devices' = [devices EXCEPT ![k].saved = TRUE]
        /\ challenges' = [challenges EXCEPT ![c].grant = k]
        /\ approval' = [approval EXCEPT ![a] = [pc |-> "token", code |-> c, device |-> k]]
    /\ UNCHANGED <<call, cli, file, settled, faults>>

\* A user approves a challenge that has not expired, approved before or not.
SaveDevice(a) ==
    /\ approval[a].pc = "idle"
    /\ \E c \in Codes, k \in NewDevice :
        /\ challenges[c].state = "open"
        /\ devices' = [devices EXCEPT ![k].saved = TRUE]
        /\ approval' = [approval EXCEPT ![a] = [pc |-> "token", code |-> c, device |-> k]]
    /\ UNCHANGED <<challenges, call, cli, file, settled, faults>>

SaveDeviceToken(a) ==
    /\ approval[a].pc = "token"
    /\ devices' = [devices EXCEPT ![approval[a].device].token = TRUE]
    /\ approval' = [approval EXCEPT ![a].pc = "approve"]
    /\ UNCHANGED <<challenges, call, cli, file, settled, faults>>

ApproveChallenge(a) ==
    /\ approval[a].pc = "approve"
    /\ challenges' = [challenges EXCEPT ![approval[a].code].grant =
                        IF challenges[approval[a].code].state = "open" THEN approval[a].device ELSE NoDevice]
    /\ approval' = [approval EXCEPT ![a] = NoApproval]
    /\ UNCHANGED <<devices, call, cli, file, settled, faults>>

ApprovalDies(a) ==
    /\ approval[a].pc # "idle"
    /\ Fault
    /\ approval' = [approval EXCEPT ![a] = NoApproval]
    /\ UNCHANGED <<challenges, devices, call, cli, file, settled>>

\* A user removes a device of the workspace; its token stays but is worth nothing.
RevokeDevice(k) ==
    /\ devices[k].saved /\ ~devices[k].revoked
    /\ devices' = [devices EXCEPT ![k].revoked = TRUE]
    /\ UNCHANGED <<challenges, approval, call, cli, file, settled, faults>>

-----------------------------------------------------------------------------
(* What a command does with an answer.                                     *)

At(p, pc) == cli[p].pc = pc
Current(p) == file = cli[p].grant

\* The request that follows.  A report is best effort, a heartbeat is repeated,
\* and a status that cannot be had ends the command.
Follows(does, asks, answer) ==
    IF \/ asks = "report" /\ does \in {"login", "status"}
       \/ does = "companion" /\ asks = "heartbeat" /\ answer = "rejected"
       \/ does # "companion" /\ asks \in Reads /\ answer # "ok"
    THEN "end"
    ELSE IF does = "companion" THEN "heartbeat" ELSE IF asks = "status" THEN "report" ELSE "watch"

\* What a command other than login asks first.
First(does) == CASE does = "companion" -> "report" [] does = "logout" -> "logout" [] OTHER -> "status"

Onward(process, answer) ==
    LET next == Follows(process.does, process.asks, answer)
    IN IF next = "end" THEN Off ELSE [process EXCEPT !.pc = "run", !.asks = next]

\* Mutant of Heard: a rejection is only reported, as any failure.
HeardPatiently(p, answer) ==
    IF cli[p].asks = "logout" THEN [cli[p] EXCEPT !.pc = "clearing"] ELSE Onward(cli[p], "ok")

\* logout removes the file whatever Core says; handle_rejection only if the
\* rejected credentials are in it, which it looks up first.
Heard(p, answer) ==
    IF cli[p].asks = "logout" \/ (answer = "rejected" /\ Current(p))
    THEN [cli[p] EXCEPT !.pc = "clearing"]
    ELSE Onward(cli[p], answer)

-----------------------------------------------------------------------------
(* Requests of devices.                                                    *)

\* validate_device_token.
Valid(k) == devices[k].token /\ ~devices[k].revoked

\* report_installation_handler and agent_heartbeat_handler keep of the device
\* they read what the other one stores.
Keeps(kind) == IF kind = "report" THEN {"remote"} ELSE {"installed"}
Stores(kind) == IF kind = "report" THEN {"installed"} ELSE {"remote"}

\* Mutant of Read: the capabilities are not carried over.
ReadNothing(h) ==
    /\ call[h].pc = "read"
    /\ call' = [call EXCEPT ![h].pc = "write"]
    /\ UNCHANGED <<challenges, devices, approval, cli, file, settled, faults>>

Read(h) ==
    /\ call[h].pc = "read"
    /\ call' = [call EXCEPT ![h].pc = "write", ![h].can = devices[call[h].device].can \cap Keeps(call[h].kind)]
    /\ UNCHANGED <<challenges, devices, approval, cli, file, settled, faults>>

\* The process that asked has its answer, unless it no longer waits.
Answered(h) ==
    /\ call' = [call EXCEPT ![h] = Free]
    /\ cli' = [p \in Processes |-> IF p = call[h].by THEN Heard(p, "ok") ELSE cli[p]]

\* Only a device that is not revoked is updated.
Updated(row, kind, can) ==
    IF row.revoked THEN row ELSE [row EXCEPT !.can = can \cup Stores(kind)]

HalfDone(k) == \E h \in Handlers : call[h].device = k /\ call[h].kind = "heartbeat" /\ call[h].pc = "write"

Write(h) ==
    LET k == call[h].device
        kind == call[h].kind
    IN /\ call[h].pc = "write"
       /\ devices' = [devices EXCEPT ![k] = Updated(@, kind, call[h].can)]
       /\ settled' = IF kind = "report" /\ ~HalfDone(k) /\ ~devices[k].revoked THEN settled \cup {k} ELSE settled
       /\ Answered(h)
       /\ UNCHANGED <<challenges, approval, file, faults>>

\* device_logout_handler: revoke_device_token is two statements.
RevokeDeviceToken(h) ==
    /\ call[h].pc = "revoke"
    /\ devices' = [devices EXCEPT ![call[h].device].revoked = TRUE]
    /\ call' = [call EXCEPT ![h].pc = "delete"]
    /\ UNCHANGED <<challenges, approval, cli, file, settled, faults>>

DeleteToken(h) ==
    /\ call[h].pc = "delete"
    /\ devices' = [devices EXCEPT ![call[h].device].token = FALSE]
    /\ Answered(h)
    /\ UNCHANGED <<challenges, approval, file, settled, faults>>

-----------------------------------------------------------------------------
(* Commands.                                                               *)

\* A command starts: login opens a challenge, the others need credentials.
Start(p) ==
    /\ At(p, "off")
    /\ \/ \E c \in NewCode :
            /\ "login" \in Programs[p]
            /\ challenges' = [challenges EXCEPT ![c].state = "open"]
            /\ cli' = [cli EXCEPT ![p] = [Off EXCEPT !.does = "login", !.pc = "waiting", !.code = c, !.asks = "report"]]
       \/ \E does \in Programs[p] \ {"login"} :
            /\ file # NoDevice
            /\ cli' = [cli EXCEPT ![p] = [Off EXCEPT !.does = does, !.pc = "run", !.grant = file, !.asks = First(does)]]
            /\ UNCHANGED challenges
    /\ UNCHANGED <<devices, approval, call, file, settled, faults>>

\* Ctrl+C, or the process dies.
Quit(p) ==
    /\ ~At(p, "off")
    /\ Fault
    /\ cli' = [cli EXCEPT ![p] = Off]
    /\ call' = [h \in Handlers |-> IF call[h].by = p THEN [call[h] EXCEPT !.by = Nobody] ELSE call[h]]
    /\ UNCHANGED <<challenges, devices, approval, file, settled>>

\* The answers of poll_challenge_handler, besides "pending".
Gone(c) == challenges[c].state = "expired"
Approved(c) == challenges[c].state = "open" /\ challenges[c].grant # NoDevice

\* login polls until the challenge is approved or gone; saving truncates the
\* file before it writes it.
Poll(p) ==
    /\ At(p, "waiting")
    /\ \/ /\ Gone(cli[p].code)
          /\ cli' = [cli EXCEPT ![p] = Off]
          /\ UNCHANGED file
       \/ /\ Approved(cli[p].code)
          /\ cli' = [cli EXCEPT ![p].pc = "saving", ![p].grant = challenges[cli[p].code].grant]
          /\ file' = NoDevice
    /\ UNCHANGED <<challenges, devices, approval, call, settled, faults>>

Save(p) ==
    /\ At(p, "saving")
    /\ file' = cli[p].grant
    /\ cli' = [cli EXCEPT ![p].pc = "run", ![p].code = NoCode]
    /\ UNCHANGED <<challenges, devices, approval, call, settled, faults>>

\* Requests that go out only with credentials still in the file.
Checked(p) == cli[p].asks \in {"heartbeat", "watch"}

Told(p, answer) == cli' = [cli EXCEPT ![p] = Heard(p, answer)]

\* Core checks the token first and answers as to a revoked one when it cannot
\* (auth.rs:217); a question for the status ends with that.
Ask(p) ==
    LET k == cli[p].grant
        asks == cli[p].asks
    IN /\ At(p, "run") /\ (Checked(p) => Current(p))
       /\ \/ /\ ~Valid(k)
             /\ Told(p, "rejected")
             /\ UNCHANGED <<call, faults>>
          \/ /\ Fault
             /\ \E answer \in {"rejected", "failed"} : Told(p, answer)
             /\ UNCHANGED call
          \/ /\ Valid(k) /\ asks \in Reads
             /\ Told(p, "ok")
             /\ UNCHANGED <<call, faults>>
          \/ /\ Valid(k) /\ asks \notin Reads
             /\ \E h \in Handlers :
                /\ call[h].pc = "free"
                /\ call' = [call EXCEPT ![h] = [pc |-> IF asks = "logout" THEN "revoke" ELSE "read",
                                                kind |-> asks, device |-> k, can |-> {}, by |-> p]]
             /\ cli' = [cli EXCEPT ![p].pc = "asking"]
             /\ UNCHANGED faults
       /\ UNCHANGED <<challenges, devices, approval, file, settled>>

\* Mutant of GiveUp: the answer still counts when it comes.
GiveUpWaiting(p) ==
    /\ At(p, "asking")
    /\ Fault
    /\ Told(p, "failed")
    /\ UNCHANGED <<challenges, devices, approval, call, file, settled>>

\* Ten seconds without an answer.
GiveUp(p) ==
    /\ At(p, "asking")
    /\ Fault
    /\ Told(p, "failed")
    /\ call' = [h \in Handlers |-> IF call[h].by = p THEN [call[h] EXCEPT !.by = Nobody] ELSE call[h]]
    /\ UNCHANGED <<challenges, devices, approval, file, settled>>

\* Signed out meanwhile.
SignedOut(p) ==
    /\ At(p, "run") /\ Checked(p) /\ ~Current(p)
    /\ cli' = [cli EXCEPT ![p] = Off]
    /\ UNCHANGED <<challenges, devices, approval, call, file, settled, faults>>

ClearCredentials(p) ==
    /\ At(p, "clearing")
    /\ file' = NoDevice
    /\ cli' = [cli EXCEPT ![p] = IF @.asks = "logout" THEN Off ELSE Onward(@, "rejected")]
    /\ UNCHANGED <<challenges, devices, approval, call, settled, faults>>

-----------------------------------------------------------------------------
CommandStep(p) == Poll(p) \/ Save(p) \/ Ask(p) \/ SignedOut(p) \/ ClearCredentials(p)
HandlerStep(h) == Read(h) \/ Write(h) \/ RevokeDeviceToken(h) \/ DeleteToken(h)

Next ==
    \/ \E p \in Processes : Start(p) \/ CommandStep(p) \/ GiveUp(p) \/ Quit(p)
    \/ \E h \in Handlers : HandlerStep(h)
    \/ \E a \in Approvers : SaveDevice(a) \/ SaveDeviceToken(a) \/ ApproveChallenge(a) \/ ApprovalDies(a)
    \/ \E c \in Codes : Expire(c)
    \/ \E k \in Devices : RevokeDevice(k)

Spec == Init /\ [][Next]_vars

\* Commands go on by themselves and Core serves what it accepted; nobody has to
\* approve, revoke, start or quit anything.
Fairness ==
    /\ \A p \in Processes : WF_vars(CommandStep(p))
    /\ \A h \in Handlers : WF_vars(HandlerStep(h))
FairSpec == Spec /\ Fairness

-----------------------------------------------------------------------------
(* Properties.                                                             *)

\* Types; a handler serves a registered device and at most one answers a process.
TypeOK ==
    /\ \A c \in Codes : challenges[c].state \in {"none", "open", "expired"} /\ challenges[c].grant \in {NoDevice} \cup Devices
    /\ \A k \in Devices : devices[k].can \subseteq Capabilities /\ (devices[k].token => devices[k].saved)
    /\ \A p \in Processes :
        /\ cli[p].pc \in {"off", "waiting", "saving", "run", "asking", "clearing"}
        /\ cli[p].pc \notin {"off", "waiting"} => cli[p].grant \in Devices /\ cli[p].asks \in Requests
        /\ At(p, "asking") => \E h \in Handlers : call[h].by = p
    /\ \A h, i \in Handlers : call[h].by = call[i].by /\ h # i => call[h].by = Nobody
    /\ file \in {NoDevice} \cup Devices /\ settled \subseteq Devices /\ faults \in 0..MaxFaults

\* api/devices.rs:163-182: credentials a login was given are those of a stored
\* device and open the workspace until the device is revoked, whichever
\* approvals of a challenge run at once and wherever one of them dies.
GrantsWork ==
    \A k \in Devices :
        \/ file = k
        \/ \E c \in Codes : challenges[c].grant = k
        \/ \E p \in Processes : cli[p].grant = k
        => devices[k].saved /\ (Valid(k) \/ devices[k].revoked)

\* A report of the installation that met no heartbeat half done is never lost to
\* heartbeats, whoever sends them and whoever stopped waiting for them.
ReportsLast == \A k \in settled : "installed" \in devices[k].can

\* docs/MAILENT_COMPLETE_GUIDE.md:123: every command of a revoked device halts.
Revoked(p) == cli[p].grant # NoDevice /\ devices[cli[p].grant].revoked
RevokedHalts == \A p \in Processes : Revoked(p) ~> ~Revoked(p)
=============================================================================
