--------------------------- MODULE DeviceLoginProofs ---------------------------
(***************************************************************************)
(* What holds of logins, credentials and reports for any commands of the   *)
(* host, any number of approvals and requests served at once, and any      *)
(* faults.                                                                 *)
(***************************************************************************)
EXTENDS DeviceLogin, TLAPS

ChallengeRow == [state : {"none", "open", "expired"}, grant : {NoDevice} \cup Devices]
DeviceRow == [saved : BOOLEAN, token : BOOLEAN, revoked : BOOLEAN, can : SUBSET Capabilities]
ApprovalRow == [pc : {"idle", "token", "approve"}, code : {NoCode} \cup Codes, device : {NoDevice} \cup Devices]
CallRow == [pc : {"free", "read", "write", "revoke", "delete"}, kind : Requests \cup {"none"},
            device : {NoDevice} \cup Devices, can : SUBSET Capabilities, by : Processes \cup {Nobody}]
CommandRow == [does : Commands \cup {"none"}, pc : {"off", "waiting", "saving", "run", "asking", "clearing"},
               grant : {NoDevice} \cup Devices, code : {NoCode} \cup Codes, asks : Requests \cup {"none"}]

TypeInv ==
    /\ challenges \in [Codes -> ChallengeRow]
    /\ devices \in [Devices -> DeviceRow]
    /\ approval \in [Approvers -> ApprovalRow]
    /\ call \in [Handlers -> CallRow]
    /\ cli \in [Processes -> CommandRow]
    /\ file \in {NoDevice} \cup Devices
    /\ settled \subseteq Devices
    /\ faults \in 0..MaxFaults

\* A device whose credentials may be given out.
Works(k) == devices[k].saved /\ (devices[k].token \/ devices[k].revoked)

\* A command that goes on knows its credentials, and one that waits is served.
CommandSafe(p) ==
    /\ cli[p].pc # "off" => cli[p].asks \in Requests
    /\ cli[p].pc = "waiting" => cli[p].code \in Codes
    /\ cli[p].pc \notin {"off", "waiting"} => cli[p].grant \in Devices
    /\ cli[p].pc = "asking" => \E h \in Handlers : call[h].by = p
    /\ cli[p].grant \in Devices => Works(cli[p].grant)

\* A handler answers a process that waits for it, knows its device, and deletes
\* only the token of a device that is revoked already.
CallSafe(h) ==
    /\ call[h].by # Nobody => cli[call[h].by].pc = "asking"
    /\ call[h].pc = "free" => call[h].by = Nobody
    /\ call[h].pc # "free" => call[h].device \in Devices
    /\ call[h].pc \in {"read", "write"} => call[h].kind \in {"report", "heartbeat"}
    /\ call[h].pc = "delete" => devices[call[h].device].revoked

AnswersOnce == \A h, i \in Handlers : call[h].by = call[i].by /\ h # i => call[h].by = Nobody

\* An approval saves the device, then its token, and only then publishes it.
ApprovalSafe(a) ==
    /\ approval[a].pc # "idle" => approval[a].code \in Codes /\ approval[a].device \in Devices
    /\ approval[a].pc = "token" => devices[approval[a].device].saved
    /\ approval[a].pc = "approve" => Works(approval[a].device)

GrantsPublished == \A c \in Codes : challenges[c].grant \in Devices => Works(challenges[c].grant)

PublishedWork ==
    /\ file \in Devices => Works(file)
    /\ GrantsPublished

\* A heartbeat half done carries over what was reported before it began.
CarriesOver(h) ==
    call[h].pc = "write" /\ call[h].kind = "heartbeat" /\ call[h].device \in settled => "installed" \in call[h].can

TokensSaved == \A k \in Devices : devices[k].token => devices[k].saved

IInv ==
    /\ TypeInv
    /\ \A p \in Processes : CommandSafe(p)
    /\ \A h \in Handlers : CallSafe(h)
    /\ AnswersOnce
    /\ \A a \in Approvers : ApprovalSafe(a)
    /\ PublishedWork
    /\ TokensSaved
    /\ \A h \in Handlers : CarriesOver(h)
    /\ ReportsLast

-----------------------------------------------------------------------------
LEMMA Numbers == NoDevice \notin Devices /\ NoCode \notin Codes
BY DeviceLoginAssumption, SMT DEF NoDevice, Devices, NoCode, Codes

LEMMA InitInv == Init => IInv
<1> SUFFICES ASSUME Init PROVE IInv
  OBVIOUS
<1> USE Numbers
<1>1. 1 \in Devices
  BY DeviceLoginAssumption, SMT DEF Devices
<1>2. file \in {NoDevice} \cup Devices
  BY <1>1 DEF Init
<1>3. TypeInv
  <2>1. challenges \in [Codes -> ChallengeRow]
    BY DEF Init, ChallengeRow
  <2>2. devices \in [Devices -> DeviceRow]
    <3>1. AbsentDevice \in DeviceRow /\ [AbsentDevice EXCEPT !.saved = TRUE, !.token = TRUE] \in DeviceRow
      BY DEF DeviceRow, AbsentDevice
    <3> QED
      BY <3>1 DEF Init
  <2>3. approval \in [Approvers -> ApprovalRow]
    BY DEF Init, ApprovalRow, NoApproval
  <2>4. call \in [Handlers -> CallRow]
    BY DEF Init, CallRow, Free
  <2>5. cli \in [Processes -> CommandRow]
    BY DEF Init, CommandRow, Off
  <2>6. settled \subseteq Devices /\ faults \in 0..MaxFaults
    BY DeviceLoginAssumption, SMT DEF Init
  <2> QED
    BY <1>2, <2>1, <2>2, <2>3, <2>4, <2>5, <2>6 DEF TypeInv
<1>4. \A p \in Processes : CommandSafe(p)
  BY DEF Init, CommandSafe, Off
<1>5. \A h \in Handlers : CallSafe(h) /\ CarriesOver(h)
  BY DEF Init, CallSafe, CarriesOver, Free
<1>6. AnswersOnce
  BY DEF Init, AnswersOnce, Free
<1>7. \A a \in Approvers : ApprovalSafe(a)
  BY DEF Init, ApprovalSafe, NoApproval
<1>8. PublishedWork /\ TokensSaved
  BY <1>1, SMT DEF Init, PublishedWork, GrantsPublished, TokensSaved, Works, AbsentDevice, NoDevice
<1>9. ReportsLast
  BY DEF Init, ReportsLast
<1> QED
  BY <1>3, <1>4, <1>5, <1>6, <1>7, <1>8, <1>9 DEF IInv

\* What a command is after an answer: gone, going on or signing out, with the
\* credentials it had.
LEMMA HeardKeeps ==
    ASSUME NEW p \in Processes, NEW answer, cli[p] \in CommandRow, cli[p].asks \in Requests
    PROVE  \/ Heard(p, answer) = Off
           \/ \E pc \in {"run", "clearing"}, asks \in Requests :
                Heard(p, answer) = [cli[p] EXCEPT !.pc = pc, !.asks = asks]
<1>1. CASE cli[p].asks = "logout" \/ (answer = "rejected" /\ Current(p))
  <2>1. Heard(p, answer) = [cli[p] EXCEPT !.pc = "clearing", !.asks = cli[p].asks]
    BY <1>1 DEF Heard, CommandRow
  <2> QED
    BY <2>1
<1>2. CASE ~(cli[p].asks = "logout" \/ (answer = "rejected" /\ Current(p)))
  <2>1. Heard(p, answer) = Onward(cli[p], answer)
    BY <1>2 DEF Heard
  <2> DEFINE next == Follows(cli[p].does, cli[p].asks, answer)
  <2>2. next \in {"end", "heartbeat", "report", "watch"}
    BY SMT DEF Follows
  <2>3. Onward(cli[p], answer) = IF next = "end" THEN Off ELSE [cli[p] EXCEPT !.pc = "run", !.asks = next]
    BY DEF Onward
  <2> HIDE DEF next
  <2> QED
    BY <2>1, <2>2, <2>3 DEF Requests
<1> QED
  BY <1>1, <1>2

-----------------------------------------------------------------------------
(* Devices only gain tokens and revocations, so credentials keep working.  *)

Grown ==
    \A k \in Devices : /\ Works(k) => Works(k)'
                       /\ devices[k].saved => devices'[k].saved
                       /\ devices[k].revoked => devices'[k].revoked

LEMMA SameGrown == devices' = devices => Grown
BY DEF Grown, Works

\* Parts of the invariant under steps that do not touch what they speak of.
LEMMA ApprovalsKept ==
    ASSUME Grown, approval' = approval, \A a \in Approvers : ApprovalSafe(a)
    PROVE  \A a \in Approvers : ApprovalSafe(a)'
BY DEF Grown, ApprovalSafe, Works

LEMMA PublishedKept ==
    ASSUME Grown, file' = file, challenges' = challenges, PublishedWork
    PROVE  PublishedWork'
BY DEF Grown, PublishedWork, GrantsPublished, Works

LEMMA CommandKept ==
    ASSUME Grown, NEW q \in Processes, CommandSafe(q), cli'[q] = cli[q],
           \A h \in Handlers : call[h].by = q => call'[h].by = q
    PROVE  CommandSafe(q)'
BY DEF Grown, CommandSafe, Works

LEMMA CallKept ==
    ASSUME Grown, NEW h \in Handlers, CallSafe(h), call'[h] = call[h],
           call[h].by # Nobody => cli'[call[h].by].pc = "asking"
    PROVE  CallSafe(h)'
BY DEF Grown, CallSafe

\* A command that waits for no answer changes.
LEMMA CommandMoves ==
    ASSUME IInv, Grown, NEW p \in Processes, cli[p].pc # "asking",
           NEW new \in CommandRow, cli' = [cli EXCEPT ![p] = new], new.pc # "asking",
           new.pc # "off" => new.asks \in Requests,
           new.pc = "waiting" => new.code \in Codes,
           new.pc \notin {"off", "waiting"} => new.grant \in Devices,
           new.grant \in Devices => Works(new.grant),
           UNCHANGED <<call, settled>>
    PROVE  /\ cli' \in [Processes -> CommandRow]
           /\ \A q \in Processes : CommandSafe(q)'
           /\ \A h \in Handlers : CallSafe(h)' /\ CarriesOver(h)'
           /\ AnswersOnce'
<1> USE DEF IInv
<1>1. cli \in [Processes -> CommandRow] /\ call \in [Handlers -> CallRow]
  BY DEF TypeInv
<1>2. cli' \in [Processes -> CommandRow] /\ cli'[p] = new /\ \A q \in Processes \ {p} : cli'[q] = cli[q]
  BY <1>1
<1>3. ASSUME NEW q \in Processes PROVE CommandSafe(q)'
  <2>1. CASE q = p
    BY <1>2, <2>1 DEF CommandSafe, Grown, Works
  <2>2. CASE q # p
    BY <1>2, <2>2, CommandKept
  <2> QED
    BY <2>1, <2>2
<1>4. ASSUME NEW h \in Handlers PROVE CallSafe(h)'
  <2>1. call[h].by # Nobody => call[h].by \in Processes \ {p}
    BY <1>1 DEF CallSafe, CallRow
  <2> QED
    BY <1>2, <2>1, CallKept DEF CallSafe
<1>5. ASSUME NEW h \in Handlers PROVE CarriesOver(h)'
  BY DEF CarriesOver
<1>6. AnswersOnce'
  BY DEF AnswersOnce
<1> QED
  BY <1>2, <1>3, <1>4, <1>5, <1>6

\* What a command that is answered becomes is safe.
LEMMA HeardSafe ==
    ASSUME IInv, NEW p \in Processes, NEW answer, cli[p].pc \in {"run", "asking"}
    PROVE  /\ Heard(p, answer) \in CommandRow
           /\ Heard(p, answer).pc \in {"off", "run", "clearing"}
           /\ Heard(p, answer).pc # "off" => Heard(p, answer).asks \in Requests /\ Heard(p, answer).grant \in Devices
           /\ Heard(p, answer).grant \in Devices => Works(Heard(p, answer).grant)
<1>1. cli[p] \in CommandRow /\ CommandSafe(p)
  BY DEF IInv, TypeInv
<1>2. cli[p].asks \in Requests /\ cli[p].grant \in Devices /\ Works(cli[p].grant)
  BY <1>1 DEF CommandSafe
<1>3. CASE Heard(p, answer) = Off
  BY <1>3, Numbers DEF Off, CommandRow
<1>4. CASE \E pc \in {"run", "clearing"}, asks \in Requests :
             Heard(p, answer) = [cli[p] EXCEPT !.pc = pc, !.asks = asks]
  <2>1. PICK pc \in {"run", "clearing"}, asks \in Requests :
          Heard(p, answer) = [cli[p] EXCEPT !.pc = pc, !.asks = asks]
    BY <1>4
  <2>2. /\ Heard(p, answer) \in CommandRow
        /\ Heard(p, answer).pc = pc /\ Heard(p, answer).asks = asks
        /\ Heard(p, answer).grant = cli[p].grant
    BY <1>1, <2>1 DEF CommandRow
  <2> QED
    BY <1>2, <2>2
<1> QED
  BY <1>1, <1>2, <1>3, <1>4, HeardKeeps

-----------------------------------------------------------------------------
(* Steps of commands that no handler takes part in.                        *)

LEMMA QuietCommand ==
    ASSUME IInv, NEW p \in Processes, cli[p].pc # "asking",
           NEW new \in CommandRow, cli' = [cli EXCEPT ![p] = new], new.pc # "asking",
           new.pc # "off" => new.asks \in Requests,
           new.pc = "waiting" => new.code \in Codes,
           new.pc \notin {"off", "waiting"} => new.grant \in Devices,
           new.grant \in Devices => Works(new.grant),
           UNCHANGED <<devices, approval, call, settled>>,
           challenges' \in [Codes -> ChallengeRow], file' \in {NoDevice} \cup Devices,
           faults' \in 0..MaxFaults, PublishedWork'
    PROVE  IInv'
<1>1. Grown
  BY SameGrown
<1>2. /\ cli' \in [Processes -> CommandRow]
      /\ \A q \in Processes : CommandSafe(q)'
      /\ \A h \in Handlers : CallSafe(h)' /\ CarriesOver(h)'
      /\ AnswersOnce'
  BY <1>1, CommandMoves
<1>3. \A a \in Approvers : ApprovalSafe(a)'
  BY <1>1, ApprovalsKept DEF IInv
<1>4. TypeInv'
  BY <1>2 DEF IInv, TypeInv
<1>5. TokensSaved' /\ ReportsLast'
  BY DEF IInv, TokensSaved, ReportsLast
<1> QED
  BY <1>2, <1>3, <1>4, <1>5 DEF IInv

LEMMA StartSafe == ASSUME IInv, NEW p \in Processes, Start(p) PROVE IInv'
<1>1. /\ UNCHANGED <<devices, approval, call, file, settled, faults>> /\ cli[p].pc = "off"
      /\ TypeInv
  BY DEF Start, At, IInv
<1>2. CASE \E c \in NewCode :
             /\ "login" \in Programs[p]
             /\ challenges' = [challenges EXCEPT ![c].state = "open"]
             /\ cli' = [cli EXCEPT ![p] = [Off EXCEPT !.does = "login", !.pc = "waiting", !.code = c, !.asks = "report"]]
  <2>1. PICK c \in NewCode :
          /\ challenges' = [challenges EXCEPT ![c].state = "open"]
          /\ cli' = [cli EXCEPT ![p] = [Off EXCEPT !.does = "login", !.pc = "waiting", !.code = c, !.asks = "report"]]
    BY <1>2
  <2> DEFINE new == [Off EXCEPT !.does = "login", !.pc = "waiting", !.code = c, !.asks = "report"]
  <2>2. c \in Codes
    BY DEF NewCode
  <2>3. /\ new \in CommandRow /\ new.pc = "waiting" /\ new.asks \in Requests
        /\ new.code \in Codes /\ new.grant \notin Devices
    BY <2>2, Numbers DEF Off, CommandRow, Commands, Requests
  <2>4. challenges' \in [Codes -> ChallengeRow] /\ \A d \in Codes : challenges'[d].grant = challenges[d].grant
    BY <1>1, <2>1, <2>2 DEF TypeInv, ChallengeRow
  <2>5. PublishedWork'
    BY <1>1, <2>4 DEF IInv, PublishedWork, GrantsPublished, Works
  <2> QED
    BY <1>1, <2>1, <2>3, <2>4, <2>5, QuietCommand DEF TypeInv
<1>3. CASE \E does \in Programs[p] \ {"login"} :
             /\ file # NoDevice
             /\ cli' = [cli EXCEPT ![p] = [Off EXCEPT !.does = does, !.pc = "run", !.grant = file, !.asks = First(does)]]
             /\ UNCHANGED challenges
  <2>1. PICK does \in Programs[p] \ {"login"} :
          /\ file # NoDevice
          /\ cli' = [cli EXCEPT ![p] = [Off EXCEPT !.does = does, !.pc = "run", !.grant = file, !.asks = First(does)]]
          /\ UNCHANGED challenges
    BY <1>3
  <2> DEFINE new == [Off EXCEPT !.does = does, !.pc = "run", !.grant = file, !.asks = First(does)]
  <2>2. does \in Commands /\ First(does) \in Requests /\ file \in Devices
    BY <1>1, <2>1, ProgramsAssumption DEF First, Requests, TypeInv
  <2>3. new \in CommandRow /\ new.pc = "run" /\ new.asks \in Requests /\ new.grant = file
    BY <2>2 DEF Off, CommandRow
  <2>4. PublishedWork' /\ Works(file)
    BY <1>1, <2>1, <2>2 DEF IInv, PublishedWork, GrantsPublished, Works
  <2> QED
    BY <1>1, <2>1, <2>2, <2>3, <2>4, QuietCommand DEF TypeInv
<1> QED
  BY <1>2, <1>3 DEF Start

LEMMA PollSafe == ASSUME IInv, NEW p \in Processes, Poll(p) PROVE IInv'
<1>1. /\ UNCHANGED <<challenges, devices, approval, call, settled, faults>> /\ cli[p].pc = "waiting"
      /\ TypeInv /\ cli[p] \in CommandRow /\ CommandSafe(p)
  BY DEF Poll, At, IInv, TypeInv
<1>2. cli[p].code \in Codes /\ cli[p].asks \in Requests
  BY <1>1 DEF CommandSafe
<1>3. CASE /\ Gone(cli[p].code)
           /\ cli' = [cli EXCEPT ![p] = Off]
           /\ UNCHANGED file
  <2>1. Off \in CommandRow /\ Off.pc = "off" /\ Off.grant \notin Devices
    BY Numbers DEF Off, CommandRow
  <2>2. PublishedWork'
    BY <1>1, <1>3, PublishedKept, SameGrown DEF IInv
  <2> QED
    BY <1>1, <1>3, <2>1, <2>2, QuietCommand DEF TypeInv
<1>4. CASE /\ Approved(cli[p].code)
           /\ cli' = [cli EXCEPT ![p].pc = "saving", ![p].grant = challenges[cli[p].code].grant]
           /\ file' = NoDevice
  <2> DEFINE grant == challenges[cli[p].code].grant
             new == [cli[p] EXCEPT !.pc = "saving", !.grant = grant]
  <2>1. grant \in Devices /\ Works(grant)
    BY <1>1, <1>2, <1>4 DEF Approved, TypeInv, ChallengeRow, IInv, PublishedWork, GrantsPublished
  <2>2. new \in CommandRow /\ new.pc = "saving" /\ new.asks \in Requests /\ new.grant = grant
    BY <1>1, <1>2, <2>1 DEF CommandRow
  <2>3. cli' = [cli EXCEPT ![p] = new]
    BY <1>1, <1>4 DEF TypeInv
  <2>4. PublishedWork' /\ file' \in {NoDevice} \cup Devices
    BY <1>1, <1>4, Numbers DEF IInv, PublishedWork, GrantsPublished, Works
  <2> HIDE DEF new
  <2> QED
    BY <1>1, <2>1, <2>2, <2>3, <2>4, QuietCommand DEF TypeInv
<1> QED
  BY <1>3, <1>4 DEF Poll

LEMMA SaveSafe == ASSUME IInv, NEW p \in Processes, Save(p) PROVE IInv'
<1>1. /\ UNCHANGED <<challenges, devices, approval, call, settled, faults>> /\ cli[p].pc = "saving"
      /\ TypeInv /\ cli[p] \in CommandRow /\ CommandSafe(p)
      /\ file' = cli[p].grant
      /\ cli' = [cli EXCEPT ![p].pc = "run", ![p].code = NoCode]
  BY DEF Save, At, IInv, TypeInv
<1>2. cli[p].grant \in Devices /\ Works(cli[p].grant) /\ cli[p].asks \in Requests
  BY <1>1 DEF CommandSafe
<1> DEFINE new == [cli[p] EXCEPT !.pc = "run", !.code = NoCode]
<1>3. new \in CommandRow /\ new.pc = "run" /\ new.asks \in Requests /\ new.grant = cli[p].grant
  BY <1>1, <1>2 DEF CommandRow
<1>4. cli' = [cli EXCEPT ![p] = new]
  BY <1>1 DEF TypeInv
<1>5. PublishedWork' /\ file' \in {NoDevice} \cup Devices
  BY <1>1, <1>2 DEF IInv, PublishedWork, GrantsPublished, Works
<1> HIDE DEF new
<1> QED
  BY <1>1, <1>2, <1>3, <1>4, <1>5, QuietCommand DEF TypeInv

LEMMA SignedOutSafe == ASSUME IInv, NEW p \in Processes, SignedOut(p) PROVE IInv'
<1>1. Off \in CommandRow /\ Off.pc = "off" /\ Off.grant \notin Devices
  BY Numbers DEF Off, CommandRow
<1>2. PublishedWork'
  BY PublishedKept, SameGrown DEF IInv, SignedOut
<1> QED
  BY <1>1, <1>2, QuietCommand DEF SignedOut, At, IInv, TypeInv

LEMMA ClearSafe == ASSUME IInv, NEW p \in Processes, ClearCredentials(p) PROVE IInv'
<1>1. /\ UNCHANGED <<challenges, devices, approval, call, settled, faults>> /\ cli[p].pc = "clearing"
      /\ TypeInv /\ cli[p] \in CommandRow /\ CommandSafe(p) /\ file' = NoDevice
  BY DEF ClearCredentials, At, IInv, TypeInv
<1> DEFINE next == Follows(cli[p].does, cli[p].asks, "rejected")
           new == IF cli[p].asks = "logout" \/ next = "end" THEN Off ELSE [cli[p] EXCEPT !.pc = "run", !.asks = next]
<1>2. cli' = [cli EXCEPT ![p] = new]
  BY <1>1 DEF ClearCredentials, Onward, TypeInv
<1>3. cli[p].grant \in Devices /\ Works(cli[p].grant)
  BY <1>1 DEF CommandSafe
<1>4. next = "end" \/ next \in Requests
  BY SMT DEF Follows, Requests
<1> HIDE DEF next
<1>5. /\ new \in CommandRow /\ new.pc \in {"off", "run"}
      /\ new.pc # "off" => new.asks \in Requests /\ new.grant \in Devices
      /\ new.grant \in Devices => Works(new.grant)
  <2>1. CASE cli[p].asks = "logout" \/ next = "end"
    BY <2>1, Numbers DEF Off, CommandRow
  <2>2. CASE ~(cli[p].asks = "logout" \/ next = "end")
    BY <1>1, <1>3, <1>4, <2>2 DEF CommandRow
  <2> QED
    BY <2>1, <2>2
<1>6. PublishedWork' /\ file' \in {NoDevice} \cup Devices
  BY <1>1, Numbers DEF IInv, PublishedWork, GrantsPublished, Works
<1> HIDE DEF new
<1> QED
  BY <1>1, <1>2, <1>5, <1>6, QuietCommand DEF TypeInv

-----------------------------------------------------------------------------
(* Steps of commands and handlers together.                                *)

\* The rest of the invariant when only commands and calls change.
LEMMA CallsOnly ==
    ASSUME IInv, UNCHANGED <<challenges, devices, approval, file, settled>>, faults' \in 0..MaxFaults,
           cli' \in [Processes -> CommandRow], call' \in [Handlers -> CallRow],
           \A q \in Processes : CommandSafe(q)', \A h \in Handlers : CallSafe(h)' /\ CarriesOver(h)',
           AnswersOnce'
    PROVE  IInv'
<1>1. Grown
  BY SameGrown
<1>2. \A a \in Approvers : ApprovalSafe(a)'
  BY <1>1, ApprovalsKept DEF IInv
<1>3. PublishedWork'
  BY <1>1, PublishedKept DEF IInv
<1>4. TypeInv'
  BY DEF IInv, TypeInv
<1>5. TokensSaved' /\ ReportsLast'
  BY DEF IInv, TokensSaved, ReportsLast
<1> QED
  BY <1>2, <1>3, <1>4, <1>5 DEF IInv

LEMMA FaultCounted == ASSUME TypeInv, Fault PROVE faults' \in 0..MaxFaults
BY DeviceLoginAssumption, SMT DEF TypeInv, Fault

\* A command that is told an answer at once.
LEMMA ToldSafe ==
    ASSUME IInv, NEW p \in Processes, NEW answer, cli[p].pc = "run", Told(p, answer),
           UNCHANGED <<challenges, devices, approval, call, file, settled>>, faults' \in 0..MaxFaults
    PROVE  IInv'
<1> DEFINE new == Heard(p, answer)
<1>1. /\ new \in CommandRow /\ new.pc \in {"off", "run", "clearing"}
      /\ new.pc # "off" => new.asks \in Requests /\ new.grant \in Devices
      /\ new.grant \in Devices => Works(new.grant)
  BY HeardSafe
<1>2. cli' = [cli EXCEPT ![p] = new]
  BY DEF Told
<1>3. PublishedWork'
  BY PublishedKept, SameGrown DEF IInv
<1> HIDE DEF new
<1> QED
  BY <1>1, <1>2, <1>3, QuietCommand DEF IInv, TypeInv

LEMMA AskSafe == ASSUME IInv, NEW p \in Processes, Ask(p) PROVE IInv'
<1> DEFINE k == cli[p].grant
           asks == cli[p].asks
           served(h) == [pc |-> IF asks = "logout" THEN "revoke" ELSE "read",
                         kind |-> asks, device |-> k, can |-> {}, by |-> p]
<1>1. /\ cli[p].pc = "run" /\ UNCHANGED <<challenges, devices, approval, file, settled>>
      /\ TypeInv /\ cli[p] \in CommandRow /\ CommandSafe(p)
  BY DEF Ask, At, IInv, TypeInv
<1>2. k \in Devices /\ Works(k) /\ asks \in Requests
  BY <1>1 DEF CommandSafe
<1>3. CASE Told(p, "rejected") /\ UNCHANGED <<call, faults>>
  BY <1>1, <1>3, ToldSafe DEF TypeInv
<1>4. CASE Told(p, "ok") /\ UNCHANGED <<call, faults>>
  BY <1>1, <1>4, ToldSafe DEF TypeInv
<1>5. ASSUME NEW answer \in {"rejected", "failed"}, Fault, Told(p, answer), UNCHANGED call PROVE IInv'
  BY <1>1, <1>5, ToldSafe, FaultCounted
<1>6. ASSUME asks \notin Reads, NEW h \in Handlers, call[h].pc = "free",
             call' = [call EXCEPT ![h] = served(h)], cli' = [cli EXCEPT ![p].pc = "asking"], UNCHANGED faults
      PROVE  IInv'
  <2>1. /\ cli \in [Processes -> CommandRow] /\ call \in [Handlers -> CallRow]
        /\ \A q \in Processes : CommandSafe(q)
        /\ \A i \in Handlers : CallSafe(i) /\ CarriesOver(i)
    BY <1>1 DEF IInv, TypeInv
  <2>2. served(h) \in CallRow /\ asks \in {"report", "heartbeat", "logout"}
    BY <1>2, <1>6 DEF CallRow, Requests, Reads
  <2>3. /\ call' \in [Handlers -> CallRow] /\ call'[h] = served(h)
        /\ \A i \in Handlers \ {h} : call'[i] = call[i]
    BY <1>6, <2>1, <2>2
  <2>4. /\ cli' \in [Processes -> CommandRow] /\ cli'[p] = [cli[p] EXCEPT !.pc = "asking"]
        /\ \A q \in Processes \ {p} : cli'[q] = cli[q]
    BY <1>1, <1>6, <2>1 DEF CommandRow
  <2>5. /\ cli'[p].pc = "asking" /\ cli'[p].grant = k /\ cli'[p].asks = asks
    BY <1>1, <2>4 DEF CommandRow
  <2>6. \A i \in Handlers : call[i].by # p
    BY <1>1, <2>1, ProgramsAssumption DEF CallSafe
  <2>7. ASSUME NEW q \in Processes PROVE CommandSafe(q)'
    <3>1. CASE q = p
      BY <1>1, <1>2, <2>3, <2>5, <3>1 DEF CommandSafe, Works
    <3>2. CASE q # p
      <4>1. \A i \in Handlers : call[i].by = q => call'[i].by = q
        BY <1>6, <2>1, <2>3, ProgramsAssumption DEF CallSafe
      <4>2. Grown /\ CommandSafe(q) /\ cli'[q] = cli[q]
        BY <1>1, <2>1, <2>4, <3>2, SameGrown
      <4> QED
        BY <4>1, <4>2, CommandKept
    <3> QED
      BY <3>1, <3>2
  <2>8. ASSUME NEW i \in Handlers PROVE CallSafe(i)' /\ CarriesOver(i)'
    <3>1. CASE i = h
      BY <1>2, <2>2, <2>3, <2>5, <3>1 DEF CallSafe, CarriesOver
    <3>2. CASE i # h
      BY <1>1, <2>1, <2>3, <2>4, <2>6, <3>2, CallKept, SameGrown DEF CallSafe, CarriesOver, CallRow
    <3> QED
      BY <3>1, <3>2
  <2>9. AnswersOnce'
    BY <2>3, <2>6 DEF IInv, AnswersOnce
  <2> QED
    BY <1>1, <1>6, <2>3, <2>4, <2>7, <2>8, <2>9, CallsOnly DEF TypeInv
<1> QED
  BY <1>3, <1>4, <1>5, <1>6 DEF Ask

\* A command that was waiting, or not, stops waiting.
LEMMA LeaveSafe ==
    ASSUME IInv, NEW p \in Processes, NEW new \in CommandRow, cli' = [cli EXCEPT ![p] = new],
           new.pc \in {"off", "run", "clearing"},
           new.pc # "off" => new.asks \in Requests /\ new.grant \in Devices,
           new.grant \in Devices => Works(new.grant),
           call' = [h \in Handlers |-> IF call[h].by = p THEN [call[h] EXCEPT !.by = Nobody] ELSE call[h]],
           UNCHANGED <<challenges, devices, approval, file, settled>>, faults' \in 0..MaxFaults
    PROVE  IInv'
<1>1. /\ cli \in [Processes -> CommandRow] /\ call \in [Handlers -> CallRow]
      /\ \A q \in Processes : CommandSafe(q)
      /\ \A h \in Handlers : CallSafe(h) /\ CarriesOver(h)
  BY DEF IInv, TypeInv
<1>2. cli' \in [Processes -> CommandRow] /\ cli'[p] = new /\ \A q \in Processes \ {p} : cli'[q] = cli[q]
  BY <1>1
<1>3. ASSUME NEW h \in Handlers
      PROVE  /\ call'[h] \in CallRow /\ call'[h].by = IF call[h].by = p THEN Nobody ELSE call[h].by
             /\ call'[h].pc = call[h].pc /\ call'[h].kind = call[h].kind
             /\ call'[h].device = call[h].device /\ call'[h].can = call[h].can
  <2>1. call[h] \in CallRow /\ call'[h] = IF call[h].by = p THEN [call[h] EXCEPT !.by = Nobody] ELSE call[h]
    BY <1>1
  <2> QED
    BY <2>1 DEF CallRow
<1>4. call' \in [Handlers -> CallRow]
  BY <1>3
<1>5. ASSUME NEW q \in Processes PROVE CommandSafe(q)'
  <2>1. CASE q = p
    BY <1>2, <2>1 DEF CommandSafe, Works
  <2>2. CASE q # p
    <3>1. \A h \in Handlers : call[h].by = q => call'[h].by = q
      BY <1>3, <2>2
    <3>2. Grown /\ CommandSafe(q) /\ cli'[q] = cli[q]
      BY <1>1, <1>2, <2>2, SameGrown
    <3> QED
      BY <3>1, <3>2, CommandKept
  <2> QED
    BY <2>1, <2>2
<1>6. ASSUME NEW h \in Handlers PROVE CallSafe(h)' /\ CarriesOver(h)'
  <2>1. call[h].by \in Processes \cup {Nobody} /\ CallSafe(h) /\ CarriesOver(h)
    BY <1>1 DEF CallRow
  <2>2. CallSafe(h)'
    BY <1>2, <1>3, <2>1 DEF CallSafe
  <2>3. CarriesOver(h)'
    BY <1>3, <2>1 DEF CarriesOver
  <2> QED
    BY <2>2, <2>3
<1>7. AnswersOnce'
  BY <1>3 DEF IInv, AnswersOnce
<1> QED
  BY <1>2, <1>4, <1>5, <1>6, <1>7, CallsOnly

LEMMA GiveUpSafe == ASSUME IInv, NEW p \in Processes, GiveUp(p) PROVE IInv'
<1>1. faults' \in 0..MaxFaults
  BY FaultCounted DEF GiveUp, IInv
<1> DEFINE new == Heard(p, "failed")
<1>2. /\ new \in CommandRow /\ new.pc \in {"off", "run", "clearing"}
      /\ new.pc # "off" => new.asks \in Requests /\ new.grant \in Devices
      /\ new.grant \in Devices => Works(new.grant)
  BY HeardSafe DEF GiveUp, At
<1>3. cli' = [cli EXCEPT ![p] = new]
  BY DEF GiveUp, Told
<1> HIDE DEF new
<1> QED
  BY <1>1, <1>2, <1>3, LeaveSafe DEF GiveUp

LEMMA QuitSafe == ASSUME IInv, NEW p \in Processes, Quit(p) PROVE IInv'
<1>1. faults' \in 0..MaxFaults
  BY FaultCounted DEF Quit, IInv
<1>2. Off \in CommandRow /\ Off.pc = "off" /\ Off.grant \notin Devices
  BY Numbers DEF Off, CommandRow
<1> QED
  BY <1>1, <1>2, LeaveSafe DEF Quit

-----------------------------------------------------------------------------
(* Steps of handlers.                                                      *)

\* A handler that answers leaves commands and the other handlers safe.
LEMMA AnswerSafe ==
    ASSUME IInv, Grown, NEW h \in Handlers, Answered(h)
    PROVE  /\ cli' \in [Processes -> CommandRow] /\ call' \in [Handlers -> CallRow]
           /\ \A q \in Processes : CommandSafe(q)'
           /\ \A i \in Handlers : CallSafe(i)'
           /\ AnswersOnce'
           /\ call'[h] = Free /\ \A i \in Handlers \ {h} : call'[i] = call[i]
<1>1. /\ cli \in [Processes -> CommandRow] /\ call \in [Handlers -> CallRow]
      /\ \A q \in Processes : CommandSafe(q)
      /\ \A i \in Handlers : CallSafe(i)
  BY DEF IInv, TypeInv
<1>2. Free \in CallRow
  BY DEF Free, CallRow
<1>3. /\ call' \in [Handlers -> CallRow] /\ call'[h] = Free
      /\ \A i \in Handlers \ {h} : call'[i] = call[i]
  BY <1>1, <1>2 DEF Answered
<1>4. ASSUME NEW q \in Processes
      PROVE  cli'[q] \in CommandRow /\ CommandSafe(q)'
  <2>1. cli'[q] = IF q = call[h].by THEN Heard(q, "ok") ELSE cli[q]
    BY DEF Answered
  <2>2. CASE q = call[h].by
    <3>1. cli[q].pc = "asking"
      BY <1>1, <2>2, ProgramsAssumption DEF CallSafe
    <3>2. /\ Heard(q, "ok") \in CommandRow
          /\ Heard(q, "ok").pc \in {"off", "run", "clearing"}
          /\ Heard(q, "ok").pc # "off" => Heard(q, "ok").asks \in Requests /\ Heard(q, "ok").grant \in Devices
          /\ Heard(q, "ok").grant \in Devices => Works(Heard(q, "ok").grant)
      BY <3>1, HeardSafe
    <3>3. cli'[q] = Heard(q, "ok")
      BY <2>1, <2>2
    <3> QED
      BY <3>2, <3>3 DEF CommandSafe, Grown, Works
  <2>3. CASE q # call[h].by
    <3>1. \A i \in Handlers : call[i].by = q => call'[i].by = q
      BY <1>3, <2>3
    <3>2. cli'[q] = cli[q] /\ CommandSafe(q) /\ cli[q] \in CommandRow
      BY <1>1, <2>1, <2>3
    <3> QED
      BY <3>1, <3>2, CommandKept
  <2> QED
    BY <2>2, <2>3
<1>5. cli' \in [Processes -> CommandRow]
  BY <1>4 DEF Answered
<1>6. ASSUME NEW i \in Handlers PROVE CallSafe(i)'
  <2>1. CASE i = h
    BY <1>3, <2>1 DEF CallSafe, Free
  <2>2. CASE i # h
    <3>1. call[i].by # Nobody => cli'[call[i].by].pc = "asking"
      <4>1. ASSUME call[i].by # Nobody
            PROVE  call[i].by \in Processes /\ call[i].by # call[h].by /\ cli[call[i].by].pc = "asking"
        BY <1>1, <2>2, <4>1 DEF CallSafe, CallRow, IInv, AnswersOnce
      <4> QED
        BY <4>1 DEF Answered
    <3> QED
      BY <1>1, <1>3, <2>2, <3>1, CallKept
  <2> QED
    BY <2>1, <2>2
<1>7. AnswersOnce'
  BY <1>3 DEF IInv, AnswersOnce, Free
<1> QED
  BY <1>3, <1>4, <1>5, <1>6, <1>7

\* A handler goes on without an answer.
LEMMA HandlerMoves ==
    ASSUME IInv, Grown, NEW h \in Handlers, NEW row \in CallRow, call' = [call EXCEPT ![h] = row], cli' = cli,
           row.by = call[h].by, call[h].pc # "free", row.pc # "free", row.device = call[h].device,
           row.pc \in {"read", "write"} => row.kind \in {"report", "heartbeat"},
           row.pc = "delete" => devices'[row.device].revoked
    PROVE  /\ call' \in [Handlers -> CallRow]
           /\ \A q \in Processes : CommandSafe(q)'
           /\ \A i \in Handlers : CallSafe(i)'
           /\ AnswersOnce'
           /\ call'[h] = row /\ \A i \in Handlers \ {h} : call'[i] = call[i]
<1>1. /\ call \in [Handlers -> CallRow]
      /\ \A q \in Processes : CommandSafe(q)
      /\ \A i \in Handlers : CallSafe(i)
  BY DEF IInv, TypeInv
<1>2. /\ call' \in [Handlers -> CallRow] /\ call'[h] = row
      /\ \A i \in Handlers \ {h} : call'[i] = call[i]
  BY <1>1
<1>3. ASSUME NEW q \in Processes PROVE CommandSafe(q)'
  BY <1>1, <1>2, CommandKept
<1>4. ASSUME NEW i \in Handlers PROVE CallSafe(i)'
  <2>1. CASE i = h
    BY <1>1, <1>2, <2>1 DEF CallSafe
  <2>2. CASE i # h
    BY <1>1, <1>2, <2>2, CallKept DEF CallSafe
  <2> QED
    BY <2>1, <2>2
<1>5. AnswersOnce'
  BY <1>2 DEF IInv, AnswersOnce
<1> QED
  BY <1>2, <1>3, <1>4, <1>5

LEMMA ReadSafe == ASSUME IInv, NEW h \in Handlers, Read(h) PROVE IInv'
<1> DEFINE k == call[h].device
           kept == devices[k].can \cap Keeps(call[h].kind)
           row == [call[h] EXCEPT !.pc = "write", !.can = kept]
<1>1. /\ call[h] \in CallRow /\ call[h].pc = "read" /\ call \in [Handlers -> CallRow] /\ TypeInv
      /\ UNCHANGED <<challenges, devices, approval, cli, file, settled, faults>>
      /\ CallSafe(h)
  BY DEF Read, IInv, TypeInv
<1>2. k \in Devices /\ call[h].kind \in {"report", "heartbeat"}
  BY <1>1 DEF CallSafe
<1>3. kept \in SUBSET Capabilities
  BY <1>1, <1>2 DEF TypeInv, DeviceRow
<1>4. call' = [call EXCEPT ![h] = row]
  BY <1>1 DEF Read
<1> HIDE DEF kept
<1>5. /\ row \in CallRow /\ row.pc = "write" /\ row.can = kept
      /\ row.device = k /\ row.kind = call[h].kind /\ row.by = call[h].by
  BY <1>1, <1>3 DEF CallRow
<1>6. Grown
  BY <1>1, SameGrown
<1> HIDE DEF row
<1>7. /\ call' \in [Handlers -> CallRow]
      /\ \A q \in Processes : CommandSafe(q)'
      /\ \A i \in Handlers : CallSafe(i)'
      /\ AnswersOnce'
      /\ call'[h] = row /\ \A i \in Handlers \ {h} : call'[i] = call[i]
  BY <1>1, <1>2, <1>4, <1>5, <1>6, HandlerMoves
<1>8. call[h].kind = "heartbeat" /\ k \in settled => "installed" \in kept
  BY DEF IInv, ReportsLast, Keeps, kept
<1>9. \A i \in Handlers : CarriesOver(i)'
  BY <1>1, <1>5, <1>7, <1>8 DEF IInv, CarriesOver
<1> QED
  BY <1>1, <1>7, <1>9, CallsOnly DEF TypeInv

LEMMA WriteSafe == ASSUME IInv, NEW h \in Handlers, Write(h) PROVE IInv'
<1> DEFINE k == call[h].device
           kind == call[h].kind
           row == Updated(devices[k], kind, call[h].can)
<1>1. /\ call[h] \in CallRow /\ call[h].pc = "write" /\ TypeInv /\ CallSafe(h) /\ CarriesOver(h)
      /\ UNCHANGED <<challenges, approval, file, faults>> /\ Answered(h)
      /\ devices' = [devices EXCEPT ![k] = row]
      /\ settled' = IF kind = "report" /\ ~HalfDone(k) /\ ~devices[k].revoked THEN settled \cup {k} ELSE settled
  BY DEF Write, IInv, TypeInv
<1>2. k \in Devices /\ kind \in {"report", "heartbeat"} /\ devices[k] \in DeviceRow
  BY <1>1 DEF CallSafe, TypeInv
<1>3. /\ row \in DeviceRow /\ row.saved = devices[k].saved /\ row.token = devices[k].token
      /\ row.revoked = devices[k].revoked
      /\ devices[k].revoked => row.can = devices[k].can
      /\ ~devices[k].revoked => row.can = call[h].can \cup Stores(kind)
  <2>1. call[h].can \cup Stores(kind) \in SUBSET Capabilities
    BY <1>1 DEF CallRow, Stores, Capabilities
  <2> QED
    BY <1>2, <2>1 DEF Updated, DeviceRow
<1> HIDE DEF row
<1>4. devices' \in [Devices -> DeviceRow] /\ devices'[k] = row /\ \A j \in Devices \ {k} : devices'[j] = devices[j]
  BY <1>1, <1>2, <1>3 DEF TypeInv
<1>5. Grown
  BY <1>3, <1>4 DEF Grown, Works
<1>6. /\ cli' \in [Processes -> CommandRow] /\ call' \in [Handlers -> CallRow]
      /\ \A q \in Processes : CommandSafe(q)'
      /\ \A i \in Handlers : CallSafe(i)'
      /\ AnswersOnce'
      /\ call'[h] = Free /\ \A i \in Handlers \ {h} : call'[i] = call[i]
  BY <1>1, <1>5, AnswerSafe
<1>7. settled' \subseteq Devices
  BY <1>1, <1>2 DEF TypeInv
<1>8. TypeInv'
  BY <1>1, <1>4, <1>6, <1>7 DEF TypeInv
<1>9. ASSUME NEW i \in Handlers PROVE CarriesOver(i)'
  <2>1. CASE i = h
    BY <1>6, <2>1 DEF CarriesOver, Free
  <2>2. CASE i # h
    <3>1. call'[i] = call[i] /\ CarriesOver(i)
      BY <1>6, <2>2 DEF IInv
    <3>2. call[i].pc = "write" /\ call[i].kind = "heartbeat" /\ call[i].device \in settled'
            => call[i].device \in settled
      BY <1>1 DEF HalfDone
    <3> QED
      BY <3>1, <3>2 DEF CarriesOver
  <2> QED
    BY <2>1, <2>2
<1>10. ReportsLast'
  <2> SUFFICES ASSUME NEW j \in settled' PROVE "installed" \in devices'[j].can
    BY DEF ReportsLast
  <2>1. CASE j # k
    BY <1>1, <1>4, <1>7, <2>1 DEF IInv, ReportsLast
  <2>2. CASE j = k /\ devices[k].revoked
    BY <1>1, <1>3, <1>4, <2>2 DEF IInv, ReportsLast
  <2>3. CASE j = k /\ ~devices[k].revoked
    BY <1>1, <1>2, <1>3, <1>4, <2>3 DEF CarriesOver, Stores
  <2> QED
    BY <2>1, <2>2, <2>3
<1>11. TokensSaved'
  BY <1>3, <1>4 DEF IInv, TokensSaved
<1> QED
  BY <1>1, <1>5, <1>6, <1>8, <1>9, <1>10, <1>11, ApprovalsKept, PublishedKept DEF IInv

LEMMA RevokeDeviceTokenSafe == ASSUME IInv, NEW h \in Handlers, RevokeDeviceToken(h) PROVE IInv'
<1> DEFINE k == call[h].device
           row == [call[h] EXCEPT !.pc = "delete"]
<1>1. /\ call[h] \in CallRow /\ call[h].pc = "revoke" /\ TypeInv /\ CallSafe(h)
      /\ UNCHANGED <<challenges, approval, cli, file, settled, faults>>
      /\ devices' = [devices EXCEPT ![k].revoked = TRUE]
      /\ call' = [call EXCEPT ![h] = row]
  BY DEF RevokeDeviceToken, IInv, TypeInv
<1>2. k \in Devices
  BY <1>1 DEF CallSafe
<1>3. /\ devices' \in [Devices -> DeviceRow] /\ devices'[k].revoked
      /\ \A j \in Devices : /\ devices'[j].saved = devices[j].saved /\ devices'[j].token = devices[j].token
                            /\ devices'[j].can = devices[j].can
                            /\ devices[j].revoked => devices'[j].revoked
  BY <1>1, <1>2 DEF TypeInv, DeviceRow
<1>4. Grown
  BY <1>3 DEF Grown, Works
<1>5. /\ row \in CallRow /\ row.pc = "delete" /\ row.by = call[h].by /\ row.device = k
  BY <1>1 DEF CallRow
<1> HIDE DEF row
<1>6. /\ call' \in [Handlers -> CallRow]
      /\ \A q \in Processes : CommandSafe(q)'
      /\ \A i \in Handlers : CallSafe(i)'
      /\ AnswersOnce'
      /\ call'[h] = row /\ \A i \in Handlers \ {h} : call'[i] = call[i]
  BY <1>1, <1>3, <1>4, <1>5, HandlerMoves
<1>7. \A i \in Handlers : CarriesOver(i)'
  BY <1>1, <1>5, <1>6 DEF IInv, CarriesOver
<1>8. TypeInv'
  BY <1>1, <1>3, <1>6 DEF TypeInv
<1>9. TokensSaved' /\ ReportsLast'
  BY <1>1, <1>3 DEF IInv, TypeInv, TokensSaved, ReportsLast
<1> QED
  BY <1>1, <1>4, <1>6, <1>7, <1>8, <1>9, ApprovalsKept, PublishedKept DEF IInv

LEMMA DeleteTokenSafe == ASSUME IInv, NEW h \in Handlers, DeleteToken(h) PROVE IInv'
<1> DEFINE k == call[h].device
<1>1. /\ call[h].pc = "delete" /\ TypeInv /\ CallSafe(h)
      /\ UNCHANGED <<challenges, approval, file, settled, faults>> /\ Answered(h)
      /\ devices' = [devices EXCEPT ![k].token = FALSE]
  BY DEF DeleteToken, IInv, TypeInv
<1>2. k \in Devices /\ devices[k].revoked
  BY <1>1 DEF CallSafe
<1>3. /\ devices' \in [Devices -> DeviceRow]
      /\ \A j \in Devices : /\ devices'[j].saved = devices[j].saved /\ devices'[j].revoked = devices[j].revoked
                            /\ devices'[j].can = devices[j].can
                            /\ j # k => devices'[j].token = devices[j].token
                            /\ devices'[j].token => devices[j].token
  BY <1>1, <1>2 DEF TypeInv, DeviceRow
<1>4. Grown
  BY <1>2, <1>3 DEF Grown, Works
<1>5. /\ cli' \in [Processes -> CommandRow] /\ call' \in [Handlers -> CallRow]
      /\ \A q \in Processes : CommandSafe(q)'
      /\ \A i \in Handlers : CallSafe(i)'
      /\ AnswersOnce'
      /\ call'[h] = Free /\ \A i \in Handlers \ {h} : call'[i] = call[i]
  BY <1>1, <1>4, AnswerSafe
<1>6. \A i \in Handlers : CarriesOver(i)'
  BY <1>1, <1>5 DEF IInv, CarriesOver, Free
<1>7. TypeInv'
  BY <1>1, <1>3, <1>5 DEF TypeInv
<1>8. TokensSaved' /\ ReportsLast'
  BY <1>1, <1>3 DEF IInv, TypeInv, TokensSaved, ReportsLast
<1> QED
  BY <1>1, <1>4, <1>5, <1>6, <1>7, <1>8, ApprovalsKept, PublishedKept DEF IInv

-----------------------------------------------------------------------------
(* Approvals, expiry and removal, which no command and no handler sees.    *)

\* The rest of the invariant when commands, handlers and reports do not change.
LEMMA OutsideSafe ==
    ASSUME IInv, Grown, UNCHANGED <<call, cli, file, settled>>, TypeInv',
           \A k \in Devices : devices'[k].can = devices[k].can /\ (devices'[k].token => devices'[k].saved),
           \A a \in Approvers : ApprovalSafe(a)',
           GrantsPublished'
    PROVE  IInv'
<1>1. \A p \in Processes : CommandSafe(p)'
  BY CommandKept DEF IInv
<1>2. ASSUME NEW h \in Handlers PROVE CallSafe(h)'
  BY CallKept DEF IInv, CallSafe
<1>3. AnswersOnce' /\ \A h \in Handlers : CarriesOver(h)'
  BY DEF IInv, AnswersOnce, CarriesOver
<1>4. PublishedWork'
  BY DEF IInv, PublishedWork, GrantsPublished, Grown, Works
<1>5. TokensSaved' /\ ReportsLast'
  BY DEF IInv, TypeInv, TokensSaved, ReportsLast
<1> QED
  BY <1>1, <1>2, <1>3, <1>4, <1>5 DEF IInv

LEMMA SaveDeviceSafe == ASSUME IInv, NEW a \in Approvers, SaveDevice(a) PROVE IInv'
<1>1. PICK c \in Codes, k \in NewDevice :
        /\ devices' = [devices EXCEPT ![k].saved = TRUE]
        /\ approval' = [approval EXCEPT ![a] = [pc |-> "token", code |-> c, device |-> k]]
        /\ UNCHANGED <<challenges, call, cli, file, settled, faults>>
  BY DEF SaveDevice
<1>2. k \in Devices /\ TypeInv
  BY DEF NewDevice, IInv
<1>3. /\ devices' \in [Devices -> DeviceRow] /\ devices'[k].saved
      /\ \A j \in Devices : /\ devices'[j].token = devices[j].token /\ devices'[j].revoked = devices[j].revoked
                            /\ devices'[j].can = devices[j].can
                            /\ devices[j].saved => devices'[j].saved
  BY <1>1, <1>2 DEF TypeInv, DeviceRow
<1>4. Grown
  BY <1>3 DEF Grown, Works
<1>5. /\ approval' \in [Approvers -> ApprovalRow]
      /\ approval'[a] = [pc |-> "token", code |-> c, device |-> k]
      /\ \A b \in Approvers \ {a} : approval'[b] = approval[b]
  BY <1>1, <1>2 DEF TypeInv, ApprovalRow
<1>6. ASSUME NEW b \in Approvers PROVE ApprovalSafe(b)'
  BY <1>2, <1>3, <1>4, <1>5 DEF IInv, ApprovalSafe, Grown, Works
<1>7. TypeInv'
  BY <1>1, <1>2, <1>3, <1>5 DEF TypeInv
<1>8. GrantsPublished'
  BY <1>1, <1>4 DEF IInv, PublishedWork, GrantsPublished, Grown, Works
<1>9. \A j \in Devices : devices'[j].can = devices[j].can /\ (devices'[j].token => devices'[j].saved)
  BY <1>3 DEF IInv, TokensSaved
<1> QED
  BY <1>1, <1>4, <1>6, <1>7, <1>8, <1>9, OutsideSafe

LEMMA SaveDeviceTokenSafe == ASSUME IInv, NEW a \in Approvers, SaveDeviceToken(a) PROVE IInv'
<1> DEFINE k == approval[a].device
<1>1. /\ approval[a].pc = "token" /\ approval[a] \in ApprovalRow /\ TypeInv /\ ApprovalSafe(a)
      /\ devices' = [devices EXCEPT ![k].token = TRUE]
      /\ approval' = [approval EXCEPT ![a].pc = "approve"]
      /\ UNCHANGED <<challenges, call, cli, file, settled, faults>>
  BY DEF SaveDeviceToken, IInv, TypeInv
<1>2. k \in Devices /\ devices[k].saved /\ approval[a].code \in Codes
  BY <1>1 DEF ApprovalSafe
<1>3. /\ devices' \in [Devices -> DeviceRow] /\ devices'[k].token
      /\ \A j \in Devices : /\ devices'[j].saved = devices[j].saved /\ devices'[j].revoked = devices[j].revoked
                            /\ devices'[j].can = devices[j].can
                            /\ devices[j].token => devices'[j].token
                            /\ j # k => devices'[j].token = devices[j].token
  BY <1>1, <1>2 DEF TypeInv, DeviceRow
<1>4. Grown
  BY <1>3 DEF Grown, Works
<1>5. /\ approval' \in [Approvers -> ApprovalRow]
      /\ approval'[a].pc = "approve" /\ approval'[a].code = approval[a].code /\ approval'[a].device = k
      /\ \A b \in Approvers \ {a} : approval'[b] = approval[b]
  BY <1>1 DEF TypeInv, ApprovalRow
<1>6. ASSUME NEW b \in Approvers PROVE ApprovalSafe(b)'
  BY <1>2, <1>3, <1>4, <1>5 DEF IInv, ApprovalSafe, Grown, Works
<1>7. TypeInv'
  BY <1>1, <1>3, <1>5 DEF TypeInv
<1>8. GrantsPublished'
  BY <1>1, <1>4 DEF IInv, PublishedWork, GrantsPublished, Grown, Works
<1>9. \A j \in Devices : devices'[j].can = devices[j].can /\ (devices'[j].token => devices'[j].saved)
  BY <1>2, <1>3 DEF IInv, TokensSaved
<1> QED
  BY <1>1, <1>4, <1>6, <1>7, <1>8, <1>9, OutsideSafe

\* The remaining ones leave the devices alone.
LEMMA SameDevices ==
    ASSUME IInv, UNCHANGED <<devices, call, cli, file, settled>>, TypeInv',
           \A a \in Approvers : ApprovalSafe(a)',
           \A c \in Codes : challenges'[c].grant \in Devices => Works(challenges'[c].grant)
    PROVE  IInv'
<1>1. Grown
  BY SameGrown
<1>2. \A k \in Devices : devices'[k].can = devices[k].can /\ (devices'[k].token => devices'[k].saved)
  BY DEF IInv, TokensSaved
<1>3. GrantsPublished'
  BY DEF GrantsPublished, Works
<1> QED
  BY <1>1, <1>2, <1>3, OutsideSafe

LEMMA ApproveChallengeSafe == ASSUME IInv, NEW a \in Approvers, ApproveChallenge(a) PROVE IInv'
<1> DEFINE c == approval[a].code
           grant == IF challenges[c].state = "open" THEN approval[a].device ELSE NoDevice
<1>1. /\ approval[a].pc = "approve" /\ TypeInv /\ ApprovalSafe(a)
      /\ challenges' = [challenges EXCEPT ![c].grant = grant]
      /\ approval' = [approval EXCEPT ![a] = NoApproval]
      /\ UNCHANGED <<devices, call, cli, file, settled, faults>>
  BY DEF ApproveChallenge, IInv
<1>2. /\ c \in Codes /\ grant \in {NoDevice} \cup Devices
      /\ grant \in Devices => Works(grant)
  BY <1>1, Numbers DEF ApprovalSafe
<1> HIDE DEF grant
<1>3. /\ challenges' \in [Codes -> ChallengeRow] /\ challenges'[c].grant = grant
      /\ \A d \in Codes \ {c} : challenges'[d].grant = challenges[d].grant
  BY <1>1, <1>2 DEF TypeInv, ChallengeRow
<1>4. /\ approval' \in [Approvers -> ApprovalRow] /\ approval'[a] = NoApproval
      /\ \A b \in Approvers \ {a} : approval'[b] = approval[b]
  BY <1>1 DEF TypeInv, ApprovalRow, NoApproval
<1>5. ASSUME NEW b \in Approvers PROVE ApprovalSafe(b)'
  BY <1>1, <1>4 DEF IInv, ApprovalSafe, NoApproval, Works
<1>6. TypeInv'
  BY <1>1, <1>3, <1>4 DEF TypeInv
<1>7. \A d \in Codes : challenges'[d].grant \in Devices => Works(challenges'[d].grant)
  BY <1>2, <1>3 DEF IInv, PublishedWork, GrantsPublished
<1> QED
  BY <1>1, <1>5, <1>6, <1>7, SameDevices

LEMMA ApprovalDiesSafe == ASSUME IInv, NEW a \in Approvers, ApprovalDies(a) PROVE IInv'
<1>1. /\ TypeInv /\ Fault /\ approval' = [approval EXCEPT ![a] = NoApproval]
      /\ UNCHANGED <<challenges, devices, call, cli, file, settled>>
  BY DEF ApprovalDies, IInv
<1>2. /\ approval' \in [Approvers -> ApprovalRow] /\ approval'[a] = NoApproval
      /\ \A b \in Approvers \ {a} : approval'[b] = approval[b]
  BY <1>1 DEF TypeInv, ApprovalRow, NoApproval
<1>3. ASSUME NEW b \in Approvers PROVE ApprovalSafe(b)'
  BY <1>1, <1>2 DEF IInv, ApprovalSafe, NoApproval, Works
<1>4. TypeInv'
  BY <1>1, <1>2, FaultCounted DEF TypeInv
<1>5. \A c \in Codes : challenges'[c].grant \in Devices => Works(challenges'[c].grant)
  BY <1>1 DEF IInv, PublishedWork, GrantsPublished
<1> QED
  BY <1>1, <1>3, <1>4, <1>5, SameDevices

LEMMA ExpireSafe == ASSUME IInv, NEW c \in Codes, Expire(c) PROVE IInv'
<1>1. /\ TypeInv /\ challenges' = [challenges EXCEPT ![c] = [state |-> "expired", grant |-> NoDevice]]
      /\ UNCHANGED <<devices, approval, call, cli, file, settled, faults>>
  BY DEF Expire, IInv
<1>2. /\ challenges' \in [Codes -> ChallengeRow] /\ challenges'[c].grant = NoDevice
      /\ \A d \in Codes \ {c} : challenges'[d] = challenges[d]
  BY <1>1 DEF TypeInv, ChallengeRow
<1>3. \A a \in Approvers : ApprovalSafe(a)'
  BY <1>1, ApprovalsKept, SameGrown DEF IInv
<1>4. TypeInv'
  BY <1>1, <1>2 DEF TypeInv
<1>5. \A d \in Codes : challenges'[d].grant \in Devices => Works(challenges'[d].grant)
  BY <1>1, <1>2, Numbers DEF IInv, PublishedWork, GrantsPublished
<1> QED
  BY <1>1, <1>3, <1>4, <1>5, SameDevices

LEMMA RevokeDeviceSafe == ASSUME IInv, NEW k \in Devices, RevokeDevice(k) PROVE IInv'
<1>1. /\ TypeInv /\ devices' = [devices EXCEPT ![k].revoked = TRUE]
      /\ UNCHANGED <<challenges, approval, call, cli, file, settled, faults>>
  BY DEF RevokeDevice, IInv
<1>2. /\ devices' \in [Devices -> DeviceRow]
      /\ \A j \in Devices : /\ devices'[j].saved = devices[j].saved /\ devices'[j].token = devices[j].token
                            /\ devices'[j].can = devices[j].can
                            /\ devices[j].revoked => devices'[j].revoked
  BY <1>1 DEF TypeInv, DeviceRow
<1>3. Grown
  BY <1>2 DEF Grown, Works
<1>4. \A a \in Approvers : ApprovalSafe(a)'
  BY <1>1, <1>3, ApprovalsKept DEF IInv
<1>5. TypeInv'
  BY <1>1, <1>2 DEF TypeInv
<1>6. GrantsPublished'
  BY <1>1, <1>3 DEF IInv, PublishedWork, GrantsPublished, Grown, Works
<1>7. \A j \in Devices : devices'[j].can = devices[j].can /\ (devices'[j].token => devices'[j].saved)
  BY <1>2 DEF IInv, TokensSaved
<1> QED
  BY <1>1, <1>3, <1>4, <1>5, <1>6, <1>7, OutsideSafe

-----------------------------------------------------------------------------
LEMMA NextInv == IInv /\ [Next]_vars => IInv'
<1> SUFFICES ASSUME IInv, [Next]_vars PROVE IInv'
  OBVIOUS
<1>1. ASSUME NEW p \in Processes, Start(p) \/ CommandStep(p) \/ GiveUp(p) \/ Quit(p) PROVE IInv'
  BY <1>1, StartSafe, PollSafe, SaveSafe, AskSafe, SignedOutSafe, ClearSafe, GiveUpSafe, QuitSafe DEF CommandStep
<1>2. ASSUME NEW h \in Handlers, HandlerStep(h) PROVE IInv'
  BY <1>2, ReadSafe, WriteSafe, RevokeDeviceTokenSafe, DeleteTokenSafe DEF HandlerStep
<1>3. ASSUME NEW a \in Approvers, SaveDevice(a) \/ SaveDeviceToken(a) \/ ApproveChallenge(a) \/ ApprovalDies(a)
      PROVE  IInv'
  BY <1>3, SaveDeviceSafe, SaveDeviceTokenSafe, ApproveChallengeSafe, ApprovalDiesSafe
<1>4. CASE UNCHANGED vars
  <2>1. TypeInv' /\ \A a \in Approvers : ApprovalSafe(a)'
    BY <1>4, ApprovalsKept, SameGrown DEF vars, IInv, TypeInv
  <2>2. \A c \in Codes : challenges'[c].grant \in Devices => Works(challenges'[c].grant)
    BY <1>4 DEF vars, IInv, PublishedWork, GrantsPublished
  <2> QED
    BY <1>4, <2>1, <2>2, SameDevices DEF vars
<1> QED
  BY <1>1, <1>2, <1>3, <1>4, ExpireSafe, RevokeDeviceSafe DEF Next

LEMMA Invariance == Spec => []IInv
BY InitInv, NextInv, PTL DEF Spec

LEMMA TypesFollow == IInv => TypeOK
<1> SUFFICES ASSUME IInv PROVE TypeOK
  OBVIOUS
<1> USE DEF IInv, TypeInv
<1>1. \A c \in Codes : challenges[c].state \in {"none", "open", "expired"} /\ challenges[c].grant \in {NoDevice} \cup Devices
  BY DEF ChallengeRow
<1>2. \A k \in Devices : devices[k].can \subseteq Capabilities /\ (devices[k].token => devices[k].saved)
  BY DEF DeviceRow, TokensSaved
<1>3. \A p \in Processes :
        /\ cli[p].pc \in {"off", "waiting", "saving", "run", "asking", "clearing"}
        /\ cli[p].pc \notin {"off", "waiting"} => cli[p].grant \in Devices /\ cli[p].asks \in Requests
        /\ At(p, "asking") => \E h \in Handlers : call[h].by = p
  BY DEF CommandRow, CommandSafe, At
<1> QED
  BY <1>1, <1>2, <1>3 DEF TypeOK, AnswersOnce

LEMMA GrantsFollow == IInv => GrantsWork
<1> SUFFICES ASSUME IInv, NEW k \in Devices,
                    \/ file = k
                    \/ \E c \in Codes : challenges[c].grant = k
                    \/ \E p \in Processes : cli[p].grant = k
             PROVE  devices[k].saved /\ (Valid(k) \/ devices[k].revoked)
  BY DEF GrantsWork
<1>1. Works(k)
  BY DEF IInv, PublishedWork, GrantsPublished, CommandSafe
<1>2. devices[k] \in DeviceRow
  BY DEF IInv, TypeInv
<1> QED
  BY <1>1, <1>2 DEF Works, Valid, DeviceRow

\* Challenges, devices, requests and commands keep their types, a token is a
\* registered device's, and at most one handler answers a command.
THEOREM TypeCorrect == Spec => []TypeOK
BY Invariance, TypesFollow, PTL

\* Credentials that a login was given open the workspace until the device is
\* revoked, however many approvals of a challenge run at once and wherever one
\* of them dies (api/devices.rs:163-182).
THEOREM CredentialsWork == Spec => []GrantsWork
BY Invariance, GrantsFollow, PTL

\* An installation report that met no heartbeat half done is never lost to
\* heartbeats, however many are served at once and whoever stopped waiting.
THEOREM ReportsKept == Spec => []ReportsLast
<1>1. IInv => ReportsLast
  BY DEF IInv
<1> QED
  BY <1>1, Invariance, PTL
================================================================================
