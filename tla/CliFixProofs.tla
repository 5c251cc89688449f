---------------------------- MODULE CliFixProofs ----------------------------
(***************************************************************************)
(* What holds of the configuration files for any runs of mailent fix, any  *)
(* initial files and edits, and any crashes and failures between the steps.*)
(***************************************************************************)
EXTENDS CliFix, SequenceTheorems, WellFoundedInduction, TLAPS

-----------------------------------------------------------------------------
(* What the line editors make of a file.                                   *)

LEMMA MinOf ==
  ASSUME NEW T, T \subseteq Nat, T # {}
  PROVE  Min(T) \in T /\ \A y \in T : Min(T) <= y
<1> DEFINE R == OpToRel(<, Nat)
<1>1. \A x, y \in Nat : <<y, x>> \in R <=> y < x
  BY DEF OpToRel
<1>2. IsWellFoundedOn(R, Nat)
  BY NatLessThanWellFounded
<1> HIDE DEF R
<1>3. PICK x \in T : \A y \in T : ~ (<<y, x>> \in R)
  BY <1>2, WFMin
<1>a. x \in Nat /\ \A y \in T : y \in Nat /\ ~ (y < x)
  BY <1>1, <1>3, Zenon
<1>4. \A y \in T : x <= y
  BY <1>a
<1> QED
  BY <1>4 DEF Min

LEMMA ContinuedRange ==
  ASSUME NEW s \in Services, NEW ls, Len(ls) \in Nat, NEW i \in 1 .. Len(ls)
  PROVE  Continued(s, ls, i) \in i .. Len(ls)
<1> DEFINE flush == {j \in (i + 1) .. Len(ls) : ~ls[j].indent}
<1>1. flush # {} => Min(flush) \in (i + 1) .. Len(ls)
  <2>1. flush \subseteq Nat
    OBVIOUS
  <2> QED
    BY <2>1, MinOf
<1> QED
  BY <1>1 DEF Continued, Services

LEMMA FirstOf ==
  ASSUME NEW n \in Nat, NEW I, I \subseteq 1 .. n
  PROVE  (IF I # {} THEN Min(I) ELSE 0) \in 0 .. n
<1>1. I \subseteq Nat
  OBVIOUS
<1>2. I # {} => Min(I) \in 1 .. n
  BY <1>1, MinOf
<1>3. CASE I = {}
  BY <1>3
<1>4. CASE I # {}
  BY <1>2, <1>4
<1> QED
  BY <1>3, <1>4

LEMMA Short ==
  ASSUME NEW S
  PROVE  <<>> \in Seq(S) /\ \A a, b \in S : <<a>> \in Seq(S) /\ <<a, b>> \in Seq(S)
OBVIOUS

ParamRow == [key : STRING, value : Seq(STRING)]

\* Lines of a set stay in it, where what the editor writes is in it as well.
Editable(S) == /\ \A param \in ParamRow : Setting(param.key, param.value) \in S
               /\ Comment \in S /\ Blank \in S

LEMMA UpdateParamLines ==
  ASSUME NEW S, Editable(S), NEW s \in Services, NEW acc, acc.lines \in Seq(S),
         NEW param \in ParamRow
  PROVE  UpdateParam(s, acc, param).lines \in Seq(S)
<1> DEFINE ls    == acc.lines
           i     == SelectInSeq(ls, LAMBDA l : Assigns(l, param.key))
           stale == i = 0 \/ Value(s, ls, i) # param.value
           line  == Setting(param.key, param.value)
           gap   == IF ls # <<>> /\ Last(ls).kind # "blank" THEN <<Blank>> ELSE <<>>
           kept  == <<IF stale THEN line ELSE ls[i]>>
           rest  == SubSeq(ls, Continued(s, ls, i) + 1, Len(ls))
<1>1. UpdateParam(s, acc, param).lines =
        IF i = 0 THEN ls \o gap \o <<Comment, line>>
                 ELSE SubSeq(ls, 1, i - 1) \o kept \o rest
  BY DEF UpdateParam
<1>2. ls \in Seq(S) /\ Len(ls) \in Nat /\ \A j \in 1 .. Len(ls) : ls[j] \in S
  BY ElementOfSeq
<1>3. i \in 0 .. Len(ls)
  <2> DEFINE I == {j \in 1 .. Len(ls) : Assigns(ls[j], param.key)}
  <2>1. i = IF I # {} THEN Min(I) ELSE 0
    BY DEF SelectInSeq
  <2>2. I \subseteq 1 .. Len(ls)
    OBVIOUS
  <2> HIDE DEF I, i
  <2> QED
    BY <1>2, <2>1, <2>2, FirstOf
<1>4. line \in S /\ Comment \in S /\ Blank \in S
  BY DEF Editable
<1> HIDE DEF ls, i, stale, line
<1>5. gap \in Seq(S) /\ <<Comment, line>> \in Seq(S)
  BY <1>4
<1>6. CASE i = 0
  BY <1>1, <1>2, <1>5, <1>6, ConcatProperties
<1>7. CASE i # 0
  <2>1. i \in 1 .. Len(ls)
    BY <1>2, <1>3, <1>7
  <2>2. Continued(s, ls, i) \in i .. Len(ls)
    BY <1>2, <2>1, ContinuedRange
  <2>3. SubSeq(ls, 1, i - 1) \in Seq(S)
    BY <1>2, <2>1, SubSeqProperties
  <2>4. rest \in Seq(S)
    BY <1>2, <2>1, <2>2, SubSeqProperties
  <2>5. kept \in Seq(S)
    BY <1>2, <1>4, <2>1
  <2> QED
    BY <1>1, <1>7, <2>3, <2>4, <2>5, ConcatProperties
<1> QED
  BY <1>6, <1>7

LEMMA UpdateParamChanges ==
  ASSUME NEW s, NEW acc, acc.changes \in Seq(ParamRow), NEW param \in ParamRow
  PROVE  /\ UpdateParam(s, acc, param).changes \in Seq(ParamRow)
         /\ Len(UpdateParam(s, acc, param).changes) <= Len(acc.changes) + 1
<1>1. \/ UpdateParam(s, acc, param).changes = acc.changes
      \/ UpdateParam(s, acc, param).changes = Append(acc.changes, param)
  BY DEF UpdateParam
<1>2. Len(acc.changes) \in Nat
  BY LenProperties
<1>3. /\ Append(acc.changes, param) \in Seq(ParamRow)
      /\ Len(Append(acc.changes, param)) = Len(acc.changes) + 1
  BY AppendProperties
<1>4. CASE UpdateParam(s, acc, param).changes = acc.changes
  BY <1>2, <1>4
<1>5. CASE UpdateParam(s, acc, param).changes = Append(acc.changes, param)
  BY <1>2, <1>3, <1>5
<1> QED
  BY <1>1, <1>4, <1>5

\* A change has two parameters at most, so the recursion is two steps long.
Untouched(ls)          == [lines |-> ls, changes |-> <<>>]
Once(s, ls, params)    == UpdateParam(s, Untouched(ls), params[1])
Twice(s, ls, params)   == UpdateParam(s, Once(s, ls, params), params[2])

LEMMA UpdateParamsUnrolled ==
  ASSUME NEW s, NEW ls, NEW params, Len(params) \in 0 .. 2
  PROVE  /\ Len(params) = 0 => UpdateParams(s, ls, params) = Untouched(ls)
         /\ Len(params) = 1 => UpdateParams(s, ls, params) = Once(s, ls, params)
         /\ Len(params) = 2 => UpdateParams(s, ls, params) = Twice(s, ls, params)
<1> DEFINE none == Untouched(ls)
           one  == Once(s, ls, params)
           two  == Twice(s, ls, params)
           Unroll(f) == [n \in 0 .. Len(params) |->
                           IF n = 0 THEN none ELSE UpdateParam(s, f[n - 1], params[n])]
           after == CHOOSE f : f = Unroll(f)
<1>1. UpdateParams(s, ls, params) = after[Len(params)]
  BY DEF UpdateParams, Untouched
<1>a. one = UpdateParam(s, none, params[1]) /\ two = UpdateParam(s, one, params[2])
  BY DEF Once, Twice
<1> HIDE DEF none, one, two
<1>2. \E f : f = Unroll(f)
  <2> DEFINE g == [n \in 0 .. Len(params) |-> IF n = 0 THEN none ELSE IF n = 1 THEN one ELSE two]
  <2>1. ASSUME NEW n \in 0 .. Len(params), n # 0
        PROVE  (IF n = 1 THEN one ELSE two) = UpdateParam(s, g[n - 1], params[n])
    <3>0. n = 1 \/ n = 2
      <4>1. \A m \in 0 .. 2 : \A k \in 0 .. m : k # 0 => k = 1 \/ k = 2
        OBVIOUS
      <4> QED
        BY <2>1, <4>1, Zenon
    <3> HIDE DEF g
    <3>1. CASE n = 1
      <4>1. g[n - 1] = none
        BY <3>1 DEF g
      <4> QED
        BY <1>a, <3>1, <4>1
    <3>2. CASE n = 2
      <4>1. g[n - 1] = one
        BY <2>1, <3>2 DEF g
      <4> QED
        BY <1>a, <3>2, <4>1
    <3> QED
      BY <3>0, <3>1, <3>2
  <2>a. \A n \in 0 .. Len(params) :
          g[n] = IF n = 0 THEN none ELSE UpdateParam(s, g[n - 1], params[n])
    <3> SUFFICES ASSUME NEW n \in 0 .. Len(params)
                 PROVE  g[n] = IF n = 0 THEN none ELSE UpdateParam(s, g[n - 1], params[n])
      OBVIOUS
    <3>1. g[n] = IF n = 0 THEN none ELSE IF n = 1 THEN one ELSE two
      OBVIOUS
    <3> HIDE DEF g
    <3> QED
      BY <2>1, <3>1
  <2>b. g = [n \in 0 .. Len(params) |-> g[n]]
    OBVIOUS
  <2> HIDE DEF g
  <2>2. g = Unroll(g)
    BY <2>a, <2>b
  <2> QED
    BY <2>2
<1>3. after = Unroll(after)
  BY <1>2
<1> HIDE DEF after
<1>4. after[0] = none
  BY <1>3
<1>5. Len(params) >= 1 => after[1] = one
  BY <1>3, <1>4, <1>a
<1>6. Len(params) >= 2 => after[2] = two
  BY <1>3, <1>5, <1>a
<1>7. /\ Len(params) = 0 => UpdateParams(s, ls, params) = none
      /\ Len(params) = 1 => UpdateParams(s, ls, params) = one
      /\ Len(params) = 2 => UpdateParams(s, ls, params) = two
  <2>1. Len(params) = 0 => UpdateParams(s, ls, params) = none
    BY <1>1, <1>4, Zenon
  <2>2. ASSUME Len(params) = 1 PROVE UpdateParams(s, ls, params) = one
    <3>1. after[1] = one
      BY <1>5, <2>2
    <3> QED
      BY <1>1, <2>2, <3>1, Zenon
  <2>3. ASSUME Len(params) = 2 PROVE UpdateParams(s, ls, params) = two
    <3>1. after[2] = two
      BY <1>6, <2>3
    <3> QED
      BY <1>1, <2>3, <3>1, Zenon
  <2> QED
    BY <2>1, <2>2, <2>3
<1> QED
  BY <1>7 DEF none, one, two

Plans == {changes \in Seq(ParamRow) : Len(changes) <= 2}

LEMMA UpdateParamsResult ==
  ASSUME NEW S, Editable(S), NEW s \in Services, NEW ls \in Seq(S), NEW params \in Plans
  PROVE  /\ UpdateParams(s, ls, params).lines \in Seq(S)
         /\ UpdateParams(s, ls, params).changes \in Plans
<1> DEFINE none == Untouched(ls)
           one  == Once(s, ls, params)
           two  == Twice(s, ls, params)
<1>a. params \in Seq(ParamRow) /\ Len(params) <= 2
  BY DEF Plans
<1>b. Len(params) \in Nat
  BY <1>a, LenProperties
<1>c. \A m \in Nat : m <= 2 => m \in 0 .. 2
  OBVIOUS
<1>1. params \in Seq(ParamRow) /\ Len(params) \in 0 .. 2
  BY <1>a, <1>b, <1>c, Zenon
<1>2. none.lines \in Seq(S) /\ none.changes \in Seq(ParamRow) /\ Len(none.changes) = 0
  BY DEF Untouched
<1>3. ASSUME Len(params) >= 1
      PROVE  one.lines \in Seq(S) /\ one.changes \in Seq(ParamRow) /\ Len(one.changes) <= 1
  <2>1. params[1] \in ParamRow
    BY <1>1, <1>3, ElementOfSeq
  <2> QED
    BY <1>2, <2>1, UpdateParamLines, UpdateParamChanges DEF Once
<1>4. ASSUME Len(params) = 2
      PROVE  two.lines \in Seq(S) /\ two.changes \in Seq(ParamRow) /\ Len(two.changes) <= 2
  <2>1. params[2] \in ParamRow
    BY <1>1, <1>4, ElementOfSeq
  <2>2. one.lines \in Seq(S) /\ one.changes \in Seq(ParamRow) /\ Len(one.changes) <= 1
    BY <1>3, <1>4
  <2>3. Len(one.changes) \in Nat /\ Len(two.changes) \in Nat
    BY <2>1, <2>2, LenProperties, UpdateParamChanges DEF Twice
  <2> QED
    BY <2>1, <2>2, <2>3, UpdateParamLines, UpdateParamChanges DEF Twice
<1>5. Len(params) = 0 \/ Len(params) = 1 \/ Len(params) = 2
  BY <1>1
<1>6. CASE Len(params) = 0
  BY <1>1, <1>2, <1>6, UpdateParamsUnrolled DEF Plans
<1>7. CASE Len(params) = 1
  BY <1>1, <1>3, <1>7, UpdateParamsUnrolled, LenProperties DEF Plans
<1>8. CASE Len(params) = 2
  BY <1>1, <1>4, <1>8, UpdateParamsUnrolled DEF Plans
<1> QED
  BY <1>5, <1>6, <1>7, <1>8

LEMMA LinesEditable == Editable(LineType) /\ Editable(WholeLine)
<1>1. \A key \in STRING, value \in Seq(STRING), kind \in {"set", "comment", "blank"} :
        Line(kind, key, value, FALSE) \in WholeLine
  BY DEF Line, LineType, WholeLine
<1>a. "" \in STRING
  BY WrittenAreStrings, Zenon
<1>2. "" \in STRING /\ <<>> \in Seq(STRING)
  BY <1>a, Short, Zenon
<1>3. Comment \in WholeLine /\ Blank \in WholeLine
  BY <1>1, <1>2, Zenon DEF Comment, Blank
<1>4. ASSUME NEW param \in ParamRow PROVE Setting(param.key, param.value) \in WholeLine
  <2>1. param.key \in STRING /\ param.value \in Seq(STRING)
    BY DEF ParamRow
  <2> QED
    BY <1>1, <2>1 DEF Setting
<1>5. WholeLine \subseteq LineType
  BY DEF WholeLine
<1> QED
  BY <1>3, <1>4, <1>5 DEF Editable

LEMMA ParamsPlanned ==
  ASSUME NEW s, NEW rule, NEW ls
  PROVE  Params(s, rule, ls) \in Plans
<1>1. \A key \in STRING, value \in Seq(STRING) : Param(key, value) \in ParamRow
  BY DEF Param, ParamRow
<1>2. \A a, b \in ParamRow : <<>> \in Plans /\ <<a>> \in Plans /\ <<a, b>> \in Plans
  BY Short DEF Plans
<1>3. <<>> \in Plans
  BY Short DEF Plans
<1>s. /\ {">=TLSv1.2,", "!TLSv1.1", "may", "TLSv1.2"} \subseteq STRING
      /\ {"smtpd_tls_protocols", "smtpd_tls_mandatory_protocols",
          "smtpd_tls_security_level", "ssl_min_protocol"} \subseteq STRING
  BY WrittenAreStrings, Zenon
<1>4. Modern \in Seq(STRING) /\ <<"may">> \in Seq(STRING) /\ <<"TLSv1.2">> \in Seq(STRING)
  BY <1>s, Short, Zenon DEF Modern
<1>5. /\ Param("smtpd_tls_protocols", Modern) \in ParamRow
      /\ Param("smtpd_tls_mandatory_protocols", Modern) \in ParamRow
      /\ Param("smtpd_tls_security_level", <<"may">>) \in ParamRow
      /\ Param("ssl_min_protocol", <<"TLSv1.2">>) \in ParamRow
  BY <1>s, <1>1, <1>4, Zenon
<1> DEFINE a == <<Param("smtpd_tls_protocols", Modern), Param("smtpd_tls_mandatory_protocols", Modern)>>
           b == <<Param("smtpd_tls_security_level", <<"may">>)>>
           c == <<Param("ssl_min_protocol", <<"TLSv1.2">>)>>
<1>6. a \in Plans /\ b \in Plans /\ c \in Plans
  BY <1>2, <1>5, Zenon
<1>7. Params(s, rule, ls) \in {a, b, c, <<>>}
  BY DEF Params, PostfixParams, DovecotParams
<1> HIDE DEF a, b, c
<1> QED
  BY <1>3, <1>6, <1>7

-----------------------------------------------------------------------------
(* What the files and the runs hold.                                       *)

Files     == Seq(LineType)
Places    == Files \cup {Missing}
BackupRow == [path : Services, lines : Files]
Answers   == {"handshake", "alert", "failure", "reset", "nothing"}
Ends      == {"", "failed", "guided", "shown", "cancelled", "rejected", "restored", "done", "crashed"}
Verdicts  == {"", "up", "plain", "silent", "Inconclusive", "StillPresent", "VerifiedFixed"}
RunRow ==
  [pc : Pcs, req : Requests \cup {<<>>}, s : Services, path : Services, changes : Plans,
   backup : Nat, read : Files, new : Files, end : Ends, heard : Seq(Answers),
   verdict : Verdicts, opened : BOOLEAN]

Shape ==
  /\ file \in [Services -> Places] /\ copy \in [Services -> Places]
  /\ running \in [Services -> Places]
  /\ backups \in Seq(BackupRow)
  /\ run \in [Runs -> RunRow]
  /\ faults \in 0 .. MaxFaults

\* A file whose restore was started and may have been left half done.
Cut(s) == \E p \in Runs : run[p].path = s /\ run[p].opened
Clean(s, ls) == ls \in Seq(WholeLine) \/ Cut(s)

\* What a run holds and has yet to write, copy or say.
HoldsFile(r) ==
  /\ r.pc = "idle" => r = Idle
  /\ r.pc \in {"confirm", "backup", "read"} => file[r.path] # Missing
  /\ r.pc \notin {"idle", "confirm", "backup", "ended"} =>
       r.backup \in 1 .. Len(backups) /\ backups[r.backup].path = r.path
  /\ Clean(r.path, r.new)

\* What each verdict says of the answers heard.
Legacies(r) == r.req.rule = "TLS_LEGACY_VERSION"
Accepted(r) == \E i \in 1 .. Len(r.heard) : r.heard[i] = "handshake"
Refused(r)  == Len(r.heard) = 2 /\ \A i \in 1 .. 2 : r.heard[i] \in {"alert", "failure", "reset"}
Final       == {"Inconclusive", "StillPresent", "VerifiedFixed"}
Fits(r) ==
  /\ r.verdict = "StillPresent" => Accepted(r)
  /\ r.verdict = "Inconclusive" => ~Accepted(r)
  /\ r.verdict = "VerifiedFixed" => Refused(r)

HasHeard(r) ==
  /\ r.pc \notin {"challenge", "verdict", "ended"} => r.heard = <<>> /\ r.verdict = ""
  /\ r.pc = "challenge" => Len(r.heard) <= 1 /\ r.verdict = "up"
  /\ r.pc = "verdict" => /\ r.verdict \in {"up", "plain", "silent"}
                         /\ r.verdict = "up" /\ Legacies(r) => Len(r.heard) = 2
                         /\ r.verdict # "up" => r.heard = <<>>
  /\ r.verdict \in Final /\ Legacies(r) => Fits(r)
  /\ Len(r.heard) <= 2

IInv ==
  /\ Shape
  /\ \A s \in Services : file[s] # Missing => Clean(s, file[s])
  /\ \A b \in 1 .. Len(backups) : Clean(backups[b].path, backups[b].lines)
  /\ \A p \in Runs : HoldsFile(run[p]) /\ HasHeard(run[p])

-----------------------------------------------------------------------------
(* Files and lines.                                                        *)

LEMMA WholeFiles ==
  /\ Seq(WholeLine) \subseteq Files
  /\ Missing \notin Files
  /\ Truncated \in Files /\ Truncated # Missing
<1>1. WholeLine \subseteq LineType
  BY DEF WholeLine
<1>2. Seq(WholeLine) \subseteq Files
  BY <1>1, SeqMonotonic DEF Files
<1>3. Missing \notin Files
  <2> SUFFICES ASSUME Missing \in Seq(LineType) PROVE FALSE
    BY DEF Files
  <2>1. Len(Missing) = 1 /\ Missing[1].kind = "missing"
    BY DEF Missing
  <2>2. Missing[1] \in LineType
    BY <2>1, ElementOfSeq
  <2> QED
    BY <2>1, <2>2 DEF LineType
<1>4. Truncated \in Files
  <2>1. "" \in STRING /\ <<>> \in Seq(STRING)
    BY WrittenAreStrings, Short, Zenon
  <2>2. [kind |-> "half", key |-> "", value |-> <<>>, indent |-> FALSE] \in LineType
    BY <2>1 DEF LineType
  <2> QED
    BY <2>2, Short DEF Files, Truncated
<1> QED
  BY <1>2, <1>3, <1>4

-----------------------------------------------------------------------------
(* How a step leaves the other runs and what is written already.           *)

Others(p) == \A q \in Runs \ {p} : run'[q] = run[q]

\* A run that has started keeps its file, and what it opened stays opened.
Onward(p) ==
  run[p].pc # "idle" => run'[p].path = run[p].path /\ (run[p].opened => run'[p].opened)

LEMMA CutStays ==
  ASSUME IInv, NEW p \in Runs, Others(p), Onward(p), NEW s, Cut(s)
  PROVE  Cut(s)'
<1>1. PICK q \in Runs : run[q].path = s /\ run[q].opened
  BY DEF Cut
<1>2. CASE q # p
  BY <1>1, <1>2 DEF Others, Cut
<1>3. CASE q = p
  <2>1. HoldsFile(run[p])
    BY DEF IInv
  <2>a. ~ Idle.opened
    BY DEF Idle
  <2>2. run[p].pc # "idle"
    BY <1>1, <1>3, <2>1, <2>a, Zenon DEF HoldsFile
  <2> QED
    BY <1>1, <1>3, <2>2 DEF Onward, Cut
<1> QED
  BY <1>2, <1>3

\* What a step writes to the files and the backups.
FilesWritten ==
  \A s \in Services : file'[s] = file[s] \/ (file'[s] # Missing /\ Clean(s, file[s])')
BackupsAdded ==
  /\ Len(backups) <= Len(backups)'
  /\ \A b \in 1 .. Len(backups) : backups'[b] = backups[b]
  /\ \A b \in 1 .. Len(backups)' :
       b \in 1 .. Len(backups) \/ Clean(backups[b].path, backups[b].lines)'

LEMMA OtherSafe ==
  ASSUME IInv, Shape', NEW p \in Runs, Others(p), Onward(p), FilesWritten, BackupsAdded,
         NEW q \in Runs, q # p
  PROVE  (HoldsFile(run[q]) /\ HasHeard(run[q]))'
<1>1. HoldsFile(run[q]) /\ HasHeard(run[q]) /\ run'[q] = run[q] /\ run[q] \in RunRow
  BY DEF IInv, Shape, Others
<1>2. run[q].path \in Services /\ run[q].backup \in Nat
  BY <1>1 DEF RunRow
<1>3. run[q].pc \in {"confirm", "backup", "read"} => file'[run[q].path] # Missing
  BY <1>1, <1>2 DEF HoldsFile, FilesWritten
<1>4. run[q].pc \notin {"idle", "confirm", "backup", "ended"} =>
        run[q].backup \in 1 .. Len(backups)' /\ backups'[run[q].backup].path = run[q].path
  <2>1. Len(backups) \in Nat /\ Len(backups)' \in Nat
    BY LenProperties DEF IInv, Shape
  <2> QED
    BY <1>1, <1>2, <2>1 DEF HoldsFile, BackupsAdded
<1>5. Clean(run[q].path, run[q].new)'
  BY <1>1, CutStays DEF HoldsFile, Clean
<1> QED
  BY <1>1, <1>3, <1>4, <1>5 DEF HoldsFile

LEMMA StepKeeps ==
  ASSUME IInv, Shape', NEW p \in Runs, Others(p), Onward(p), FilesWritten, BackupsAdded,
         (HoldsFile(run[p]) /\ HasHeard(run[p]))'
  PROVE  IInv'
<1>1. \A q \in Runs : (HoldsFile(run[q]) /\ HasHeard(run[q]))'
  BY OtherSafe
<1>2. ASSUME NEW s \in Services, file'[s] # Missing PROVE Clean(s, file[s])'
  BY <1>2, CutStays DEF FilesWritten, IInv, Clean
<1>3. ASSUME NEW b \in 1 .. Len(backups)' PROVE Clean(backups[b].path, backups[b].lines)'
  <2>1. CASE b \in 1 .. Len(backups)
    BY <2>1, CutStays DEF BackupsAdded, IInv, Clean
  <2>2. CASE b \notin 1 .. Len(backups)
    BY <1>3, <2>2 DEF BackupsAdded
  <2> QED
    BY <2>1, <2>2
<1> QED
  BY <1>1, <1>2, <1>3 DEF IInv

-----------------------------------------------------------------------------
(* A step that writes no file and makes no backup.                         *)

Keeps(r, x) ==
  /\ x.req = r.req /\ x.s = r.s /\ x.path = r.path /\ x.backup = r.backup
  /\ x.new = r.new /\ x.opened = r.opened
SaysSame(r, x) == x.heard = r.heard /\ x.verdict = r.verdict

LEMMA HeardKept ==
  ASSUME NEW r, NEW x, HasHeard(r), SaysSame(r, x), x.req = r.req,
         \/ x.pc = "ended"
         \/ /\ r.pc \notin {"challenge", "verdict", "ended"}
            /\ x.pc \notin {"challenge", "verdict"}
  PROVE  HasHeard(x)
BY DEF HasHeard, SaysSame, Legacies, Fits, Accepted, Refused

LEMMA RowGoes ==
  ASSUME Shape, NEW p \in Runs, NEW pc \in Pcs, NEW how \in Ends,
         run' = [run EXCEPT ![p].pc = pc, ![p].end = how]
  PROVE  /\ run' \in [Runs -> RunRow] /\ Others(p)
         /\ run'[p].pc = pc /\ Keeps(run[p], run'[p]) /\ SaysSame(run[p], run'[p])
<1> DEFINE x == [run[p] EXCEPT !.pc = pc, !.end = how]
<1>1. run[p] \in RunRow
  BY DEF Shape
<1>2. x \in RunRow
  BY <1>1 DEF RunRow
<1>3. x.pc = pc /\ Keeps(run[p], x) /\ SaysSame(run[p], x)
  BY <1>1 DEF RunRow, Keeps, SaysSame
<1>4. run' = [run EXCEPT ![p] = x]
  OBVIOUS
<1> HIDE DEF x
<1> QED
  BY <1>2, <1>3, <1>4 DEF Shape, Others

LEMMA GotoGoes ==
  ASSUME Shape, NEW p \in Runs, NEW pc \in Pcs, Goto(p, pc)
  PROVE  /\ run' \in [Runs -> RunRow] /\ Others(p)
         /\ run'[p].pc = pc /\ Keeps(run[p], run'[p]) /\ SaysSame(run[p], run'[p])
<1> DEFINE x == [run[p] EXCEPT !.pc = pc]
<1>1. run[p] \in RunRow
  BY DEF Shape
<1>2. x \in RunRow
  BY <1>1 DEF RunRow
<1>3. x.pc = pc /\ Keeps(run[p], x) /\ SaysSame(run[p], x)
  BY <1>1 DEF RunRow, Keeps, SaysSame
<1>4. run' = [run EXCEPT ![p] = x]
  BY DEF Goto
<1> HIDE DEF x
<1> QED
  BY <1>2, <1>3, <1>4 DEF Shape, Others

LEMMA QuietStep ==
  ASSUME IInv, Shape', NEW p \in Runs, Others(p), UNCHANGED <<file, backups>>,
         Keeps(run[p], run'[p]), HasHeard(run'[p]),
         run[p].pc # "idle", run'[p].pc # "idle",
         run'[p].pc \in {"confirm", "backup", "read"} => run[p].pc \in {"confirm", "backup", "read"},
         run'[p].pc \notin {"confirm", "backup", "ended"} => run[p].pc \notin {"confirm", "backup", "ended"}
  PROVE  IInv'
<1>1. Onward(p)
  BY DEF Onward, Keeps
<1>2. FilesWritten /\ BackupsAdded
  <2>1. Len(backups) \in Nat
    BY LenProperties DEF IInv, Shape
  <2> QED
    BY <2>1 DEF FilesWritten, BackupsAdded
<1>3. HoldsFile(run[p])'
  <2>1. HoldsFile(run[p])
    BY DEF IInv
  <2>2. Clean(run[p].path, run[p].new)'
    BY <1>1, <2>1, CutStays DEF HoldsFile, Clean, Keeps
  <2> QED
    BY <2>1, <2>2 DEF HoldsFile, Keeps
<1> QED
  BY <1>1, <1>2, <1>3, StepKeeps

-----------------------------------------------------------------------------
(* Step by step.                                                           *)

LEMMA QuietMoves ==
  ASSUME IInv, NEW p \in Runs,
         \/ Confirm(p) \/ WriteFails(p) \/ ValidateConfig(p) \/ RestoreFails(p) \/ Crash(p)
  PROVE  IInv'
<1>s. Shape /\ HasHeard(run[p]) /\ run[p] \in RunRow /\ faults \in 0 .. MaxFaults
  BY DEF IInv, Shape
<1>f. faults < MaxFaults => faults + 1 \in 0 .. MaxFaults
  BY <1>s, FixAssumption
<1>e. run[p].end \in Ends
  BY <1>s DEF RunRow
<1>1. ASSUME NEW pc \in Pcs, NEW how \in Ends,
             \/ run' = [run EXCEPT ![p].pc = pc, ![p].end = how]
             \/ Goto(p, pc),
             UNCHANGED <<file, copy, running, backups>>,
             faults' = faults \/ (faults < MaxFaults /\ faults' = faults + 1),
             run[p].pc # "idle",
             \/ pc = "ended"
             \/ pc = "backup" /\ run[p].pc = "confirm"
             \/ pc = "restore" /\ run[p].pc \in {"write", "validate"}
             \/ pc = "reload" /\ run[p].pc = "validate"
      PROVE  IInv'
  <2>1. /\ run' \in [Runs -> RunRow] /\ Others(p)
        /\ run'[p].pc = pc /\ Keeps(run[p], run'[p]) /\ SaysSame(run[p], run'[p])
    BY <1>s, <1>1, RowGoes, GotoGoes
  <2>2. Shape'
    BY <1>s, <1>f, <1>1, <2>1 DEF Shape
  <2>3. HasHeard(run'[p])
    BY <1>s, <1>1, <2>1, HeardKept DEF Keeps
  <2> QED
    BY <1>1, <2>1, <2>2, <2>3, QuietStep
<1>2. CASE Confirm(p)
  BY <1>1, <1>2, <1>e DEF Confirm, At, End, Pcs, Ends
<1>3. CASE WriteFails(p)
  BY <1>1, <1>3 DEF WriteFails, At, Pcs, Ends
<1>4. CASE ValidateConfig(p)
  BY <1>1, <1>4, <1>e DEF ValidateConfig, At, Pcs, Ends
<1>5. CASE RestoreFails(p)
  <2>1. (IF run[p].end = "restored" THEN "failed" ELSE run[p].end) \in Ends
    BY <1>e DEF Ends
  <2>2. run' = [run EXCEPT ![p].pc = "ended",
                           ![p].end = IF run[p].end = "restored" THEN "failed" ELSE run[p].end]
    BY <1>5 DEF RestoreFails
  <2> QED
    BY <1>1, <1>5, <2>1, <2>2 DEF RestoreFails, Pcs
<1>6. CASE Crash(p)
  BY <1>1, <1>6 DEF Crash, Pcs, Ends
<1> QED
  BY <1>2, <1>3, <1>4, <1>5, <1>6

LEMMA ContainerMoves ==
  ASSUME IInv, NEW p \in Runs, SyncToContainer(p) \/ ReloadService(p)
  PROVE  IInv'
<1>s. Shape /\ HasHeard(run[p]) /\ run[p] \in RunRow
  BY DEF IInv, Shape
<1>t. run[p].s \in Services /\ run[p].path \in Services
  BY <1>s DEF RunRow
<1>1. PICK pc \in Pcs : /\ Goto(p, pc)
                        /\ \/ pc \in {"validate", "reload"} /\ run[p].pc = "copy"
                           \/ pc \in {"probe", "ended"} /\ run[p].pc = "reload"
  BY DEF SyncToContainer, ReloadService, At, Pcs
<1>2. /\ run' \in [Runs -> RunRow] /\ Others(p)
      /\ run'[p].pc = pc /\ Keeps(run[p], run'[p]) /\ SaysSame(run[p], run'[p])
  BY <1>s, <1>1, GotoGoes
<1>3. copy' \in [Services -> Places] /\ running' \in [Services -> Places]
  BY <1>s, <1>t DEF Shape, SyncToContainer, ReloadService, Loaded
<1>4. UNCHANGED <<file, backups, faults>>
  BY DEF SyncToContainer, ReloadService
<1>5. Shape'
  BY <1>s, <1>2, <1>3, <1>4 DEF Shape
<1>6. HasHeard(run'[p])
  BY <1>s, <1>1, <1>2, HeardKept DEF Keeps
<1> QED
  BY <1>1, <1>2, <1>4, <1>5, <1>6, QuietStep

\* A step of the verification: it hears or says something and touches no file.
LEMMA Verifies ==
  ASSUME IInv, NEW p \in Runs, NEW x \in RunRow, run' = [run EXCEPT ![p] = x],
         UNCHANGED <<file, copy, running, backups, faults>>,
         run[p].pc \in {"probe", "challenge", "verdict"},
         x.pc \in {"challenge", "verdict", "ended"},
         Keeps(run[p], x), HasHeard(x)
  PROVE  IInv'
<1>1. Shape
  BY DEF IInv
<1>2. run' \in [Runs -> RunRow] /\ run'[p] = x /\ Others(p)
  BY <1>1 DEF Shape, Others
<1>3. Shape'
  BY <1>1, <1>2 DEF Shape
<1> QED
  BY <1>2, <1>3, QuietStep

LEMMA ProbeMoves ==
  ASSUME IInv, NEW p \in Runs, PrimaryProbe(p)
  PROVE  IInv'
<1> DEFINE r == run[p]
<1>s. r \in RunRow /\ HasHeard(r) /\ r.pc = "probe"
  BY DEF IInv, Shape, PrimaryProbe, At
<1>1. PICK pc \in {"challenge", "verdict"}, verdict \in {"up", "plain", "silent"} :
        /\ run' = [run EXCEPT ![p].pc = pc, ![p].verdict = verdict]
        /\ pc = "challenge" => verdict = "up"
        /\ pc = "verdict" /\ verdict = "up" => ~Legacies(r)
  <2>1. PICK reached \in BOOLEAN :
          LET up == reached /\ StartTls(r.s, running[r.s])
              ask == up /\ r.req.rule = "TLS_LEGACY_VERSION"
          IN run' = [run EXCEPT ![p].pc = IF ask THEN "challenge" ELSE "verdict",
                                ![p].verdict = IF up THEN "up"
                                               ELSE IF reached THEN "plain" ELSE "silent"]
    BY DEF PrimaryProbe
  <2> DEFINE up == reached /\ StartTls(r.s, running[r.s])
             ask == up /\ r.req.rule = "TLS_LEGACY_VERSION"
             pc == IF ask THEN "challenge" ELSE "verdict"
             verdict == IF up THEN "up" ELSE IF reached THEN "plain" ELSE "silent"
  <2>2. run' = [run EXCEPT ![p].pc = pc, ![p].verdict = verdict]
    BY <2>1
  <2> HIDE DEF up
  <2>3. CASE up
    BY <2>2, <2>3 DEF Legacies
  <2>4. CASE ~up
    BY <2>2, <2>4
  <2> QED
    BY <2>3, <2>4
<1> DEFINE x == [r EXCEPT !.pc = pc, !.verdict = verdict]
<1>2. x \in RunRow
  BY <1>s DEF RunRow, Pcs, Verdicts
<1>3. /\ x.pc = pc /\ x.verdict = verdict /\ x.heard = r.heard /\ x.req = r.req
      /\ Keeps(r, x)
  BY <1>s DEF RunRow, Keeps
<1>4. run' = [run EXCEPT ![p] = x]
  BY <1>1
<1> HIDE DEF x
<1>5. x.heard = <<>>
  BY <1>s, <1>3 DEF HasHeard
<1>6. HasHeard(x)
  <2>1. Len(x.heard) <= 1 /\ Len(x.heard) <= 2
    BY <1>5
  <2>2. x.verdict \notin Final /\ x.verdict \in {"up", "plain", "silent"}
    BY <1>3 DEF Final
  <2>3. x.pc = "challenge" => x.verdict = "up"
    BY <1>1, <1>3
  <2>4. x.pc = "verdict" /\ x.verdict = "up" => ~Legacies(x)
    BY <1>1, <1>3 DEF Legacies
  <2>5. x.pc \in {"challenge", "verdict"}
    BY <1>3
  <2> QED
    BY <1>5, <2>1, <2>2, <2>3, <2>4, <2>5 DEF HasHeard
<1> QED
  BY <1>s, <1>2, <1>3, <1>4, <1>6, Verifies DEF PrimaryProbe

LEMMA ChallengeMoves ==
  ASSUME IInv, NEW p \in Runs, Challenge(p)
  PROVE  IInv'
<1> DEFINE r == run[p]
           pc == IF Len(r.heard) = 1 THEN "verdict" ELSE "challenge"
<1>s. r \in RunRow /\ HasHeard(r) /\ r.pc = "challenge"
  BY DEF IInv, Shape, Challenge, At
<1>1. PICK answer \in Answers :
        run' = [run EXCEPT ![p].heard = Append(@, answer), ![p].pc = pc]
  BY DEF Challenge, Answers
<1>2. r.heard \in Seq(Answers)
  BY <1>s DEF RunRow
<1>3. /\ Append(r.heard, answer) \in Seq(Answers)
      /\ Len(Append(r.heard, answer)) = Len(r.heard) + 1
      /\ Len(r.heard) \in Nat /\ Len(r.heard) <= 1
  BY <1>s, <1>2, AppendProperties, LenProperties DEF HasHeard
<1> DEFINE x == [r EXCEPT !.heard = Append(r.heard, answer), !.pc = pc]
<1>4. x \in RunRow
  <2>1. pc \in Pcs
    BY DEF Pcs
  <2> QED
    BY <1>s, <1>3, <2>1 DEF RunRow
<1>5. /\ x.pc = pc /\ x.verdict = r.verdict /\ x.heard = Append(r.heard, answer)
      /\ x.req = r.req /\ Keeps(r, x)
  BY <1>s DEF RunRow, Keeps
<1>6. run' = [run EXCEPT ![p] = x]
  BY <1>1
<1> HIDE DEF x
<1>7. HasHeard(x)
  <2>1. r.verdict = "up"
    BY <1>s DEF HasHeard
  <2>2. Len(x.heard) <= 2 /\ (pc = "verdict" => Len(x.heard) = 2) /\ (pc = "challenge" => Len(x.heard) <= 1)
    <3>1. Len(x.heard) = Len(r.heard) + 1
      BY <1>3, <1>5
    <3>2. CASE Len(r.heard) = 1
      BY <3>1, <3>2
    <3>3. CASE Len(r.heard) = 0
      BY <3>1, <3>3
    <3>4. Len(r.heard) = 0 \/ Len(r.heard) = 1
      <4>1. \A m \in Nat : m <= 1 => m = 0 \/ m = 1
        OBVIOUS
      <4> QED
        BY <1>3, <4>1, Zenon
    <3> QED
      BY <3>2, <3>3, <3>4
  <2>3. x.verdict = "up" /\ x.verdict \notin Final
    BY <1>5, <2>1 DEF Final
  <2>4. x.pc = pc /\ pc \in {"verdict", "challenge"}
    BY <1>5
  <2> HIDE DEF pc
  <2> QED
    BY <2>2, <2>3, <2>4 DEF HasHeard
<1>8. x.pc \in {"challenge", "verdict"}
  BY <1>5
<1> QED
  BY <1>s, <1>4, <1>5, <1>6, <1>7, <1>8, Verifies DEF Challenge

\* The verdict on the answers of a run that is about to conclude.
LEMMA VerdictFits ==
  ASSUME NEW r \in RunRow, HasHeard(r), r.pc = "verdict", Legacies(r),
         NEW verdict, verdict = VerifyRemediation(r)
  PROVE  /\ verdict = "StillPresent" => Accepted(r)
         /\ verdict = "Inconclusive" => ~Accepted(r)
         /\ verdict = "VerifiedFixed" => Refused(r)
<1> DEFINE outcomes == {Classify(r.heard[i]) : i \in 1 .. Len(r.heard)}
<1>1. verdict = IF r.verdict = "silent" THEN "Inconclusive"
                ELSE IF "Accepted" \in outcomes THEN "StillPresent"
                ELSE IF r.verdict = "up" /\ outcomes = {"Rejected"} THEN "VerifiedFixed"
                ELSE "Inconclusive"
  BY DEF VerifyRemediation, Legacies
<1>2. \A i \in 1 .. Len(r.heard) :
        /\ Classify(r.heard[i]) \in outcomes
        /\ Classify(r.heard[i]) = "Accepted" <=> r.heard[i] = "handshake"
        /\ Classify(r.heard[i]) = "Rejected" => r.heard[i] \in {"alert", "failure", "reset"}
  BY DEF Classify
<1>3. "Accepted" \in outcomes <=> Accepted(r)
  BY <1>2 DEF Accepted
<1>4. r.verdict = "silent" => r.heard = <<>>
  BY DEF HasHeard
<1>5. r.heard = <<>> => ~Accepted(r)
  BY DEF Accepted
<1>6. r.verdict = "up" => Len(r.heard) = 2
  BY DEF HasHeard
<1>7. ASSUME r.verdict = "up", outcomes = {"Rejected"} PROVE Refused(r)
  BY <1>2, <1>6, <1>7 DEF Refused
<1> HIDE DEF outcomes
<1> QED
  BY <1>1, <1>3, <1>4, <1>5, <1>7

LEMMA VerdictMoves ==
  ASSUME IInv, NEW p \in Runs, Conclude(p)
  PROVE  IInv'
<1> DEFINE r == run[p]
           verdict == VerifyRemediation(r)
<1>s. r \in RunRow /\ HasHeard(r) /\ r.pc = "verdict"
  BY DEF IInv, Shape, Conclude, At
<1>1. verdict \in Verdicts
  BY DEF VerifyRemediation, Verdicts
<1> DEFINE x == [r EXCEPT !.pc = "ended", !.end = "done", !.verdict = verdict]
<1> HIDE DEF verdict
<1>2. x \in RunRow
  BY <1>s, <1>1 DEF RunRow, Pcs, Ends
<1>3. /\ x.pc = "ended" /\ x.verdict = verdict /\ x.heard = r.heard /\ x.req = r.req
      /\ Keeps(r, x)
  BY <1>s DEF RunRow, Keeps
<1>4. run' = [run EXCEPT ![p] = x]
  BY DEF Conclude, verdict
<1> HIDE DEF x
<1>5. HasHeard(x)
  <2>1. ASSUME Legacies(r) PROVE Fits(x)
    <3>1. /\ verdict = "StillPresent" => Accepted(r)
          /\ verdict = "Inconclusive" => ~Accepted(r)
          /\ verdict = "VerifiedFixed" => Refused(r)
      BY <1>s, <2>1, VerdictFits DEF verdict
    <3> QED
      BY <1>3, <3>1 DEF Fits, Accepted, Refused
  <2> QED
    BY <1>s, <1>3, <2>1 DEF HasHeard, Legacies
<1> QED
  BY <1>s, <1>2, <1>3, <1>4, <1>5, Verifies DEF Conclude

\* A step that writes a file: the run that does goes on with what it holds.
LEMMA FileStep ==
  ASSUME IInv, NEW p \in Runs, NEW x \in RunRow, run' = [run EXCEPT ![p] = x],
         NEW ls \in Files, file' = [file EXCEPT ![run[p].path] = ls],
         ls \in Seq(WholeLine) \/ Cut(run[p].path)',
         UNCHANGED <<copy, running, backups, faults>>,
         run[p].pc \in {"write", "restore", "fill"},
         x.pc \in {"copy", "fill", "reload", "ended"},
         x.path = run[p].path /\ x.backup = run[p].backup /\ x.new = run[p].new /\ x.req = run[p].req,
         run[p].opened => x.opened,
         SaysSame(run[p], x)
  PROVE  IInv'
<1>1. Shape /\ run[p] \in RunRow /\ HoldsFile(run[p]) /\ HasHeard(run[p])
  BY DEF IInv, Shape
<1>2. run' \in [Runs -> RunRow] /\ run'[p] = x /\ Others(p)
  BY <1>1 DEF Shape, Others
<1>3. ls \in Places /\ ls # Missing
  BY WholeFiles DEF Places
<1>4. run[p].path \in Services
  BY <1>1 DEF RunRow
<1>5. file' \in [Services -> Places]
  BY <1>1, <1>3 DEF Shape
<1>6. Shape'
  BY <1>1, <1>2, <1>5 DEF Shape
<1>7. Onward(p)
  BY <1>2 DEF Onward
<1>8. FilesWritten
  <2>1. file'[run[p].path] = ls
    BY <1>1, <1>4 DEF Shape
  <2>2. \A s \in Services : s # run[p].path => file'[s] = file[s]
    BY <1>1 DEF Shape
  <2> QED
    BY <1>3, <2>1, <2>2 DEF FilesWritten, Clean
<1>9. BackupsAdded
  <2>1. Len(backups) \in Nat
    BY <1>1, LenProperties DEF Shape
  <2> QED
    BY <2>1 DEF BackupsAdded
<1>10. HoldsFile(run[p])'
  <2>1. Clean(run[p].path, run[p].new)'
    BY <1>1, <1>2, <1>7, CutStays DEF HoldsFile, Clean
  <2> QED
    BY <1>1, <1>2, <2>1 DEF HoldsFile
<1>11. HasHeard(x)
  BY <1>1, HeardKept
<1> QED
  BY <1>2, <1>6, <1>7, <1>8, <1>9, <1>10, <1>11, StepKeeps

LEMMA WriteMoves ==
  ASSUME IInv, NEW p \in Runs, AtomicWrite(p)
  PROVE  IInv'
<1> DEFINE r == run[p]
           x == [r EXCEPT !.pc = "copy"]
           ls == r.new
<1>1. r \in RunRow /\ HoldsFile(r) /\ r.pc = "write"
  BY DEF IInv, Shape, AtomicWrite, At
<1>2. x \in RunRow /\ ls \in Files
  BY <1>1 DEF RunRow, Pcs
<1>3. /\ x.pc = "copy" /\ x.path = r.path /\ x.backup = r.backup /\ x.new = r.new
      /\ x.req = r.req /\ x.opened = r.opened /\ SaysSame(r, x)
  BY <1>1 DEF RunRow, SaysSame
<1>4. run' = [run EXCEPT ![p] = x]
  BY DEF AtomicWrite, Goto
<1>5. run'[p] = x /\ Others(p)
  BY <1>4 DEF IInv, Shape, Others
<1> HIDE DEF x
<1>6. Onward(p)
  BY <1>3, <1>5 DEF Onward
<1>7. ls \in Seq(WholeLine) \/ Cut(r.path)
  BY <1>1 DEF HoldsFile, Clean
<1>8. ls \in Seq(WholeLine) \/ Cut(r.path)'
  <2> SUFFICES ASSUME Cut(r.path) PROVE Cut(r.path)'
    BY <1>7
  <2>1. PICK s : s = r.path
    OBVIOUS
  <2>2. Cut(s)'
    BY <1>6, <1>5, <2>1, CutStays
  <2>3. s = r'.path
    BY <1>3, <1>5, <2>1
  <2> QED
    BY <2>2, <2>3 DEF Cut
<1> HIDE DEF ls
<1>9. /\ file' = [file EXCEPT ![r.path] = ls]
      /\ UNCHANGED <<copy, running, backups, faults>>
  BY DEF AtomicWrite, ls
<1> QED
  BY <1>1, <1>2, <1>3, <1>4, <1>8, <1>9, FileStep

LEMMA RestoreMoves ==
  ASSUME IInv, NEW p \in Runs, Restore(p)
  PROVE  IInv'
<1> DEFINE r == run[p]
           x == [r EXCEPT !.pc = "fill", !.opened = TRUE]
<1>1. r \in RunRow /\ r.pc = "restore"
  BY DEF IInv, Shape, Restore, At
<1>2. x \in RunRow
  BY <1>1 DEF RunRow, Pcs
<1>3. /\ x.pc = "fill" /\ x.path = r.path /\ x.backup = r.backup /\ x.new = r.new
      /\ x.req = r.req /\ x.opened /\ SaysSame(r, x)
  BY <1>1 DEF RunRow, SaysSame
<1>4. run' = [run EXCEPT ![p] = x]
  BY DEF Restore
<1>5. run'[p] = x
  BY <1>4 DEF IInv, Shape
<1> HIDE DEF x
<1>6. Cut(r.path)'
  BY <1>3, <1>5 DEF Cut
<1>7. /\ file' = [file EXCEPT ![r.path] = Truncated]
      /\ UNCHANGED <<copy, running, backups, faults>>
  BY DEF Restore
<1> QED
  BY <1>1, <1>2, <1>3, <1>4, <1>6, <1>7, WholeFiles, FileStep

LEMMA FillMoves ==
  ASSUME IInv, NEW p \in Runs, Fill(p)
  PROVE  IInv'
<1> DEFINE r == run[p]
           ls == backups[r.backup].lines
<1>1. r \in RunRow /\ HoldsFile(r) /\ r.pc = "fill"
  BY DEF IInv, Shape, Fill, At
<1>2. PICK pc \in {"ended", "copy", "reload"} : Goto(p, pc)
  BY DEF Fill
<1> DEFINE x == [r EXCEPT !.pc = pc]
<1>3. x \in RunRow
  BY <1>1 DEF RunRow, Pcs
<1>4. /\ x.pc = pc /\ x.path = r.path /\ x.backup = r.backup /\ x.new = r.new
      /\ x.req = r.req /\ x.opened = r.opened /\ SaysSame(r, x)
  BY <1>1 DEF RunRow, SaysSame
<1>5. run' = [run EXCEPT ![p] = x]
  BY <1>2 DEF Goto
<1>6. run'[p] = x /\ Others(p)
  BY <1>5 DEF IInv, Shape, Others
<1> HIDE DEF x
<1>7. Onward(p)
  BY <1>4, <1>6 DEF Onward
<1>8. r.backup \in 1 .. Len(backups) /\ backups[r.backup].path = r.path
  BY <1>1 DEF HoldsFile
<1>9. ls \in Files
  <2>1. backups[r.backup] \in BackupRow
    BY <1>8, ElementOfSeq DEF IInv, Shape
  <2> QED
    BY <2>1 DEF BackupRow
<1>10. ls \in Seq(WholeLine) \/ Cut(r.path)
  BY <1>8 DEF IInv, Clean
<1>11. ls \in Seq(WholeLine) \/ Cut(r.path)'
  <2> SUFFICES ASSUME Cut(r.path) PROVE Cut(r.path)'
    BY <1>10
  <2>1. PICK s : s = r.path
    OBVIOUS
  <2>2. Cut(s)'
    BY <1>6, <1>7, <2>1, CutStays
  <2>3. s = r'.path
    BY <1>4, <1>6, <2>1
  <2> QED
    BY <2>2, <2>3 DEF Cut
<1> HIDE DEF ls
<1>12. /\ file' = [file EXCEPT ![r.path] = ls]
       /\ UNCHANGED <<copy, running, backups, faults>>
  BY DEF Fill, ls
<1> QED
  BY <1>1, <1>3, <1>4, <1>5, <1>9, <1>11, <1>12, FileStep

LEMMA IdleRow == Idle \in RunRow
<1>1. <<>> \in Plans /\ <<>> \in Files /\ <<>> \in Seq(Answers)
  BY Short DEF Plans, Files
<1>2. "idle" \in Pcs /\ "postfix" \in Services /\ "" \in Ends /\ "" \in Verdicts
  BY DEF Pcs, Services, Ends, Verdicts
<1> QED
  BY <1>1, <1>2 DEF Idle, RunRow

\* A run starts with nothing written, heard or said.
Fresh(x) ==
  /\ x.pc \in {"ended", "confirm", "backup", "restore"}
  /\ x.new = <<>> /\ x.heard = <<>> /\ x.verdict = ""
  /\ x.pc \in {"confirm", "backup"} => file[x.path] # Missing
  /\ x.pc = "restore" => x.backup \in 1 .. Len(backups) /\ backups[x.backup].path = x.path

LEMMA FreshHeard ==
  ASSUME NEW x, Fresh(x)
  PROVE  HasHeard(x)
<1>1. x.heard = <<>> /\ x.verdict = "" /\ x.pc \notin {"challenge", "verdict"}
  BY DEF Fresh
<1>2. Len(<<>>) = 0
  OBVIOUS
<1>3. Len(x.heard) = 0
  BY <1>1, <1>2, Zenon
<1>4. Len(x.heard) <= 2
  BY <1>3
<1>5. "" \notin Final
  BY DEF Final
<1> QED
  BY <1>1, <1>4, <1>5, Zenon DEF HasHeard

LEMMA StartStep ==
  ASSUME IInv, NEW p \in Runs, NEW x \in RunRow, run' = [run EXCEPT ![p] = x],
         UNCHANGED <<file, copy, running, backups, faults>>,
         run[p].pc = "idle", Fresh(x)
  PROVE  IInv'
<1>1. Shape
  BY DEF IInv
<1>2. run' \in [Runs -> RunRow] /\ run'[p] = x /\ Others(p)
  BY <1>1 DEF Shape, Others
<1>3. Shape'
  BY <1>1, <1>2 DEF Shape
<1>4. Onward(p)
  BY DEF Onward
<1>5. FilesWritten /\ BackupsAdded
  <2>1. Len(backups) \in Nat
    BY <1>1, LenProperties DEF Shape
  <2> QED
    BY <2>1 DEF FilesWritten, BackupsAdded
<1>6. HasHeard(x)
  BY FreshHeard
<1>7. HoldsFile(run[p])'
  <2>1. x.new \in Seq(WholeLine)
    BY Short, Zenon DEF Fresh
  <2> QED
    BY <1>2, <2>1 DEF HoldsFile, Clean, Fresh
<1> QED
  BY <1>2, <1>3, <1>4, <1>5, <1>6, <1>7, StepKeeps

LEMMA PlanMoves ==
  ASSUME IInv, NEW p \in Runs, Plan(p)
  PROVE  IInv'
<1>0. Shape /\ run[p].pc = "idle"
  BY DEF IInv, Plan, At
<1>1. PICK req \in Requests :
        LET s == Adapter(req)
            path == IF req.path = "default" THEN s ELSE req.path
            params == Params(s, req.rule, file[path])
            ask == [Idle EXCEPT !.req = req, !.s = s, !.path = path]
            ended(how) == [ask EXCEPT !.pc = "ended", !.end = how]
        IN run' = [run EXCEPT ![p] =
            IF file[path] = Missing THEN ended("failed")
            ELSE IF params = <<>> THEN ended("guided")
            ELSE IF req.planOnly THEN ended("shown")
            ELSE [ask EXCEPT !.pc = IF req.yes THEN "backup" ELSE "confirm",
                             !.changes = UpdateParams(s, file[path], params).changes]]
  BY DEF Plan
<1> DEFINE s       == Adapter(req)
           path    == IF req.path = "default" THEN s ELSE req.path
           params  == Params(s, req.rule, file[path])
           changes == UpdateParams(s, file[path], params).changes
           ask     == [Idle EXCEPT !.req = req, !.s = s, !.path = path]
           asked   == [ask EXCEPT !.pc = IF req.yes THEN "backup" ELSE "confirm",
                                  !.changes = changes]
           over(how) == [ask EXCEPT !.pc = "ended", !.end = how]
<1>2. PICK x : /\ run' = [run EXCEPT ![p] = x]
               /\ \/ \E how \in {"failed", "guided", "shown"} : x = over(how)
                  \/ x = asked /\ file[path] # Missing
  BY <1>1
<1>3. s \in Services /\ path \in Services
  BY FixAssumption DEF Adapter, Services
<1> HIDE DEF s, path
<1>4. file[path] # Missing => changes \in Plans
  <2>1. file[path] \in Files \cup {Missing}
    BY <1>0, <1>3 DEF Shape, Places
  <2> QED
    BY <1>3, <2>1, ParamsPlanned, LinesEditable, UpdateParamsResult DEF Files
<1> HIDE DEF changes
<1>5. ask \in RunRow /\ ask.new = <<>> /\ ask.heard = <<>> /\ ask.verdict = "" /\ ask.path = path
  <2>1. Idle.new = <<>> /\ Idle.heard = <<>> /\ Idle.verdict = ""
    BY DEF Idle
  <2> QED
    BY <1>3, <2>1, IdleRow DEF RunRow
<1> HIDE DEF ask
<1>6. CASE x = asked /\ file[path] # Missing
  <2>1. x \in RunRow
    BY <1>4, <1>5, <1>6 DEF RunRow, Pcs
  <2>2. x.new = <<>> /\ x.heard = <<>> /\ x.verdict = "" /\ x.path = path
    BY <1>5, <1>6 DEF RunRow
  <2>3. x.pc \in {"backup", "confirm"}
    BY <1>5, <1>6 DEF RunRow
  <2> HIDE DEF asked
  <2> QED
    BY <1>0, <1>2, <1>6, <2>1, <2>2, <2>3, StartStep DEF Plan, Fresh
<1>7. ASSUME NEW how \in {"failed", "guided", "shown"}, x = over(how) PROVE IInv'
  <2>1. x \in RunRow
    BY <1>5, <1>7 DEF RunRow, Pcs, Ends
  <2>2. x.new = <<>> /\ x.heard = <<>> /\ x.verdict = "" /\ x.pc = "ended"
    BY <1>5, <1>7 DEF RunRow
  <2> HIDE DEF over
  <2> QED
    BY <1>0, <1>2, <2>1, <2>2, StartStep DEF Plan, Fresh
<1> QED
  BY <1>2, <1>6, <1>7

LEMMA RollbackMoves ==
  ASSUME IInv, NEW p \in Runs, ManualRollback(p)
  PROVE  IInv'
<1>1. PICK b \in 1 .. Len(backups) :
        run' = [run EXCEPT ![p] = [Idle EXCEPT !.pc = "restore", !.end = "restored", !.backup = b,
                                               !.s = backups[b].path, !.path = backups[b].path]]
  BY DEF ManualRollback
<1>2. b \in Nat /\ backups[b].path \in Services
  <2>1. backups \in Seq(BackupRow) /\ Len(backups) \in Nat
    BY LenProperties DEF IInv, Shape
  <2>2. backups[b] \in BackupRow
    BY <2>1, ElementOfSeq
  <2> QED
    BY <2>1, <2>2 DEF BackupRow
<1>3. PICK path \in Services : path = backups[b].path
  BY <1>2
<1> DEFINE x == [Idle EXCEPT !.pc = "restore", !.end = "restored", !.backup = b,
                             !.s = path, !.path = path]
<1>4. x \in RunRow
  BY <1>2, IdleRow DEF RunRow, Pcs, Ends
<1>5. /\ x.new = <<>> /\ x.heard = <<>> /\ x.verdict = "" /\ x.pc = "restore"
      /\ x.backup = b /\ x.path = path
  BY DEF Idle
<1>6. run' = [run EXCEPT ![p] = x]
  BY <1>1, <1>3
<1> HIDE DEF x
<1> QED
  BY <1>3, <1>4, <1>5, <1>6, StartStep DEF ManualRollback, At, Fresh

\* What a run that makes its backup or reads its file finds there.
LEMMA FoundFile ==
  ASSUME IInv, NEW p \in Runs, run[p].pc \in {"confirm", "backup", "read"}
  PROVE  /\ file[run[p].path] \in Files /\ file[run[p].path] # Missing
         /\ Clean(run[p].path, file[run[p].path])
<1>1. run[p].path \in Services
  BY DEF IInv, Shape, RunRow
<1>2. file[run[p].path] \in Places
  BY <1>1 DEF IInv, Shape
<1>3. file[run[p].path] # Missing
  BY DEF IInv, HoldsFile
<1> QED
  BY <1>1, <1>2, <1>3 DEF IInv, Places

LEMMA BackupMoves ==
  ASSUME IInv, NEW p \in Runs, CreateBackup(p)
  PROVE  IInv'
<1> DEFINE r == run[p]
<1>0. Len(backups) \in Nat
  BY LenProperties DEF IInv, Shape
<1>n. PICK n \in Nat : n = Len(backups) + 1
  BY <1>0
<1>w. PICK new : new = r.new
  OBVIOUS
<1> DEFINE x == [r EXCEPT !.pc = "read", !.backup = n]
<1>1. r \in RunRow /\ HoldsFile(r) /\ HasHeard(r) /\ r.pc = "backup"
  BY DEF IInv, Shape, CreateBackup, At
<1>2. PICK s \in Services, ls \in Files : s = r.path /\ ls = file[r.path]
  BY <1>1, FoundFile DEF RunRow
<1> DEFINE row == [path |-> s, lines |-> ls]
<1>3. row \in BackupRow /\ row.path = s /\ row.lines = ls
  BY DEF BackupRow
<1>4. backups' = Append(backups, row) /\ UNCHANGED <<file, copy, running, faults>>
  BY <1>2 DEF CreateBackup
<1> HIDE DEF row
<1>5. backups \in Seq(BackupRow) /\ Len(backups) \in Nat
  BY LenProperties DEF IInv, Shape
<1>6. /\ backups' \in Seq(BackupRow) /\ Len(backups') = n
      /\ backups'[n] = row
      /\ \A b \in 1 .. Len(backups) : backups'[b] = backups[b]
  BY <1>3, <1>4, <1>5, <1>n, AppendProperties
<1>8. run' = [run EXCEPT ![p] = x]
  BY <1>6 DEF CreateBackup
<1>9. x \in RunRow
  BY <1>1 DEF RunRow, Pcs
<1>10. /\ x.pc = "read" /\ x.backup = n /\ x.path = r.path /\ x.new = r.new
       /\ x.req = r.req /\ x.opened = r.opened /\ SaysSame(r, x)
  BY <1>1 DEF RunRow, SaysSame
<1> HIDE DEF x
<1>11. run' \in [Runs -> RunRow] /\ run'[p] = x /\ Others(p)
  BY <1>8, <1>9 DEF IInv, Shape, Others
<1>12. Shape'
  BY <1>4, <1>6, <1>11 DEF IInv, Shape
<1>13. Onward(p)
  BY <1>10, <1>11 DEF Onward
<1>14. FilesWritten
  BY <1>4 DEF FilesWritten
<1>15. Clean(s, ls)'
  BY <1>1, <1>2, <1>11, <1>13, FoundFile, CutStays DEF Clean
<1>16. BackupsAdded
  <2>1. \A b \in 1 .. n : b \in 1 .. Len(backups) \/ b = n
    BY <1>5, <1>n
  <2>2. Len(backups) <= n
    BY <1>5, <1>n
  <2>3. Clean(backups[n].path, backups[n].lines)'
    <3>1. backups'[n].path = s /\ backups'[n].lines = ls
      BY <1>3, <1>6
    <3> QED
      BY <1>15, <3>1 DEF Clean
  <2> QED
    BY <1>6, <2>1, <2>2, <2>3 DEF BackupsAdded
<1>17. HoldsFile(run[p])'
  <2>1. Clean(s, new)'
    BY <1>1, <1>2, <1>w, <1>11, <1>13, CutStays DEF HoldsFile, Clean
  <2>2. Clean(run[p].path, run[p].new)'
    BY <1>2, <1>w, <1>10, <1>11, <2>1 DEF Clean
  <2>3. n \in 1 .. Len(backups') /\ backups'[n].path = s
    BY <1>3, <1>5, <1>6, <1>n
  <2>4. file'[s] # Missing
    BY <1>1, <1>2, <1>4, FoundFile
  <2> QED
    BY <1>2, <1>10, <1>11, <2>2, <2>3, <2>4 DEF HoldsFile
<1>18. HasHeard(x)
  BY <1>1, <1>10, HeardKept
<1> QED
  BY <1>11, <1>12, <1>13, <1>14, <1>16, <1>17, <1>18, StepKeeps

LEMMA ReadMoves ==
  ASSUME IInv, NEW p \in Runs, ReadConfig(p)
  PROVE  IInv'
<1> DEFINE r == run[p]
<1>1. r \in RunRow /\ HoldsFile(r) /\ HasHeard(r) /\ r.pc = "read"
  BY DEF IInv, Shape, ReadConfig, At
<1>2. PICK s \in Services, ls \in Files : s = r.path /\ ls = file[r.path]
  BY <1>1, FoundFile DEF RunRow
<1>3. PICK new : new = UpdateParams(r.s, ls, r.changes).lines
  OBVIOUS
<1>4. r.s \in Services /\ r.changes \in Plans
  BY <1>1 DEF RunRow
<1>5. new \in Files /\ (ls \in Seq(WholeLine) => new \in Seq(WholeLine))
  BY <1>3, <1>4, LinesEditable, UpdateParamsResult DEF Files
<1> DEFINE x == [r EXCEPT !.pc = "write", !.read = ls, !.new = new]
<1>6. x \in RunRow
  BY <1>1, <1>5 DEF RunRow, Pcs
<1>7. /\ x.pc = "write" /\ x.backup = r.backup /\ x.path = r.path /\ x.new = new
      /\ x.req = r.req /\ x.opened = r.opened /\ SaysSame(r, x)
  BY <1>1 DEF RunRow, SaysSame
<1>8. run' = [run EXCEPT ![p] = x] /\ UNCHANGED <<file, copy, running, backups, faults>>
  BY <1>2, <1>3 DEF ReadConfig
<1> HIDE DEF x
<1>9. run' \in [Runs -> RunRow] /\ run'[p] = x /\ Others(p)
  BY <1>6, <1>8 DEF IInv, Shape, Others
<1>10. Shape'
  BY <1>8, <1>9 DEF IInv, Shape
<1>11. Onward(p)
  BY <1>7, <1>9 DEF Onward
<1>12. FilesWritten /\ BackupsAdded
  <2>1. Len(backups) \in Nat
    BY LenProperties DEF IInv, Shape
  <2> QED
    BY <1>8, <2>1 DEF FilesWritten, BackupsAdded
<1>13. HoldsFile(run[p])'
  <2>1. new \in Seq(WholeLine) \/ Cut(s)
    BY <1>1, <1>2, <1>5, FoundFile DEF Clean
  <2>2. Clean(s, new)'
    BY <1>9, <1>11, <2>1, CutStays DEF Clean
  <2>3. Clean(run[p].path, run[p].new)'
    BY <1>2, <1>7, <1>9, <2>2 DEF Clean
  <2> QED
    BY <1>1, <1>7, <1>8, <1>9, <2>3 DEF HoldsFile
<1>14. HasHeard(x)
  BY <1>1, <1>7, HeardKept
<1> QED
  BY <1>9, <1>10, <1>11, <1>12, <1>13, <1>14, StepKeeps

LEMMA EditMoves ==
  ASSUME IInv, NEW t \in Services, Edit(t)
  PROVE  IInv'
<1>1. PICK l \in Edits : file' = [file EXCEPT ![t] = Append(file[t], l)]
  BY DEF Edit
<1>2. /\ UNCHANGED <<copy, running, backups, run>>
      /\ faults < MaxFaults /\ faults' = faults + 1 /\ file[t] # Missing
  BY DEF Edit
<1>3. l \in WholeLine /\ l \in LineType
  BY FixAssumption DEF WholeLine
<1>4. file[t] \in Files /\ Clean(t, file[t])
  BY <1>2 DEF IInv, Shape, Places
<1>5. Append(file[t], l) \in Files /\ Clean(t, Append(file[t], l))
  BY <1>3, <1>4, AppendProperties DEF Files, Clean
<1>6. Append(file[t], l) # Missing
  BY <1>5, WholeFiles
<1> DEFINE ls == Append(file[t], l)
<1>a. file'[t] = ls /\ \A s \in Services : s # t => file'[s] = file[s]
  BY <1>1 DEF IInv, Shape
<1>7. Shape'
  <2>1. file' \in [Services -> Places]
    BY <1>1, <1>5 DEF IInv, Shape, Places
  <2>2. faults' \in 0 .. MaxFaults
    BY <1>2, FixAssumption DEF IInv, Shape
  <2> QED
    BY <1>2, <2>1, <2>2 DEF IInv, Shape
<1> HIDE DEF ls
<1>8. \A s : Cut(s)' <=> Cut(s)
  BY <1>2 DEF Cut
<1>9. ASSUME NEW s \in Services, file'[s] # Missing PROVE Clean(s, file[s])'
  <2>1. CASE s = t
    BY <1>5, <1>8, <1>a, <2>1 DEF Clean, ls
  <2>2. CASE s # t
    BY <1>8, <1>9, <1>a, <2>2 DEF IInv, Clean
  <2> QED
    BY <2>1, <2>2
<1>10. ASSUME NEW b \in 1 .. Len(backups)' PROVE Clean(backups[b].path, backups[b].lines)'
  BY <1>2, <1>8 DEF IInv, Clean, Cut
<1>11. ASSUME NEW q \in Runs PROVE HoldsFile(run[q])' /\ HasHeard(run[q])'
  <2>1. HoldsFile(run[q]) /\ HasHeard(run[q]) /\ run[q].path \in Services
    BY DEF IInv, Shape, RunRow
  <2>2. Clean(run[q].path, run[q].new)'
    BY <1>2, <2>1 DEF HoldsFile, Clean, Cut
  <2>3. file[run[q].path] # Missing => file'[run[q].path] # Missing
    BY <1>6, <1>a, <2>1 DEF ls
  <2> QED
    BY <1>2, <2>1, <2>2, <2>3 DEF HoldsFile
<1> QED
  BY <1>7, <1>9, <1>10, <1>11 DEF IInv

-----------------------------------------------------------------------------
(* The invariant, and what it says.                                        *)

LEMMA InitInv == Init => IInv
<1> SUFFICES ASSUME Init PROVE IInv
  OBVIOUS
<1>1. file \in [Services -> Seq(WholeLine) \cup {Missing}]
  BY FixAssumption DEF Init
<1>2. Shape
  <2>1. \A s \in Services : file[s] \in Places
    BY <1>1, WholeFiles DEF Places
  <2>2. file \in [Services -> Places]
    BY <1>1, <2>1
  <2>3. copy \in [Services -> Places] /\ running \in [Services -> Places]
    BY <2>1, <2>2 DEF Init, Places
  <2>4. backups \in Seq(BackupRow)
    BY Short DEF Init
  <2>5. run \in [Runs -> RunRow]
    BY IdleRow DEF Init
  <2>6. faults \in 0 .. MaxFaults
    BY FixAssumption DEF Init
  <2> QED
    BY <2>2, <2>3, <2>4, <2>5, <2>6 DEF Shape
<1>3. \A s \in Services : file[s] # Missing => Clean(s, file[s])
  BY <1>1 DEF Clean
<1>4. \A b \in 1 .. Len(backups) : Clean(backups[b].path, backups[b].lines)
  <2>1. Len(backups) = 0
    BY DEF Init
  <2> QED
    BY <2>1
<1>5. Idle.new = <<>> /\ Idle.heard = <<>> /\ Idle.verdict = "" /\ Idle.pc = "idle"
  BY DEF Idle
<1>6. HoldsFile(Idle)
  <2>1. Idle.new \in Seq(WholeLine)
    BY <1>5, Short, Zenon
  <2> QED
    BY <1>5, <2>1 DEF HoldsFile, Clean
<1>7. HasHeard(Idle)
  <2>1. Len(<<>>) = 0
    OBVIOUS
  <2>2. Len(Idle.heard) = 0
    BY <1>5, <2>1, Zenon
  <2>3. Len(Idle.heard) <= 2
    BY <2>2
  <2>4. "" \notin Final /\ "idle" \notin {"challenge", "verdict"}
    BY DEF Final
  <2> QED
    BY <1>5, <2>3, <2>4, Zenon DEF HasHeard
<1>8. \A p \in Runs : run[p] = Idle
  BY DEF Init
<1> QED
  BY <1>2, <1>3, <1>4, <1>6, <1>7, <1>8 DEF IInv

LEMMA NextInv == IInv /\ [Next]_vars => IInv'
<1> SUFFICES ASSUME IInv, [Next]_vars PROVE IInv'
  OBVIOUS
<1>1. ASSUME NEW p \in Runs, Plan(p) \/ Confirm(p) \/ ManualRollback(p) \/ Step(p) \/ Crash(p)
      PROVE  IInv'
  <2>1. CASE Plan(p)
    BY <2>1, PlanMoves
  <2>2. CASE ManualRollback(p)
    BY <2>2, RollbackMoves
  <2>3. CASE Confirm(p) \/ Crash(p)
    BY <2>3, QuietMoves
  <2>4. CASE Step(p)
    BY <2>4, QuietMoves, ContainerMoves, BackupMoves, ReadMoves, WriteMoves, RestoreMoves,
       FillMoves, ProbeMoves, ChallengeMoves, VerdictMoves DEF Step
  <2> QED
    BY <1>1, <2>1, <2>2, <2>3, <2>4
<1>2. CASE UNCHANGED vars
  BY <1>2 DEF vars, IInv, Shape, Clean, Cut, HoldsFile, HasHeard
<1> QED
  BY <1>1, <1>2, EditMoves DEF Next

LEMMA IInvAlways == Spec => []IInv
<1>1. Init => IInv
  BY InitInv
<1>2. IInv /\ [Next]_vars => IInv'
  BY NextInv
<1> QED
  BY <1>1, <1>2, PTL DEF Spec

\* Whatever runs, editors, crashes and failures do to each other, files hold
\* lines, and a run past its confirmation holds a backup it can restore.
THEOREM TypeCorrect == Spec => []TypeOK
<1>1. IInv => TypeOK
  <2> SUFFICES ASSUME IInv PROVE TypeOK
    OBVIOUS
  <2>1. ASSUME NEW s \in Services, NEW ls \in {file[s], copy[s], running[s]} \ {Missing},
               NEW i \in 1 .. Len(ls)
        PROVE  ls[i] \in LineType
    <3>1. ls \in Seq(LineType)
      BY DEF IInv, Shape, Places, Files
    <3> QED
      BY <3>1, ElementOfSeq
  <2>2. faults \in 0 .. MaxFaults
    BY DEF IInv, Shape
  <2>3. ASSUME NEW p \in Runs
        PROVE  /\ run[p].pc \in Pcs /\ run[p].s \in Services /\ run[p].path \in Services
               /\ run[p].pc \notin {"idle", "confirm", "backup", "ended"}
                    => run[p].backup \in 1 .. Len(backups)
               /\ run[p].end = "" => Len(run[p].heard) <= 2
    <3>1. run[p] \in RunRow /\ HoldsFile(run[p]) /\ HasHeard(run[p])
      BY DEF IInv, Shape
    <3>2. run[p].pc \in Pcs /\ run[p].s \in Services /\ run[p].path \in Services
      BY <3>1 DEF RunRow
    <3> QED
      BY <3>1, <3>2 DEF HoldsFile, HasHeard
  <2> QED
    BY <2>1, <2>2, <2>3 DEF TypeOK
<1> QED
  BY <1>1, IInvAlways, PTL

\* docs/remediation.md:128 (atomic_write, restore_backup): a configuration that
\* is cut short is one a run has opened to restore.
THEOREM NoHalf == Spec => []NoHalfFile
<1>1. IInv => NoHalfFile
  <2> SUFFICES ASSUME IInv, NEW s \in Services, NEW i \in 1 .. Len(file[s]),
                      file[s][i].kind = "half"
               PROVE  Cut(s)
    BY DEF NoHalfFile, Cut
  <2>1. file[s] # Missing
    <3> SUFFICES ASSUME file[s] = Missing PROVE FALSE
      OBVIOUS
    <3>1. Len(Missing) = 1 /\ Missing[1].kind = "missing"
      BY DEF Missing
    <3>2. i = 1
      BY <3>1
    <3> QED
      BY <3>1, <3>2
  <2>2. file[s] \in Seq(WholeLine) => file[s][i] \in WholeLine
    BY ElementOfSeq
  <2> QED
    BY <2>1, <2>2 DEF IInv, Clean, WholeLine
<1> QED
  BY <1>1, IInvAlways, PTL

\* verify_remediation: the verdict on a legacy TLS fix is that of the answers
\* heard, whatever rewrites or reloads the service meanwhile.
THEOREM VerdictsFollow == Spec => []VerdictFollowsAnswers
<1>1. IInv => VerdictFollowsAnswers
  <2> SUFFICES ASSUME IInv, NEW p \in Runs, Legacies(run[p]), run[p].verdict \in Final
               PROVE  /\ run[p].verdict = "StillPresent" => "handshake" \in ToSet(run[p].heard)
                      /\ run[p].verdict = "Inconclusive" => "handshake" \notin ToSet(run[p].heard)
                      /\ run[p].verdict = "VerifiedFixed" =>
                           /\ Len(run[p].heard) = 2
                           /\ ToSet(run[p].heard) \cap {"handshake", "nothing"} = {}
    BY DEF VerdictFollowsAnswers, Legacies, Final
  <2>1. Fits(run[p])
    BY DEF IInv, HasHeard
  <2>2. run[p].heard \in Seq(Answers)
    BY DEF IInv, Shape, RunRow
  <2>3. "handshake" \in ToSet(run[p].heard) <=> Accepted(run[p])
    BY <2>2 DEF ToSet, Accepted
  <2>4. Refused(run[p]) => /\ Len(run[p].heard) = 2
                           /\ ToSet(run[p].heard) \cap {"handshake", "nothing"} = {}
    BY <2>2 DEF ToSet, Refused
  <2> QED
    BY <2>1, <2>3, <2>4 DEF Fits
<1> QED
  BY <1>1, IInvAlways, PTL

-----------------------------------------------------------------------------
(* What a value is: its first line, and those that continue it.            *)

\* Line k is the last of the value that line i begins.
ValueEnds(s, ls, i, k) ==
  /\ k \in i .. Len(ls)
  /\ s = "dovecot" => k = i
  /\ s = "postfix" => /\ \A j \in (i + 1) .. k : ls[j].indent
                      /\ k < Len(ls) => ~ls[k + 1].indent

LEMMA ValueEndsThere ==
  ASSUME NEW s \in Services, NEW ls, Len(ls) \in Nat, NEW i \in 1 .. Len(ls)
  PROVE  ValueEnds(s, ls, i, Continued(s, ls, i))
<1> DEFINE flush == {j \in (i + 1) .. Len(ls) : ~ls[j].indent}
           k == Continued(s, ls, i)
<1>1. k \in i .. Len(ls)
  BY ContinuedRange
<1>2. s = "dovecot" => k = i
  BY DEF Continued
<1>3. ASSUME s = "postfix"
      PROVE  /\ \A j \in (i + 1) .. k : ls[j].indent
             /\ k < Len(ls) => ~ls[k + 1].indent
  <2>1. CASE flush = {}
    <3>1. k = Len(ls)
      BY <1>3, <2>1 DEF Continued
    <3> QED
      BY <2>1, <3>1
  <2>2. CASE flush # {}
    <3>1. k = Min(flush) - 1
      BY <1>3, <2>2 DEF Continued
    <3>2. Min(flush) \in flush /\ \A y \in flush : Min(flush) <= y
      <4>1. flush \subseteq Nat
        OBVIOUS
      <4> QED
        BY <2>2, <4>1, MinOf
    <3> DEFINE m == Min(flush)
    <3>3. m \in (i + 1) .. Len(ls) /\ ~ls[m].indent
      BY <3>2
    <3>4. \A j \in (i + 1) .. Len(ls) : ~ls[j].indent => m <= j
      BY <3>2
    <3> HIDE DEF m, k
    <3>5. k + 1 = m
      BY <3>1, <3>3 DEF m
    <3>6. ASSUME NEW j \in (i + 1) .. k PROVE ls[j].indent
      BY <1>1, <3>3, <3>4, <3>5
    <3> QED
      BY <3>3, <3>5, <3>6
  <2> QED
    BY <2>1, <2>2
<1> QED
  BY <1>1, <1>2, <1>3 DEF ValueEnds

LEMMA ValueEndsOnce ==
  ASSUME NEW s \in Services, NEW ls, Len(ls) \in Nat, NEW i \in 1 .. Len(ls),
         NEW k, ValueEnds(s, ls, i, k)
  PROVE  Continued(s, ls, i) = k
<1> DEFINE c == Continued(s, ls, i)
<1>1. ValueEnds(s, ls, i, c)
  BY ValueEndsThere
<1> HIDE DEF c
<1>2. k \in Nat /\ c \in Nat /\ i <= k /\ i <= c /\ k <= Len(ls) /\ c <= Len(ls)
  BY <1>1 DEF ValueEnds
<1>3. CASE s = "dovecot"
  BY <1>1, <1>3 DEF ValueEnds, c
<1>4. CASE s = "postfix"
  <2>1. ASSUME c < k PROVE FALSE
    <3>1. c + 1 \in (i + 1) .. k /\ c < Len(ls)
      BY <1>2, <2>1
    <3> QED
      BY <1>1, <1>4, <3>1 DEF ValueEnds
  <2>2. ASSUME k < c PROVE FALSE
    <3>1. k + 1 \in (i + 1) .. c /\ k < Len(ls)
      BY <1>2, <2>2
    <3> QED
      BY <1>1, <1>4, <3>1 DEF ValueEnds
  <2> QED
    BY <1>2, <2>1, <2>2 DEF c
<1> QED
  BY <1>3, <1>4 DEF Services

\* The words of the lines from i to k, collected one line after the other.
Collects(ls, i, k, words) ==
  words = [j \in i .. k |-> IF j = i THEN ls[i].value ELSE words[j - 1] \o ls[j].value]

LEMMA CollectExists ==
  ASSUME NEW ls, NEW i \in Nat, NEW k \in Nat, i <= k
  PROVE  \E words : Collects(ls, i, k, words)
<1> DEFINE Bad == {m \in Nat : i <= m /\ m <= k /\ ~ \E words : Collects(ls, i, m, words)}
<1>1. ASSUME Bad # {} PROVE FALSE
  <2> DEFINE m == Min(Bad)
  <2>1. m \in Bad /\ \A y \in Bad : m <= y
    BY <1>1, MinOf
  <2> HIDE DEF m
  <2>2. m \in Nat /\ i <= m /\ m <= k /\ ~ \E words : Collects(ls, i, m, words)
    BY <2>1
  <2>3. CASE m = i
    <3> DEFINE w == [j \in i .. m |-> ls[i].value]
    <3>1. w = [j \in i .. m |-> IF j = i THEN ls[i].value ELSE w[j - 1] \o ls[j].value]
      BY <2>3
    <3>2. Collects(ls, i, m, w)
      BY <3>1 DEF Collects
    <3> QED
      BY <2>2, <3>2
  <2>4. CASE m # i
    <3>1. m - 1 \in Nat /\ i <= m - 1 /\ m - 1 <= k /\ ~ (m <= m - 1)
      BY <2>2, <2>4
    <3>2. m - 1 \notin Bad
      BY <2>1, <3>1
    <3>3. PICK v : Collects(ls, i, m - 1, v)
      BY <3>1, <3>2
    <3> DEFINE w == [j \in i .. m |-> IF j = m THEN v[m - 1] \o ls[m].value ELSE v[j]]
    <3>4. \A j \in i .. (m - 1) : v[j] = IF j = i THEN ls[i].value ELSE v[j - 1] \o ls[j].value
      BY <3>3 DEF Collects
    <3>5. ASSUME NEW j \in i .. m
          PROVE  w[j] = IF j = i THEN ls[i].value ELSE w[j - 1] \o ls[j].value
      <4>1. CASE j = m
        <5>1. m \in i .. m /\ m - 1 \in i .. m /\ m - 1 # m
          BY <2>2, <3>1
        <5>2. w[m] = v[m - 1] \o ls[m].value /\ w[m - 1] = v[m - 1]
          BY <5>1
        <5> QED
          BY <2>4, <4>1, <5>2
      <4>2. CASE j # m
        <5>1. j \in i .. (m - 1)
          BY <2>2, <4>2
        <5>2. w[j] = v[j]
          BY <4>2
        <5>3. j # i => w[j - 1] = v[j - 1]
          BY <2>2, <5>1
        <5> QED
          BY <3>4, <5>1, <5>2, <5>3
      <4> QED
        BY <4>1, <4>2
    <3>6. w = [j \in i .. m |-> w[j]]
      OBVIOUS
    <3> HIDE DEF w
    <3>7. Collects(ls, i, m, w)
      BY <3>5, <3>6 DEF Collects
    <3> QED
      BY <2>2, <3>7
  <2> QED
    BY <2>3, <2>4
<1>2. k \notin Bad
  BY <1>1
<1> QED
  BY <1>2

LEMMA ValueCollected ==
  ASSUME NEW s \in Services, NEW ls, Len(ls) \in Nat, NEW i \in 1 .. Len(ls)
  PROVE  \E words : /\ Collects(ls, i, Continued(s, ls, i), words)
                    /\ Value(s, ls, i) = words[Continued(s, ls, i)]
<1> DEFINE k == Continued(s, ls, i)
           w == CHOOSE words : Collects(ls, i, k, words)
<1>1. Value(s, ls, i) = w[k]
  BY DEF Value, Collects
<1>2. k \in i .. Len(ls)
  BY ContinuedRange
<1> HIDE DEF k
<1>3. \E words : Collects(ls, i, k, words)
  <2>1. i \in Nat /\ k \in Nat /\ i <= k
    BY <1>2
  <2> QED
    BY <2>1, CollectExists
<1>4. Collects(ls, i, k, w)
  BY <1>3
<1> QED
  BY <1>1, <1>4 DEF k

SameLines(ls, i, ms, h, n) == \A j \in 0 .. n : ms[h + j] = ls[i + j]

\* The same lines at another place are the same value.
LEMMA ValueMoved ==
  ASSUME NEW s \in Services,
         NEW ls, Len(ls) \in Nat, NEW i \in 1 .. Len(ls),
         NEW ms, Len(ms) \in Nat, NEW h \in 1 .. Len(ms),
         NEW n \in Nat, Continued(s, ls, i) = i + n, Continued(s, ms, h) = h + n,
         SameLines(ls, i, ms, h, n)
  PROVE  Value(s, ms, h) = Value(s, ls, i)
<1>1. PICK v : Collects(ls, i, i + n, v) /\ Value(s, ls, i) = v[i + n]
  BY ValueCollected
<1>2. PICK w : Collects(ms, h, h + n, w) /\ Value(s, ms, h) = w[h + n]
  BY ValueCollected
<1>3. \A j \in i .. (i + n) : v[j] = IF j = i THEN ls[i].value ELSE v[j - 1] \o ls[j].value
  BY <1>1 DEF Collects
<1>4. \A j \in h .. (h + n) : w[j] = IF j = h THEN ms[h].value ELSE w[j - 1] \o ms[j].value
  BY <1>2 DEF Collects
<1> DEFINE Bad == {j \in Nat : j <= n /\ w[h + j] # v[i + j]}
<1>5. ASSUME Bad # {} PROVE FALSE
  <2> DEFINE m == Min(Bad)
  <2>1. m \in Bad /\ \A y \in Bad : m <= y
    BY <1>5, MinOf
  <2> HIDE DEF m
  <2>2. m \in Nat /\ m <= n /\ w[h + m] # v[i + m]
    BY <2>1
  <2>3. h + m \in h .. (h + n) /\ i + m \in i .. (i + n) /\ m \in 0 .. n
    BY <2>2
  <2>4. ms[h + m] = ls[i + m]
    BY <2>3 DEF SameLines
  <2>5. CASE m = 0
    <3>1. w[h] = ms[h].value /\ v[i] = ls[i].value
      BY <1>3, <1>4, <2>3, <2>5
    <3>2. h + m = h /\ i + m = i
      BY <2>5
    <3> QED
      BY <2>2, <2>4, <3>1, <3>2
  <2>6. CASE m # 0
    <3>1. m - 1 \in Nat /\ m - 1 <= n /\ ~ (m <= m - 1)
      BY <2>2, <2>6
    <3>2. m - 1 \notin Bad
      BY <2>1, <3>1
    <3>3. w[h + (m - 1)] = v[i + (m - 1)]
      BY <3>1, <3>2
    <3>4. h + (m - 1) = (h + m) - 1 /\ i + (m - 1) = (i + m) - 1 /\ h + m # h /\ i + m # i
      BY <2>2, <2>6
    <3>5. w[h + m] = w[(h + m) - 1] \o ms[h + m].value
      BY <1>4, <2>3, <3>4
    <3>6. v[i + m] = v[(i + m) - 1] \o ls[i + m].value
      BY <1>3, <2>3, <3>4
    <3> QED
      BY <2>2, <2>4, <3>3, <3>4, <3>5, <3>6
  <2> QED
    BY <2>5, <2>6
<1>6. w[h + n] = v[i + n]
  <2>1. n \notin Bad
    BY <1>5
  <2> QED
    BY <2>1
<1> QED
  BY <1>1, <1>2, <1>6

LEMMA ValueOfOneLine ==
  ASSUME NEW s \in Services, NEW ls, Len(ls) \in Nat, NEW i \in 1 .. Len(ls),
         Continued(s, ls, i) = i
  PROVE  Value(s, ls, i) = ls[i].value
<1>1. PICK v : Collects(ls, i, i, v) /\ Value(s, ls, i) = v[i]
  BY ValueCollected
<1> QED
  BY <1>1 DEF Collects

-----------------------------------------------------------------------------
(* Where a parameter is named first, and where last.                       *)

IsFirst(ls, key, i) ==
  /\ i \in 1 .. Len(ls) /\ Assigns(ls[i], key)
  /\ \A j \in 1 .. Len(ls) : Assigns(ls[j], key) => i <= j

LEMMA FirstThere ==
  ASSUME NEW ls, Len(ls) \in Nat, NEW key
  PROVE  \/ FirstAt(ls, key) = 0 /\ \A j \in 1 .. Len(ls) : ~Assigns(ls[j], key)
         \/ FirstAt(ls, key) # 0 /\ IsFirst(ls, key, FirstAt(ls, key))
<1> DEFINE I == {j \in 1 .. Len(ls) : Assigns(ls[j], key)}
<1>1. FirstAt(ls, key) = IF I # {} THEN Min(I) ELSE 0
  BY DEF FirstAt, SelectInSeq
<1>2. CASE I = {}
  BY <1>1, <1>2
<1>3. CASE I # {}
  <2>1. I \subseteq Nat
    OBVIOUS
  <2>2. Min(I) \in I /\ \A y \in I : Min(I) <= y
    BY <1>3, <2>1, MinOf
  <2> DEFINE m == Min(I)
  <2>3. FirstAt(ls, key) = m
    BY <1>1, <1>3
  <2>4. m \in 1 .. Len(ls) /\ Assigns(ls[m], key)
    BY <2>2
  <2>5. \A j \in 1 .. Len(ls) : Assigns(ls[j], key) => m <= j
    BY <2>2
  <2> HIDE DEF m
  <2> QED
    BY <2>3, <2>4, <2>5 DEF IsFirst
<1> QED
  BY <1>2, <1>3

LEMMA FirstOnce ==
  ASSUME NEW ls, Len(ls) \in Nat, NEW key, NEW i, IsFirst(ls, key, i)
  PROVE  FirstAt(ls, key) = i
<1>1. i \in 1 .. Len(ls) /\ Assigns(ls[i], key)
  BY DEF IsFirst
<1>2. FirstAt(ls, key) # 0 /\ IsFirst(ls, key, FirstAt(ls, key))
  BY <1>1, FirstThere
<1>3. FirstAt(ls, key) <= i /\ i <= FirstAt(ls, key) /\ FirstAt(ls, key) \in Nat
  BY <1>1, <1>2 DEF IsFirst
<1> QED
  BY <1>1, <1>3

LEMMA FirstNone ==
  ASSUME NEW ls, Len(ls) \in Nat, NEW key, \A j \in 1 .. Len(ls) : ~Assigns(ls[j], key)
  PROVE  FirstAt(ls, key) = 0
BY FirstThere DEF IsFirst

\* What a service takes a parameter from: the last line outside a block.
Outside(ls, key) == {j \in 1 .. Len(ls) : Assigns(ls[j], key) /\ ~ls[j].indent}

LEMMA MaxOf ==
  ASSUME NEW n \in Nat, NEW T, T \subseteq 1 .. n, T # {}
  PROVE  Max(T) \in T /\ \A y \in T : y <= Max(T)
<1> DEFINE U == {n - x : x \in T}
<1>1. U \subseteq Nat /\ U # {}
  <2>1. \A x \in T : n - x \in Nat
    OBVIOUS
  <2>2. \A u \in U : u \in Nat
    BY <2>1
  <2>3. PICK x \in T : TRUE
    OBVIOUS
  <2>4. n - x \in U
    BY <2>3
  <2> HIDE DEF U
  <2> QED
    BY <2>2, <2>4
<1>2. Min(U) \in U /\ \A y \in U : Min(U) <= y
  BY <1>1, MinOf
<1>3. PICK x \in T : Min(U) = n - x
  BY <1>2
<1>4. \A y \in T : y <= x
  <2> SUFFICES ASSUME NEW y \in T PROVE y <= x
    OBVIOUS
  <2>1. n - x <= n - y
    BY <1>2, <1>3
  <2> QED
    BY <2>1
<1>5. \E z \in T : \A y \in T : z >= y
  BY <1>4
<1>6. Max(T) \in T /\ \A y \in T : Max(T) >= y
  BY <1>5 DEF Max
<1> QED
  BY <1>6

LEMMA MaxOnce ==
  ASSUME NEW n \in Nat, NEW T, T \subseteq 1 .. n, NEW x \in T, \A y \in T : y <= x
  PROVE  Max(T) = x
<1>1. Max(T) \in T /\ \A y \in T : y <= Max(T)
  BY MaxOf
<1> DEFINE m == Max(T)
<1>2. m \in T /\ x <= m
  BY <1>1
<1> HIDE DEF m
<1>3. m <= x /\ m \in Nat /\ x \in Nat
  BY <1>2
<1>4. m = x
  BY <1>2, <1>3
<1> QED
  BY <1>4 DEF m

-----------------------------------------------------------------------------
(* One edit: line i is written, the d lines after it go, or lines are      *)
(* added at the end.                                                       *)

\* A line the editor leaves: it names no other parameter and continues nothing.
Written(s, l, key) ==
  /\ s = "postfix" => ~l.indent
  /\ \A k : Assigns(l, k) => k = key

Edited(s, ls, ms, key, i, d) ==
  /\ Len(ls) \in Nat /\ Len(ms) \in Nat /\ i \in 1 .. (Len(ls) + 1) /\ d \in Nat
  /\ i <= Len(ls) => i + d <= Len(ls) /\ Len(ms) = Len(ls) - d
  /\ i = Len(ls) + 1 => d = 0 /\ Len(ls) < Len(ms)
  /\ \A j \in 1 .. (i - 1) : ms[j] = ls[j]
  /\ \A j \in (i + 1) .. (Len(ls) - d) : ms[j] = ls[j + d]
  /\ Written(s, ms[i], key)
  /\ \A j \in (Len(ls) + 1) .. Len(ms) : Written(s, ms[j], key)
  /\ i <= Len(ls) => Assigns(ls[i], key) /\ (s = "postfix" => ~ls[i].indent)
  /\ \A j \in (i + 1) .. (i + d) : s = "postfix" /\ ls[j].indent

\* Where line m of the file is afterwards.
Place(m, i, d) == IF m < i THEN m ELSE m - d

\* A line that is neither written nor removed.
Stays(s, ls, m, i) ==
  m \in 1 .. Len(ls) /\ m # i /\ (s = "postfix" => ~ls[m].indent)

LEMMA StaysWhere ==
  ASSUME NEW s \in Services, NEW ls, NEW ms, NEW key, NEW i, NEW d, Edited(s, ls, ms, key, i, d),
         NEW m, Stays(s, ls, m, i)
  PROVE  /\ m < i \/ m > i + d
         /\ Place(m, i, d) \in 1 .. Len(ms)
         /\ ms[Place(m, i, d)] = ls[m]
         /\ Place(m, i, d) # i
<1>0. /\ Len(ls) \in Nat /\ Len(ms) \in Nat /\ i \in 1 .. (Len(ls) + 1) /\ d \in Nat
      /\ i <= Len(ls) => i + d <= Len(ls) /\ Len(ms) = Len(ls) - d
      /\ i = Len(ls) + 1 => d = 0 /\ Len(ls) < Len(ms)
      /\ m \in 1 .. Len(ls) /\ m # i
  BY DEF Edited, Stays
<1>1. m \notin (i + 1) .. (i + d)
  BY DEF Edited, Stays
<1>2. m < i \/ m > i + d
  BY <1>0, <1>1
<1>3. CASE m < i
  <2>1. m \in 1 .. (i - 1) /\ m \in 1 .. Len(ms)
    BY <1>0, <1>3
  <2> QED
    BY <1>0, <1>2, <1>3, <2>1 DEF Place, Edited
<1>4. CASE m > i + d
  <2>1. m - d \in (i + 1) .. (Len(ls) - d) /\ m - d \in 1 .. Len(ms) /\ ~(m < i)
        /\ (m - d) + d = m /\ m - d # i
    BY <1>0, <1>4
  <2>2. ms[m - d] = ls[(m - d) + d]
    BY <2>1 DEF Edited
  <2> QED
    BY <1>2, <2>1, <2>2 DEF Place
<1> QED
  BY <1>2, <1>3, <1>4

\* Every line afterwards was one of the file, or is written.
LEMMA Comes ==
  ASSUME NEW s \in Services, NEW ls, NEW ms, NEW key, NEW i, NEW d, Edited(s, ls, ms, key, i, d),
         NEW h \in 1 .. Len(ms)
  PROVE  \/ Written(s, ms[h], key)
         \/ \E m \in 1 .. Len(ls) : /\ m # i /\ (m < i \/ m > i + d)
                                    /\ Place(m, i, d) = h /\ ms[h] = ls[m]
<1>0. /\ Len(ls) \in Nat /\ Len(ms) \in Nat /\ i \in 1 .. (Len(ls) + 1) /\ d \in Nat
      /\ i <= Len(ls) => i + d <= Len(ls) /\ Len(ms) = Len(ls) - d
      /\ i = Len(ls) + 1 => d = 0 /\ Len(ls) < Len(ms)
  BY DEF Edited
<1>1. CASE h < i
  <2>1. h \in 1 .. (i - 1) /\ h \in 1 .. Len(ls) /\ h # i
    BY <1>0, <1>1
  <2> QED
    BY <1>1, <2>1 DEF Edited, Place
<1>2. CASE h = i
  BY <1>2 DEF Edited
<1>3. CASE h > i /\ h <= Len(ls) - d
  <2>1. h \in (i + 1) .. (Len(ls) - d) /\ h + d \in 1 .. Len(ls) /\ h + d # i
        /\ h + d > i + d /\ ~(h + d < i) /\ (h + d) - d = h
    BY <1>0, <1>3
  <2> QED
    BY <2>1 DEF Edited, Place
<1>4. CASE h > i /\ h > Len(ls) - d
  <2>1. h \in (Len(ls) + 1) .. Len(ms)
    BY <1>0, <1>4
  <2> QED
    BY <2>1 DEF Edited
<1>5. h < i \/ h = i \/ (h > i /\ h <= Len(ls) - d) \/ (h > i /\ h > Len(ls) - d)
  BY <1>0
<1> QED
  BY <1>1, <1>2, <1>3, <1>4, <1>5

LEMMA PlaceInOrder ==
  ASSUME NEW i \in Nat, NEW d \in Nat, NEW a \in Nat, NEW b \in Nat, a <= b,
         a < i \/ a > i + d, b < i \/ b > i + d
  PROVE  Place(a, i, d) <= Place(b, i, d)
BY DEF Place

\* A value that stays keeps all its lines, and gets none.
LEMMA BlockKept ==
  ASSUME NEW s \in Services, NEW ls, NEW ms, NEW key, NEW i, NEW d, Edited(s, ls, ms, key, i, d),
         NEW m, Stays(s, ls, m, i)
  PROVE  /\ Value(s, ms, Place(m, i, d)) = Value(s, ls, m)
         /\ Continued(s, ms, Place(m, i, d)) - Place(m, i, d) = Continued(s, ls, m) - m
<1> DEFINE h == Place(m, i, d)
           c == Continued(s, ls, m)
           n == c - m
<1>0. /\ Len(ls) \in Nat /\ Len(ms) \in Nat /\ i \in 1 .. (Len(ls) + 1) /\ d \in Nat
      /\ i <= Len(ls) => i + d <= Len(ls) /\ Len(ms) = Len(ls) - d
      /\ i = Len(ls) + 1 => d = 0 /\ Len(ls) < Len(ms)
      /\ m \in 1 .. Len(ls) /\ m # i
  BY DEF Edited, Stays
<1>1. (m < i \/ m > i + d) /\ h \in 1 .. Len(ms)
  BY StaysWhere
<1>2. ValueEnds(s, ls, m, c)
  BY <1>0, ValueEndsThere
<1>3. c \in m .. Len(ls)
  BY <1>2 DEF ValueEnds
<1> HIDE DEF c
<1>4. n \in Nat /\ m + n <= Len(ls) /\ c = m + n
  BY <1>0, <1>3
<1>5. s = "dovecot" => n = 0
  BY <1>0, <1>2, <1>4 DEF ValueEnds
<1>6. \A j \in (m + 1) .. (m + n) : s = "postfix" => ls[j].indent
  BY <1>2, <1>4 DEF ValueEnds
<1>7. s = "postfix" /\ m + n < Len(ls) => ~ls[(m + n) + 1].indent
  BY <1>2, <1>4 DEF ValueEnds
<1> HIDE DEF n
<1>8. ASSUME m < i PROVE m + n < i
  <2>1. ASSUME ~(m + n < i) PROVE FALSE
    <3>1. i \in (m + 1) .. (m + n) /\ i <= Len(ls)
      BY <1>0, <1>4, <1>8, <2>1
    <3>2. s = "postfix" => ~ls[i].indent
      BY <3>1 DEF Edited
    <3>3. s # "dovecot"
      BY <1>0, <1>4, <1>5, <1>8, <2>1
    <3> QED
      BY <1>6, <3>1, <3>2, <3>3 DEF Services
  <2> QED
    BY <2>1
<1>9. \A j \in 0 .. n : ms[h + j] = ls[m + j]
  <2> SUFFICES ASSUME NEW j \in 0 .. n PROVE ms[h + j] = ls[m + j]
    OBVIOUS
  <2>1. CASE m < i
    <3>1. m + j \in 1 .. (i - 1) /\ h = m
      BY <1>0, <1>4, <1>8, <2>1 DEF Place
    <3> QED
      BY <3>1 DEF Edited
  <2>2. CASE m > i + d
    <3>1. /\ h + j \in (i + 1) .. (Len(ls) - d) /\ (h + j) + d = m + j
      BY <1>0, <1>4, <2>2 DEF Place
    <3>2. ms[h + j] = ls[(h + j) + d]
      BY <3>1 DEF Edited
    <3> QED
      BY <3>1, <3>2
  <2> QED
    BY <1>1, <2>1, <2>2
<1>10. h + n <= Len(ms)
  <2>1. CASE m < i
    BY <1>0, <1>4, <1>8, <2>1 DEF Place
  <2>2. CASE m > i + d
    BY <1>0, <1>4, <2>2 DEF Place
  <2> QED
    BY <1>1, <2>1, <2>2
<1>11. ASSUME s = "postfix", NEW j \in (h + 1) .. (h + n) PROVE ms[j].indent
  <2> DEFINE x == j - h
  <2>1. x \in 0 .. n /\ h + x = j /\ m + x \in (m + 1) .. (m + n)
    BY <1>0, <1>1, <1>4, <1>11
  <2> HIDE DEF x
  <2>2. ms[h + x] = ls[m + x]
    BY <1>9, <2>1
  <2>3. ls[m + x].indent
    BY <1>6, <1>11, <2>1
  <2> QED
    BY <2>1, <2>2, <2>3
<1>12. ASSUME s = "postfix", h + n < Len(ms) PROVE ~ms[(h + n) + 1].indent
  <2> DEFINE x == (h + n) + 1
  <2>1. CASE m < i /\ x = i
    BY <1>12, <2>1 DEF Edited, Written
  <2>2. CASE m < i /\ x # i
    <3>1. x \in 1 .. (i - 1) /\ x = (m + n) + 1 /\ m + n < Len(ls)
      BY <1>0, <1>4, <1>8, <2>2 DEF Place
    <3>2. ms[x] = ls[x]
      BY <3>1 DEF Edited
    <3> QED
      BY <1>7, <1>12, <3>1, <3>2
  <2>3. CASE m > i + d
    <3>1. x \in (i + 1) .. (Len(ls) - d) /\ x + d = (m + n) + 1 /\ m + n < Len(ls)
      BY <1>0, <1>4, <1>12, <2>3 DEF Place
    <3>2. ms[x] = ls[x + d]
      BY <3>1 DEF Edited
    <3> QED
      BY <1>7, <1>12, <3>1, <3>2
  <2> QED
    BY <1>1, <2>1, <2>2, <2>3
<1>13. h \in Nat /\ h >= 1
  BY <1>0, <1>1
<1>14. ValueEnds(s, ms, h, h + n)
  <2> HIDE DEF h
  <2>1. h + n \in h .. Len(ms)
    BY <1>0, <1>4, <1>10, <1>13
  <2>2. s = "dovecot" => h + n = h
    BY <1>5, <1>13
  <2> QED
    BY <1>11, <1>12, <2>1, <2>2 DEF ValueEnds
<1>15. Continued(s, ms, h) = h + n
  BY <1>0, <1>1, <1>14, ValueEndsOnce
<1>16. Value(s, ms, h) = Value(s, ls, m)
  <2> HIDE DEF h
  <2>1. Continued(s, ls, m) = m + n
    BY <1>4 DEF c
  <2>2. Len(ls) \in Nat /\ Len(ms) \in Nat /\ m \in 1 .. Len(ls) /\ h \in 1 .. Len(ms) /\ n \in Nat
    BY <1>0, <1>1, <1>4
  <2>3. SameLines(ls, m, ms, h, n)
    BY <1>9 DEF SameLines
  <2> QED
    BY <2>1, <2>2, <2>3, <1>15, ValueMoved, SMTT(30)
<1>17. Continued(s, ms, h) - h = c - m
  <2> HIDE DEF h
  <2> QED
    BY <1>0, <1>4, <1>13, <1>15
<1> QED
  BY <1>16, <1>17 DEF c

\* What assigns another parameter stays, and nothing new assigns it.
LEMMA OthersStay ==
  ASSUME NEW s \in Services, NEW ls, NEW ms, NEW key, NEW i, NEW d, Edited(s, ls, ms, key, i, d),
         NEW k, k # key
  PROVE  /\ \A m \in 1 .. Len(ls) : Assigns(ls[m], k) /\ ~ls[m].indent => Stays(s, ls, m, i)
         /\ \A h \in 1 .. Len(ms) : Assigns(ms[h], k) =>
              \E m \in 1 .. Len(ls) : /\ m # i /\ (m < i \/ m > i + d)
                                      /\ Place(m, i, d) = h /\ ms[h] = ls[m]
<1>1. ASSUME NEW m \in 1 .. Len(ls), Assigns(ls[m], k), ~ls[m].indent
      PROVE  Stays(s, ls, m, i)
  <2>1. m = i => Assigns(ls[i], key)
    BY DEF Edited
  <2>2. m # i
    BY <1>1, <2>1 DEF Assigns
  <2> QED
    BY <1>1, <2>2 DEF Stays
<1>2. ASSUME NEW h \in 1 .. Len(ms), Assigns(ms[h], k)
      PROVE  \E m \in 1 .. Len(ls) : /\ m # i /\ (m < i \/ m > i + d)
                                     /\ Place(m, i, d) = h /\ ms[h] = ls[m]
  <2>1. ~Written(s, ms[h], key)
    BY <1>2 DEF Written
  <2> QED
    BY <2>1, Comes
<1> QED
  BY <1>1, <1>2

LEMMA FirstKept ==
  ASSUME NEW s \in Services, NEW ls, NEW ms, NEW key, NEW i, NEW d, Edited(s, ls, ms, key, i, d),
         NEW k, k # key,
         \A m \in 1 .. Len(ls) : Assigns(ls[m], k) => (s = "postfix" => ~ls[m].indent)
  PROVE  /\ FirstAt(ls, k) = 0 => FirstAt(ms, k) = 0
         /\ FirstAt(ls, k) # 0 => /\ Stays(s, ls, FirstAt(ls, k), i)
                                  /\ FirstAt(ms, k) = Place(FirstAt(ls, k), i, d)
<1>0. Len(ls) \in Nat /\ Len(ms) \in Nat /\ i \in Nat /\ d \in Nat
  BY DEF Edited
<1>1. \A h \in 1 .. Len(ms) : Assigns(ms[h], k) =>
              \E m \in 1 .. Len(ls) : /\ m # i /\ (m < i \/ m > i + d)
                                      /\ Place(m, i, d) = h /\ ms[h] = ls[m]
  <2> SUFFICES ASSUME NEW h \in 1 .. Len(ms), Assigns(ms[h], k)
               PROVE  \E m \in 1 .. Len(ls) : /\ m # i /\ (m < i \/ m > i + d)
                                               /\ Place(m, i, d) = h /\ ms[h] = ls[m]
    OBVIOUS
  <2>1. ~Written(s, ms[h], key)
    BY DEF Written
  <2> QED
    BY <2>1, Comes
<1>2. ASSUME FirstAt(ls, k) = 0 PROVE FirstAt(ms, k) = 0
  <2>1. \A m \in 1 .. Len(ls) : ~Assigns(ls[m], k)
    BY <1>0, <1>2, FirstThere
  <2>2. \A h \in 1 .. Len(ms) : ~Assigns(ms[h], k)
    BY <1>1, <2>1
  <2> QED
    BY <1>0, <2>2, FirstNone
<1>3. ASSUME FirstAt(ls, k) # 0
      PROVE  Stays(s, ls, FirstAt(ls, k), i) /\ FirstAt(ms, k) = Place(FirstAt(ls, k), i, d)
  <2> DEFINE f == FirstAt(ls, k)
  <2>1. IsFirst(ls, k, f)
    BY <1>0, <1>3, FirstThere
  <2> HIDE DEF f
  <2>2. f \in 1 .. Len(ls) /\ Assigns(ls[f], k) /\ \A j \in 1 .. Len(ls) : Assigns(ls[j], k) => f <= j
    BY <2>1 DEF IsFirst
  <2>3. Stays(s, ls, f, i)
    <3>1. f = i => Assigns(ls[i], key)
      BY <2>2 DEF Edited
    <3>2. f # i
      BY <2>2, <3>1 DEF Assigns
    <3> QED
      BY <2>2, <3>2 DEF Stays
  <2>4. (f < i \/ f > i + d) /\ Place(f, i, d) \in 1 .. Len(ms) /\ ms[Place(f, i, d)] = ls[f]
    BY <2>3, StaysWhere
  <2>5. ASSUME NEW h \in 1 .. Len(ms), Assigns(ms[h], k) PROVE Place(f, i, d) <= h
    <3>1. PICK m \in 1 .. Len(ls) : /\ m # i /\ (m < i \/ m > i + d)
                                    /\ Place(m, i, d) = h /\ ms[h] = ls[m]
      BY <1>1, <2>5
    <3>2. f <= m
      BY <2>2, <2>5, <3>1
    <3>3. f \in Nat /\ m \in Nat
      BY <1>0, <2>2
    <3>4. Place(f, i, d) <= Place(m, i, d)
      BY <1>0, <2>4, <3>1, <3>2, <3>3, PlaceInOrder
    <3> QED
      BY <3>1, <3>4
  <2>6. IsFirst(ms, k, Place(f, i, d))
    BY <2>2, <2>4, <2>5 DEF IsFirst
  <2>7. FirstAt(ms, k) = Place(f, i, d)
    BY <1>0, <2>6, FirstOnce
  <2> QED
    BY <2>3, <2>7 DEF f
<1> QED
  BY <1>2, <1>3

LEMMA EffectiveKept ==
  ASSUME NEW s \in Services, NEW ls, NEW ms, NEW key, NEW i, NEW d, Edited(s, ls, ms, key, i, d),
         NEW k, k # key
  PROVE  Effective(s, ms, k) = Effective(s, ls, k)
<1>0. Len(ls) \in Nat /\ Len(ms) \in Nat /\ i \in Nat /\ d \in Nat
  BY DEF Edited
<1>1. \A h \in 1 .. Len(ms) : Assigns(ms[h], k) =>
              \E m \in 1 .. Len(ls) : /\ m # i /\ (m < i \/ m > i + d)
                                      /\ Place(m, i, d) = h /\ ms[h] = ls[m]
  BY OthersStay
<1>2. CASE Outside(ls, k) = {}
  <2>1. Outside(ms, k) = {}
    <3> SUFFICES ASSUME NEW h \in Outside(ms, k) PROVE FALSE
      OBVIOUS
    <3>1. h \in 1 .. Len(ms) /\ Assigns(ms[h], k) /\ ~ms[h].indent
      BY DEF Outside
    <3>2. PICK m \in 1 .. Len(ls) : ms[h] = ls[m]
      BY <1>1, <3>1
    <3>3. m \in Outside(ls, k)
      BY <3>1, <3>2 DEF Outside
    <3> QED
      BY <1>2, <3>3
  <2> QED
    BY <1>2, <2>1 DEF Effective, Outside
<1>3. CASE Outside(ls, k) # {}
  <2> DEFINE x == Max(Outside(ls, k))
             y == Place(x, i, d)
  <2>1. Outside(ls, k) \subseteq 1 .. Len(ls) /\ Outside(ms, k) \subseteq 1 .. Len(ms)
    BY DEF Outside
  <2>2. x \in Outside(ls, k) /\ \A j \in Outside(ls, k) : j <= x
    BY <1>0, <1>3, <2>1, MaxOf
  <2> HIDE DEF x
  <2>3. x \in 1 .. Len(ls) /\ Assigns(ls[x], k) /\ ~ls[x].indent
    BY <2>2 DEF Outside
  <2>4. Stays(s, ls, x, i)
    BY <2>3, OthersStay
  <2>5. (x < i \/ x > i + d) /\ y \in 1 .. Len(ms) /\ ms[y] = ls[x]
    BY <2>4, StaysWhere
  <2>6. y \in Outside(ms, k)
    BY <2>3, <2>5 DEF Outside
  <2>7. ASSUME NEW h \in Outside(ms, k) PROVE h <= y
    <3>1. h \in 1 .. Len(ms) /\ Assigns(ms[h], k) /\ ~ms[h].indent
      BY <2>7 DEF Outside
    <3>2. PICK m \in 1 .. Len(ls) : /\ m # i /\ (m < i \/ m > i + d)
                                    /\ Place(m, i, d) = h /\ ms[h] = ls[m]
      BY <1>1, <3>1
    <3>3. m \in Outside(ls, k)
      BY <3>1, <3>2 DEF Outside
    <3>4. m <= x
      BY <2>2, <3>3
    <3>5. m \in Nat /\ x \in Nat
      BY <1>0, <2>3
    <3>6. Place(m, i, d) <= Place(x, i, d)
      BY <1>0, <2>5, <3>2, <3>4, <3>5, PlaceInOrder
    <3> QED
      BY <3>2, <3>6
  <2> HIDE DEF y
  <2>8. Max(Outside(ms, k)) = y
    BY <1>0, <2>1, <2>6, <2>7, MaxOnce
  <2>9. Effective(s, ms, k) = Value(s, ms, y)
    BY <2>6, <2>8 DEF Effective, Outside
  <2>10. Effective(s, ls, k) = Value(s, ls, x)
    BY <1>3 DEF Effective, Outside, x
  <2>11. Value(s, ms, y) = Value(s, ls, x)
    BY <2>4, BlockKept DEF y
  <2> QED
    BY <2>9, <2>10, <2>11
<1> QED
  BY <1>2, <1>3

-----------------------------------------------------------------------------
(* UpdateParam is such an edit.                                            *)

\* Line x for the lines from i to c.
Splice(ls, i, c, x) == SubSeq(ls, 1, i - 1) \o <<x>> \o SubSeq(ls, c + 1, Len(ls))
SplicedTo(ls, i, c, x, ms) ==
  /\ Len(ms) = Len(ls) - (c - i) /\ ms[i] = x
  /\ \A j \in 1 .. (i - 1) : ms[j] = ls[j]
  /\ \A j \in (i + 1) .. (Len(ls) - (c - i)) : ms[j] = ls[j + (c - i)]

LEMMA Spliced ==
  ASSUME NEW S, NEW ls \in Seq(S), NEW i \in 1 .. Len(ls), NEW c \in i .. Len(ls), NEW x \in S,
         NEW ms, ms = Splice(ls, i, c, x)
  PROVE  SplicedTo(ls, i, c, x, ms)
<1> DEFINE n == Len(ls)
           a == SubSeq(ls, 1, i - 1)
           b == <<x>>
           e == SubSeq(ls, c + 1, n)
<1>1. n \in Nat /\ \A j \in 1 .. n : ls[j] \in S
  BY ElementOfSeq, LenProperties
<1>2. /\ a \in Seq(S) /\ Len(a) = i - 1
      /\ \A j \in 1 .. (i - 1) : a[j] = ls[j]
  <2>1. 1 \in Int /\ i - 1 \in Int /\ \A j \in 1 .. (i - 1) : ls[j] \in S
    BY <1>1
  <2>2. /\ a \in Seq(S) /\ Len(a) = IF 1 <= i - 1 THEN (i - 1) - 1 + 1 ELSE 0
        /\ \A j \in 1 .. (i - 1) - 1 + 1 : a[j] = ls[1 + j - 1]
    BY <2>1, SubSeqProperties
  <2> HIDE DEF a
  <2> QED
    BY <1>1, <2>2
<1>3. /\ e \in Seq(S) /\ Len(e) = n - c
      /\ \A j \in 1 .. (n - c) : e[j] = ls[c + j]
  <2>1. c + 1 \in Int /\ n \in Int /\ \A j \in (c + 1) .. n : ls[j] \in S
    BY <1>1
  <2>2. /\ e \in Seq(S) /\ Len(e) = IF c + 1 <= n THEN n - (c + 1) + 1 ELSE 0
        /\ \A j \in 1 .. n - (c + 1) + 1 : e[j] = ls[(c + 1) + j - 1]
    BY <2>1, SubSeqProperties
  <2> HIDE DEF e
  <2> QED
    BY <1>1, <2>2
<1>4. b \in Seq(S) /\ Len(b) = 1 /\ b[1] = x
  OBVIOUS
<1> HIDE DEF a, b, e
<1>5. /\ a \o b \in Seq(S) /\ Len(a \o b) = i
      /\ \A j \in 1 .. i : (a \o b)[j] = IF j <= i - 1 THEN ls[j] ELSE x
  <2>1. /\ a \o b \in Seq(S) /\ Len(a \o b) = Len(a) + Len(b)
        /\ \A j \in 1 .. Len(a) + Len(b) : (a \o b)[j] = IF j <= Len(a) THEN a[j] ELSE b[j - Len(a)]
    BY <1>2, <1>4, ConcatProperties
  <2>2. Len(a) + Len(b) = i /\ i \in Nat
    BY <1>1, <1>2, <1>4
  <2>3. \A j \in 1 .. i : j <= i - 1 \/ j - (i - 1) = 1
    BY <1>1
  <2> QED
    BY <1>1, <1>2, <1>4, <2>1, <2>2, <2>3
<1> DEFINE f == a \o b
<1>6. ms = f \o e
  BY DEF a, b, e, Splice
<1> HIDE DEF f
<1>7. /\ Len(ms) = i + (n - c)
      /\ \A j \in 1 .. i + (n - c) : ms[j] = IF j <= i THEN f[j] ELSE e[j - i]
  <2>1. f \in Seq(S) /\ Len(f) = i
    BY <1>5 DEF f
  <2>2. /\ Len(f \o e) = Len(f) + Len(e)
        /\ \A j \in 1 .. Len(f) + Len(e) : (f \o e)[j] = IF j <= Len(f) THEN f[j] ELSE e[j - Len(f)]
    BY <1>3, <2>1, ConcatProperties
  <2> QED
    BY <1>3, <1>6, <2>1, <2>2
<1>8. \A j \in 1 .. i : f[j] = IF j <= i - 1 THEN ls[j] ELSE x
  BY <1>5 DEF f
<1>9. Len(ms) = n - (c - i) /\ ms[i] = x
  <2>1. i \in 1 .. i /\ i \in 1 .. i + (n - c) /\ i <= i /\ ~(i <= i - 1) /\ i + (n - c) = n - (c - i)
    BY <1>1
  <2> QED
    BY <1>7, <1>8, <2>1
<1>10. ASSUME NEW j \in 1 .. (i - 1) PROVE ms[j] = ls[j]
  <2>1. j \in 1 .. i /\ j \in 1 .. i + (n - c) /\ j <= i - 1 /\ j <= i
    BY <1>1
  <2> QED
    BY <1>7, <1>8, <2>1
<1>11. ASSUME NEW j \in (i + 1) .. (n - (c - i)) PROVE ms[j] = ls[j + (c - i)]
  <2>1. j \in 1 .. i + (n - c) /\ ~(j <= i) /\ j - i \in 1 .. (n - c) /\ c + (j - i) = j + (c - i)
    BY <1>1
  <2> QED
    BY <1>3, <1>7, <2>1
<1> QED
  BY <1>9, <1>10, <1>11 DEF SplicedTo

LEMMA Appended ==
  ASSUME NEW S, NEW ls \in Seq(S), NEW gap \in Seq(S), NEW y \in S, NEW x \in S,
         NEW ms, ms = ls \o gap \o <<y, x>>
  PROVE  /\ Len(ms) = Len(ls) + Len(gap) + 2 /\ ms[Len(ms)] = x
         /\ \A j \in 1 .. Len(ls) : ms[j] = ls[j]
         /\ \A j \in (Len(ls) + 1) .. (Len(ms) - 1) :
              ms[j] = y \/ \E g \in 1 .. Len(gap) : ms[j] = gap[g]
<1> DEFINE n == Len(ls)
           m == Len(gap)
           b == <<y, x>>
           f == ls \o gap
<1>1. n \in Nat /\ m \in Nat
  BY LenProperties
<1>2. b \in Seq(S) /\ Len(b) = 2 /\ b[1] = y /\ b[2] = x
  OBVIOUS
<1> HIDE DEF b
<1>3. /\ f \in Seq(S) /\ Len(f) = n + m
      /\ \A j \in 1 .. n + m : f[j] = IF j <= n THEN ls[j] ELSE gap[j - n]
  BY ConcatProperties
<1>4. ms = f \o b
  BY DEF b
<1> HIDE DEF f, n, m
<1>5. /\ Len(ms) = (n + m) + 2
      /\ \A j \in 1 .. (n + m) + 2 : ms[j] = IF j <= n + m THEN f[j] ELSE b[j - (n + m)]
  <2>1. /\ Len(f \o b) = Len(f) + Len(b)
        /\ \A j \in 1 .. Len(f) + Len(b) : (f \o b)[j] = IF j <= Len(f) THEN f[j] ELSE b[j - Len(f)]
    BY <1>2, <1>3, ConcatProperties
  <2> QED
    BY <1>2, <1>3, <1>4, <2>1
<1>6. ms[Len(ms)] = x
  <2>1. (n + m) + 2 \in 1 .. (n + m) + 2 /\ ~((n + m) + 2 <= n + m) /\ ((n + m) + 2) - (n + m) = 2
    BY <1>1
  <2> QED
    BY <1>2, <1>5, <2>1
<1>7. ASSUME NEW j \in 1 .. n PROVE ms[j] = ls[j]
  <2>1. j \in 1 .. (n + m) + 2 /\ j \in 1 .. n + m /\ j <= n + m /\ j <= n
    BY <1>1
  <2> QED
    BY <1>3, <1>5, <2>1
<1>8. ASSUME NEW j \in (n + 1) .. (Len(ms) - 1)
      PROVE  ms[j] = y \/ \E g \in 1 .. m : ms[j] = gap[g]
  <2>1. CASE j <= n + m
    <3>1. j \in 1 .. (n + m) + 2 /\ j \in 1 .. n + m /\ ~(j <= n) /\ j - n \in 1 .. m
      BY <1>1, <1>5, <2>1
    <3> QED
      BY <1>3, <1>5, <2>1, <3>1
  <2>2. CASE ~(j <= n + m)
    <3>1. j \in 1 .. (n + m) + 2 /\ j - (n + m) = 1
      BY <1>1, <1>5, <2>2
    <3> QED
      BY <1>2, <1>5, <2>2, <3>1
  <2> QED
    BY <2>1, <2>2
<1> QED
  BY <1>5, <1>6, <1>7, <1>8 DEF n, m

\* No indented line of Postfix names the parameter.
FlushLeft(s, ls, key) ==
  s = "postfix" => \A m \in 1 .. Len(ls) : Assigns(ls[m], key) => ~ls[m].indent

\* What one parameter's edit gives.
Given(s, ls, ms, param) ==
  \/ Already(s, ls, param)
  \/ FirstAt(ms, param.key) # 0 /\ Value(s, ms, FirstAt(ms, param.key)) = param.value

LEMMA LastLine ==
  ASSUME NEW s \in Services, NEW ms, Len(ms) \in Nat, NEW i \in 1 .. Len(ms),
         s = "postfix" /\ i < Len(ms) => ~ms[i + 1].indent
  PROVE  Continued(s, ms, i) = i /\ Value(s, ms, i) = ms[i].value
<1>1. ValueEnds(s, ms, i, i)
  <2>1. i \in i .. Len(ms) /\ \A j \in (i + 1) .. i : FALSE
    OBVIOUS
  <2> QED
    BY <2>1 DEF ValueEnds
<1>2. Continued(s, ms, i) = i
  BY <1>1, ValueEndsOnce
<1> QED
  BY <1>2, ValueOfOneLine

\* The parameter is not in the file.
LEMMA ParamAppended ==
  ASSUME NEW s \in Services, NEW ls \in Files, NEW param \in ParamRow, NEW ms, NEW gap,
         gap = <<>> \/ gap = <<Blank>>,
         FirstAt(ls, param.key) = 0,
         ms = ls \o gap \o <<Comment, Setting(param.key, param.value)>>
  PROVE  /\ Edited(s, ls, ms, param.key, Len(ls) + 1, 0)
         /\ Given(s, ls, ms, param)
<1> DEFINE key  == param.key
           line == Setting(param.key, param.value)
           n    == Len(ls)
<1>1. Comment \in LineType /\ Blank \in LineType /\ line \in LineType
  BY LinesEditable DEF Editable
<1>2. /\ ~Comment.indent /\ ~Blank.indent /\ ~line.indent
      /\ Comment.kind = "comment" /\ Blank.kind = "blank"
      /\ Assigns(line, key) /\ line.key = key /\ line.value = param.value
  BY DEF Comment, Blank, Setting, Line, Assigns
<1>3. \A k : ~Assigns(Comment, k) /\ ~Assigns(Blank, k) /\ (Assigns(line, k) => k = key)
  BY <1>2 DEF Assigns
<1> HIDE DEF line
<1>4. gap \in Seq(LineType) /\ ls \in Seq(LineType) /\ \A g \in 1 .. Len(gap) : gap[g] = Blank
  <2>1. CASE gap = <<>>
    <3>1. Len(<<>>) = 0 /\ <<>> \in Seq(LineType)
      OBVIOUS
    <3>2. \A g \in 1 .. Len(gap) : FALSE
      BY <2>1, <3>1
    <3> QED
      BY <2>1, <3>1, <3>2 DEF Files
  <2>2. CASE gap = <<Blank>>
    BY <1>1, <2>2 DEF Files
  <2> QED
    BY <2>1, <2>2
<1>5. n \in Nat /\ Len(gap) \in Nat
  BY <1>4, LenProperties
<1> DEFINE e == Len(ms)
<1>6. /\ e = n + Len(gap) + 2 /\ ms[e] = line
      /\ \A j \in 1 .. n : ms[j] = ls[j]
      /\ \A j \in (n + 1) .. (e - 1) :
           ms[j] = Comment \/ \E g \in 1 .. Len(gap) : ms[j] = gap[g]
  <2>1. ms = ls \o gap \o <<Comment, line>>
    BY DEF line
  <2>2. Comment \in LineType /\ line \in LineType /\ gap \in Seq(LineType) /\ ls \in Seq(LineType)
    BY <1>1, <1>4
  <2> QED
    BY <2>1, <2>2, Appended, SMTT(30)
<1> HIDE DEF n, e
<1>a. e \in Nat /\ e > n /\ e # 0 /\ e \in 1 .. e /\ e \in (n + 1) .. e
  <2>1. e = n + Len(gap) + 2
    BY <1>6, Zenon
  <2> QED
    BY <1>5, <2>1
<1>7. \A j \in (n + 1) .. (e - 1) : ms[j] = Comment \/ ms[j] = Blank
  <2> SUFFICES ASSUME NEW j \in (n + 1) .. (e - 1), ms[j] # Comment PROVE ms[j] = Blank
    OBVIOUS
  <2>1. PICK g \in 1 .. Len(gap) : ms[j] = gap[g]
    BY <1>6, Zenon
  <2>2. gap[g] = Blank
    BY <1>4, <2>1, Zenon
  <2> QED
    BY <2>1, <2>2
<1>8. \A j \in (n + 1) .. e : Written(s, ms[j], key)
  <2> SUFFICES ASSUME NEW j \in (n + 1) .. e PROVE Written(s, ms[j], key)
    OBVIOUS
  <2>1. j = e \/ j \in (n + 1) .. (e - 1)
    BY <1>5, <1>a
  <2>2. ms[j] = line \/ ms[j] = Comment \/ ms[j] = Blank
    BY <1>6, <1>7, <2>1
  <2> QED
    BY <1>2, <1>3, <2>2 DEF Written
<1>9. \A j \in 1 .. n : ~Assigns(ls[j], key)
  BY <1>5, FirstThere DEF n
<1>10. Edited(s, ls, ms, key, n + 1, 0)
  <2>1. /\ n \in Nat /\ e \in Nat /\ n + 1 \in 1 .. (n + 1) /\ 0 \in Nat /\ ~(n + 1 <= n)
        /\ n < e /\ (n + 1) - 1 = n /\ n + 1 \in (n + 1) .. e
        /\ \A j \in ((n + 1) + 1) .. (n - 0) : FALSE
        /\ \A j \in ((n + 1) + 1) .. ((n + 1) + 0) : FALSE
    BY <1>5, <1>a
  <2> QED
    BY <1>6, <1>8, <2>1 DEF Edited, n, e
<1>11. IsFirst(ms, key, e)
  <2>1. e \in 1 .. e /\ e \in Nat
    BY <1>a
  <2>2. ASSUME NEW j \in 1 .. e, Assigns(ms[j], key) PROVE e <= j
    <3>a. \A m \in 1 .. n : ms[m] = ls[m]
      BY <1>6, Zenon
    <3>b. j \notin 1 .. n
      BY <1>9, <2>2, <3>a, Zenon
    <3>1. ~(j <= n)
      BY <1>5, <1>a, <3>b
    <3>2. ASSUME j # e PROVE FALSE
      <4>1. j \in (n + 1) .. (e - 1)
        BY <1>5, <1>a, <3>1, <3>2
      <4>2. ms[j] = Comment \/ ms[j] = Blank
        BY <1>7, <4>1
      <4> QED
        BY <1>3, <2>2, <4>2
    <3> QED
      BY <2>1, <3>2
  <2> QED
    BY <1>2, <1>6, <2>1, <2>2, Zenon DEF IsFirst, e
<1>12. FirstAt(ms, key) = e /\ e \in Nat /\ e # 0
  BY <1>a, <1>11, FirstOnce DEF e
<1>13. Value(s, ms, e) = line.value
  <2>1. e \in 1 .. e /\ ~(e < e)
    BY <1>12
  <2>2. Value(s, ms, e) = ms[e].value
    BY <1>12, <2>1, LastLine, Zenon DEF e
  <2> QED
    BY <1>6, <2>2
<1> QED
  BY <1>2, <1>10, <1>12, <1>13 DEF Given, n, e

\* The parameter is in the file: its first line is written, the rest of its value goes.
LEMMA ParamReplaced ==
  ASSUME NEW s \in Services, NEW ls \in Files, NEW param \in ParamRow, NEW ms, NEW i,
         FlushLeft(s, ls, param.key), IsFirst(ls, param.key, i),
         LET stale == Value(s, ls, i) # param.value
             line  == Setting(param.key, param.value)
         IN ms = SubSeq(ls, 1, i - 1) \o <<IF stale THEN line ELSE ls[i]>>
                   \o SubSeq(ls, Continued(s, ls, i) + 1, Len(ls))
  PROVE  /\ Edited(s, ls, ms, param.key, i, Continued(s, ls, i) - i)
         /\ Given(s, ls, ms, param)
<1> DEFINE key   == param.key
           stale == Value(s, ls, i) # param.value
           line  == Setting(param.key, param.value)
           c     == Continued(s, ls, i)
           x     == IF stale THEN line ELSE ls[i]
           n     == Len(ls)
           e     == Len(ms)
           d     == c - i
<1>1. ls \in Seq(LineType) /\ n \in Nat
  BY LenProperties DEF Files
<1>2. i \in 1 .. n /\ Assigns(ls[i], key) /\ \A j \in 1 .. n : Assigns(ls[j], key) => i <= j
  BY DEF IsFirst
<1>3. ValueEnds(s, ls, i, c)
  BY <1>1, <1>2, ValueEndsThere
<1>4. c \in i .. n
  BY <1>3 DEF ValueEnds
<1>5. line \in LineType /\ ls[i] \in LineType
  BY <1>1, <1>2, LinesEditable, ElementOfSeq DEF Editable
<1>6. ~line.indent /\ Assigns(line, key) /\ line.key = key /\ line.value = param.value
  BY DEF Setting, Line, Assigns
<1> HIDE DEF line, stale
<1>7. x \in LineType /\ Assigns(x, key) /\ (s = "postfix" => ~x.indent)
  BY <1>2, <1>5, <1>6 DEF FlushLeft
<1>8. ms = SubSeq(ls, 1, i - 1) \o <<x>> \o SubSeq(ls, c + 1, n)
  BY DEF stale, line
<1> HIDE DEF x, c
<1>9. /\ e = n - d /\ ms[i] = x
      /\ \A j \in 1 .. (i - 1) : ms[j] = ls[j]
      /\ \A j \in (i + 1) .. (n - d) : ms[j] = ls[j + d]
  <2>1. ls \in Seq(LineType) /\ i \in 1 .. Len(ls) /\ c \in i .. Len(ls) /\ x \in LineType
    BY <1>1, <1>2, <1>4, <1>7
  <2>2. ms = Splice(ls, i, c, x)
    BY <1>8 DEF Splice
  <2>3. /\ Len(ms) = Len(ls) - (c - i) /\ ms[i] = x
        /\ \A j \in 1 .. (i - 1) : ms[j] = ls[j]
        /\ \A j \in (i + 1) .. (Len(ls) - (c - i)) : ms[j] = ls[j + (c - i)]
    <3>1. SplicedTo(ls, i, c, x, ms)
      BY <2>1, <2>2, Spliced, Zenon
    <3> QED
      BY <3>1, Zenon DEF SplicedTo
  <2> QED
    BY <2>3, Zenon
<1>10. /\ i \in Nat /\ d \in Nat /\ n \in Nat /\ i >= 1 /\ i <= n /\ i + d <= n /\ c = i + d
  BY <1>1, <1>2, <1>4
<1>11. /\ \A j \in (i + 1) .. (i + d) : s = "postfix" /\ ls[j].indent
       /\ s = "postfix" /\ i + d < n => ~ls[(i + d) + 1].indent
  <2>1. /\ s = "dovecot" => d = 0
        /\ s = "postfix" => /\ \A j \in (i + 1) .. (i + d) : ls[j].indent
                            /\ i + d < n => ~ls[(i + d) + 1].indent
    BY <1>3, <1>10 DEF ValueEnds
  <2>2. d = 0 => \A j \in (i + 1) .. (i + d) : FALSE
    BY <1>10
  <2> QED
    BY <2>1, <2>2 DEF Services
<1> HIDE DEF d, e, n
<1>12. e \in Nat /\ e >= i /\ e = n - d
  BY <1>9, <1>10
<1>13. Written(s, ms[i], key)
  BY <1>7, <1>9 DEF Written, Assigns
<1>14. Edited(s, ls, ms, key, i, d)
  <2>1. /\ i \in 1 .. (n + 1) /\ ~(i = n + 1) /\ \A j \in (n + 1) .. e : FALSE
    BY <1>10, <1>12
  <2>2. s = "postfix" => ~ls[i].indent
    BY <1>2 DEF FlushLeft, n
  <2> QED
    BY <1>2, <1>9, <1>10, <1>11, <1>12, <1>13, <2>1, <2>2, Zenon DEF Edited, n, e
<1>15. FirstAt(ms, key) = i
  <2>1. ASSUME NEW j \in 1 .. e, Assigns(ms[j], key) PROVE i <= j
    <3>1. ASSUME ~(i <= j) PROVE FALSE
      <4>1. j \in 1 .. (i - 1) /\ j \in 1 .. n /\ ~(i <= j)
        BY <1>10, <3>1
      <4>2. ms[j] = ls[j]
        BY <1>9, <4>1, Zenon
      <4> QED
        BY <1>2, <2>1, <4>1, <4>2, Zenon DEF n
    <3> QED
      BY <3>1
  <2>2. i \in 1 .. e
    BY <1>10, <1>12
  <2>3. IsFirst(ms, key, i)
    BY <1>7, <1>9, <2>1, <2>2, Zenon DEF IsFirst, e
  <2> QED
    BY <1>12, <2>3, FirstOnce DEF e
<1>16. s = "postfix" /\ d = 0 /\ i < n => ~ls[i + 1].indent
  BY <1>10, <1>11
<1>17. Given(s, ls, ms, param)
  <2>1. i # 0
    BY <1>10
  <2>2. CASE stale
    <3>1. i < e => ms[i + 1] = ls[(i + d) + 1]
      <4>1. i < e => i + 1 \in (i + 1) .. (n - d) /\ (i + 1) + d = (i + d) + 1
        BY <1>10, <1>12
      <4> QED
        BY <1>9, <4>1
    <3>2. i < e => i + d < n
      BY <1>10, <1>12
    <3>3. Value(s, ms, i) = ms[i].value
      <4>1. s = "postfix" /\ i < e => ~ms[i + 1].indent
        BY <1>11, <3>1, <3>2, Zenon
      <4>2. i \in 1 .. e
        BY <1>10, <1>12
      <4> QED
        BY <1>12, <4>1, <4>2, LastLine DEF e
    <3>4. ms[i].value = param.value
      BY <1>6, <1>9, <2>2 DEF x
    <3> QED
      BY <1>15, <2>1, <3>3, <3>4, Zenon DEF Given
  <2>3. CASE ~stale /\ d # 0
    <3>1. c > i
      BY <1>10, <2>3
    <3>2. FirstAt(ls, key) = i
      BY <1>1, FirstOnce DEF n
    <3>3. Already(s, ls, param)
      BY <2>1, <2>3, <3>1, <3>2 DEF Already, stale, c
    <3> QED
      BY <3>3 DEF Given
  <2>4. CASE ~stale /\ d = 0
    <3>1. c = i
      BY <1>10, <2>4
    <3>2. Value(s, ls, i) = ls[i].value
      BY <1>1, <1>2, <3>1, ValueOfOneLine DEF c, n
    <3>3. i < e => ms[i + 1] = ls[i + 1]
      <4>1. i < e => i + 1 \in (i + 1) .. (n - d) /\ (i + 1) + d = i + 1
        BY <1>10, <1>12, <2>4
      <4> QED
        BY <1>9, <4>1
    <3>4. i < e => i < n
      BY <1>10, <1>12, <2>4
    <3>5. Value(s, ms, i) = ms[i].value
      <4>1. s = "postfix" /\ i < e => ~ms[i + 1].indent
        BY <1>16, <2>4, <3>3, <3>4, Zenon
      <4>2. i \in 1 .. e
        BY <1>10, <1>12
      <4> QED
        BY <1>12, <4>1, <4>2, LastLine DEF e
    <3>6. ms[i] = ls[i]
      BY <1>9, <2>4 DEF x
    <3>7. Value(s, ms, i) = param.value
      BY <2>4, <3>2, <3>5, <3>6 DEF stale
    <3> QED
      BY <1>15, <2>1, <3>7, Zenon DEF Given
  <2> QED
    BY <2>2, <2>3, <2>4
<1> QED
  BY <1>14, <1>17 DEF d, c

-----------------------------------------------------------------------------
(* A plan of two parameters is two such edits.                             *)

LEMMA ParamEdited ==
  ASSUME NEW s \in Services, NEW acc, acc.lines \in Files, NEW param \in ParamRow,
         FlushLeft(s, acc.lines, param.key)
  PROVE  LET ms == UpdateParam(s, acc, param).lines
         IN /\ \E i, d : Edited(s, acc.lines, ms, param.key, i, d)
            /\ Given(s, acc.lines, ms, param)
<1> DEFINE ls    == acc.lines
           i     == FirstAt(ls, param.key)
           stale == i = 0 \/ Value(s, ls, i) # param.value
           line  == Setting(param.key, param.value)
           gap   == IF ls # <<>> /\ Last(ls).kind # "blank" THEN <<Blank>> ELSE <<>>
           ms    == UpdateParam(s, acc, param).lines
<1>1. ms = IF i = 0 THEN ls \o gap \o <<Comment, line>>
                    ELSE SubSeq(ls, 1, i - 1) \o <<IF stale THEN line ELSE ls[i]>>
                         \o SubSeq(ls, Continued(s, ls, i) + 1, Len(ls))
  BY DEF UpdateParam, FirstAt
<1>2. gap = <<>> \/ gap = <<Blank>>
  OBVIOUS
<1>3. Len(ls) \in Nat
  BY LenProperties DEF Files
<1> HIDE DEF ls, i, ms, gap
<1>4. CASE i = 0
  <2>1. ms = ls \o gap \o <<Comment, Setting(param.key, param.value)>>
    BY <1>1, <1>4
  <2>2. Edited(s, ls, ms, param.key, Len(ls) + 1, 0) /\ Given(s, ls, ms, param)
    BY <1>2, <1>4, <2>1, ParamAppended DEF i, ls
  <2> QED
    BY <2>2 DEF ls, ms
<1>5. CASE i # 0
  <2>1. IsFirst(ls, param.key, i)
    BY <1>3, <1>5, FirstThere DEF i
  <2>2. ms = SubSeq(ls, 1, i - 1) \o <<IF Value(s, ls, i) # param.value THEN line ELSE ls[i]>>
                   \o SubSeq(ls, Continued(s, ls, i) + 1, Len(ls))
    BY <1>1, <1>5
  <2>3. ls \in Files /\ FlushLeft(s, ls, param.key)
    BY DEF ls
  <2>4. Edited(s, ls, ms, param.key, i, Continued(s, ls, i) - i) /\ Given(s, ls, ms, param)
    BY <2>1, <2>2, <2>3, ParamReplaced
  <2> QED
    BY <2>4 DEF ls, ms
<1> QED
  BY <1>4, <1>5

LEMMA FlushKept ==
  ASSUME NEW s \in Services, NEW ls, NEW ms, NEW key, NEW i, NEW d, Edited(s, ls, ms, key, i, d),
         NEW k, FlushLeft(s, ls, k)
  PROVE  FlushLeft(s, ms, k)
<1> SUFFICES ASSUME s = "postfix", NEW h \in 1 .. Len(ms), Assigns(ms[h], k) PROVE ~ms[h].indent
  BY DEF FlushLeft
<1>1. CASE Written(s, ms[h], key)
  BY <1>1 DEF Written
<1>2. CASE \E m \in 1 .. Len(ls) : ms[h] = ls[m]
  BY <1>2 DEF FlushLeft
<1> QED
  BY <1>1, <1>2, Comes

\* The value of another parameter was in the file before, or stays.
LEMMA OthersGiven ==
  ASSUME NEW s \in Services, NEW ls, NEW ms, NEW key, NEW i, NEW d, Edited(s, ls, ms, key, i, d),
         NEW param, param.key # key, FlushLeft(s, ls, param.key)
  PROVE  /\ Already(s, ms, param) => Already(s, ls, param)
         /\ FirstAt(ls, param.key) # 0 /\ Value(s, ls, FirstAt(ls, param.key)) = param.value
              => FirstAt(ms, param.key) # 0 /\ Value(s, ms, FirstAt(ms, param.key)) = param.value
<1> DEFINE k == param.key
           f == FirstAt(ls, k)
           g == FirstAt(ms, k)
<1>0. Len(ls) \in Nat /\ Len(ms) \in Nat
  BY DEF Edited
<1>1. /\ f = 0 => g = 0
      /\ f # 0 => Stays(s, ls, f, i) /\ g = Place(f, i, d)
  <2>1. \A m \in 1 .. Len(ls) : Assigns(ls[m], k) => (s = "postfix" => ~ls[m].indent)
    BY DEF FlushLeft
  <2> HIDE DEF k
  <2>2. k # key
    BY DEF k
  <2> QED
    BY <2>1, <2>2, FirstKept
<1>2. ASSUME f # 0
      PROVE  /\ Value(s, ms, g) = Value(s, ls, f)
             /\ Continued(s, ms, g) - g = Continued(s, ls, f) - f
             /\ f \in 1 .. Len(ls) /\ g \in 1 .. Len(ms)
  <2>1. Stays(s, ls, f, i) /\ g = Place(f, i, d)
    BY <1>1, <1>2
  <2> HIDE DEF f, g
  <2>2. Place(f, i, d) \in 1 .. Len(ms) /\ f \in 1 .. Len(ls)
    BY <2>1, StaysWhere DEF Stays
  <2> QED
    BY <2>1, <2>2, BlockKept
<1>3. ASSUME Already(s, ms, param) PROVE Already(s, ls, param)
  <2>1. g # 0 /\ Continued(s, ms, g) > g /\ Value(s, ms, g) = param.value
    BY <1>3 DEF Already
  <2>2. f # 0
    BY <1>1, <2>1
  <2>3. Continued(s, ls, f) \in f .. Len(ls) /\ Continued(s, ms, g) \in g .. Len(ms)
    BY <1>0, <1>2, <2>2, ContinuedRange
  <2> HIDE DEF f, g
  <2>4. Continued(s, ls, f) > f
    BY <1>0, <1>2, <2>1, <2>2, <2>3
  <2> QED
    BY <1>2, <2>1, <2>2, <2>4 DEF Already, f
<1>4. ASSUME f # 0, Value(s, ls, f) = param.value
      PROVE  g # 0 /\ Value(s, ms, g) = param.value
  <2>1. g \in 1 .. Len(ms)
    BY <1>2, <1>4
  <2>2. g # 0
    BY <1>0, <2>1
  <2> QED
    BY <1>2, <1>4, <2>2
<1> QED
  BY <1>3, <1>4

LEMMA LinesKept ==
  ASSUME NEW s \in Services, NEW ls \in Files, NEW ms \in Files, NEW key, NEW i, NEW d,
         Edited(s, ls, ms, key, i, d), NEW l \in ToSet(ls)
  PROVE  (s = "postfix" /\ l.indent) \/ Assigns(l, key) \/ l \in ToSet(ms)
<1>1. PICK m \in 1 .. Len(ls) : l = ls[m]
  BY LenProperties DEF ToSet, Files
<1>2. CASE m = i
  BY <1>1, <1>2 DEF Edited
<1>3. CASE s = "postfix" /\ ls[m].indent
  BY <1>1, <1>3
<1>4. CASE m # i /\ (s = "postfix" => ~ls[m].indent)
  <2>1. Stays(s, ls, m, i)
    BY <1>4 DEF Stays
  <2>2. Place(m, i, d) \in 1 .. Len(ms) /\ ms[Place(m, i, d)] = ls[m]
    BY <2>1, StaysWhere
  <2>3. DOMAIN ms = 1 .. Len(ms)
    BY LenProperties DEF Files
  <2> QED
    BY <1>1, <2>2, <2>3 DEF ToSet
<1> QED
  BY <1>2, <1>3, <1>4

\* What the edits of the parameters of a set give together.
Planned(s, ls, ms, params) ==
  /\ \A c \in params : Given(s, ls, ms, c)
  /\ \A k : (\A c \in params : k # c.key) => Effective(s, ms, k) = Effective(s, ls, k)
  /\ \A l \in ToSet(ls) : \/ s = "postfix" /\ l.indent
                          \/ \E c \in params : Assigns(l, c.key)
                          \/ l \in ToSet(ms)

LEMMA PlannedOne ==
  ASSUME NEW s \in Services, NEW ls \in Files, NEW ms \in Files, NEW a, NEW i, NEW d,
         Edited(s, ls, ms, a.key, i, d), Given(s, ls, ms, a)
  PROVE  Planned(s, ls, ms, {a})
<1>1. \A k : k # a.key => Effective(s, ms, k) = Effective(s, ls, k)
  BY EffectiveKept
<1>2. \A l \in ToSet(ls) : (s = "postfix" /\ l.indent) \/ Assigns(l, a.key) \/ l \in ToSet(ms)
  BY LinesKept
<1> QED
  BY <1>1, <1>2 DEF Planned

LEMMA PlannedTwo ==
  ASSUME NEW s \in Services, NEW ls \in Files, NEW ms \in Files, NEW ns \in Files,
         NEW a, NEW b, a.key # b.key, NEW i, NEW d, NEW j, NEW e,
         FlushLeft(s, ls, a.key), FlushLeft(s, ls, b.key),
         Edited(s, ls, ms, a.key, i, d), Given(s, ls, ms, a),
         Edited(s, ms, ns, b.key, j, e), Given(s, ms, ns, b)
  PROVE  Planned(s, ls, ns, {a, b})
<1>1. Given(s, ls, ns, a)
  <2>1. FlushLeft(s, ms, a.key)
    BY FlushKept
  <2> QED
    BY <2>1, OthersGiven DEF Given
<1>2. Given(s, ls, ns, b)
  BY OthersGiven DEF Given
<1>3. ASSUME NEW k, k # a.key, k # b.key PROVE Effective(s, ns, k) = Effective(s, ls, k)
  <2>1. Effective(s, ms, k) = Effective(s, ls, k)
    BY <1>3, EffectiveKept
  <2>2. Effective(s, ns, k) = Effective(s, ms, k)
    BY <1>3, EffectiveKept
  <2> QED
    BY <2>1, <2>2
<1>4. ASSUME NEW l \in ToSet(ls)
      PROVE  (s = "postfix" /\ l.indent) \/ Assigns(l, a.key) \/ Assigns(l, b.key) \/ l \in ToSet(ns)
  <2>1. (s = "postfix" /\ l.indent) \/ Assigns(l, a.key) \/ l \in ToSet(ms)
    BY LinesKept
  <2>2. l \in ToSet(ms) => (s = "postfix" /\ l.indent) \/ Assigns(l, b.key) \/ l \in ToSet(ns)
    BY LinesKept
  <2> QED
    BY <2>1, <2>2
<1> QED
  BY <1>1, <1>2, <1>3, <1>4 DEF Planned

LEMMA PlannedNone ==
  ASSUME NEW s, NEW ls
  PROVE  Planned(s, ls, ls, {})
BY DEF Planned

\* No parameter is planned twice.
Distinct(changes) == \A a, b \in 1 .. Len(changes) : changes[a].key = changes[b].key => a = b

LEMMA EditsPlanned ==
  ASSUME NEW s \in Services, NEW ls \in Files, NEW changes \in Plans, Distinct(changes),
         \A c \in ToSet(changes) : FlushLeft(s, ls, c.key)
  PROVE  Planned(s, ls, UpdateParams(s, ls, changes).lines, ToSet(changes))
<1> DEFINE none == Untouched(ls)
           one  == Once(s, ls, changes)
           two  == Twice(s, ls, changes)
<1>a. changes \in Seq(ParamRow) /\ Len(changes) <= 2
  BY DEF Plans
<1>b. Len(changes) \in Nat /\ DOMAIN changes = 1 .. Len(changes)
  BY <1>a, LenProperties
<1>c. \A m \in Nat : m <= 2 => m \in 0 .. 2
  OBVIOUS
<1>1. Len(changes) \in 0 .. 2
  BY <1>a, <1>b, <1>c, Zenon
<1>2. none.lines = ls
  BY DEF Untouched
<1>3. Editable(LineType)
  BY LinesEditable
<1>4. ASSUME Len(changes) >= 1
      PROVE  /\ changes[1] \in ParamRow /\ changes[1] \in ToSet(changes)
             /\ one.lines \in Files
             /\ \E i, d : Edited(s, ls, one.lines, changes[1].key, i, d)
             /\ Given(s, ls, one.lines, changes[1])
  <2>1. 1 \in 1 .. Len(changes)
    BY <1>b, <1>4
  <2>2. changes[1] \in ParamRow /\ changes[1] \in ToSet(changes)
    BY <1>a, <1>b, <2>1, ElementOfSeq DEF ToSet
  <2>3. one.lines \in Files
    BY <1>2, <1>3, <2>2, UpdateParamLines DEF Once, Files
  <2>4. FlushLeft(s, none.lines, changes[1].key) /\ none.lines \in Files
    BY <1>2, <2>2
  <2>5. /\ \E i, d : Edited(s, none.lines, UpdateParam(s, none, changes[1]).lines, changes[1].key, i, d)
        /\ Given(s, none.lines, UpdateParam(s, none, changes[1]).lines, changes[1])
    BY <2>2, <2>4, ParamEdited
  <2> QED
    BY <1>2, <2>2, <2>3, <2>5 DEF Once
<1>5. CASE Len(changes) = 0
  <2>1. UpdateParams(s, ls, changes) = none
    BY <1>1, <1>5, UpdateParamsUnrolled
  <2>2. ToSet(changes) = {}
    <3>1. 1 .. Len(changes) = {}
      BY <1>5
    <3> QED
      BY <1>b, <3>1 DEF ToSet
  <2> QED
    BY <1>2, <2>1, <2>2, PlannedNone
<1>6. CASE Len(changes) = 1
  <2>1. UpdateParams(s, ls, changes) = one
    BY <1>1, <1>6, UpdateParamsUnrolled
  <2>2. ToSet(changes) = {changes[1]}
    <3>1. DOMAIN changes = {1}
      BY <1>b, <1>6
    <3> QED
      BY <3>1 DEF ToSet
  <2> HIDE DEF one
  <2>3. PICK i, d : Edited(s, ls, one.lines, changes[1].key, i, d)
    BY <1>4, <1>6
  <2>a. one.lines \in Files /\ Given(s, ls, one.lines, changes[1])
    BY <1>4, <1>6
  <2>4. Planned(s, ls, one.lines, {changes[1]})
    BY <2>a, <2>3, PlannedOne
  <2> QED
    BY <2>1, <2>2, <2>4
<1>7. CASE Len(changes) = 2
  <2>1. UpdateParams(s, ls, changes) = two
    BY <1>1, <1>7, UpdateParamsUnrolled
  <2>2. ToSet(changes) = {changes[1], changes[2]}
    <3>1. DOMAIN changes = {1, 2}
      BY <1>b, <1>7
    <3> QED
      BY <3>1 DEF ToSet
  <2>a. 1 \in 1 .. Len(changes) /\ 2 \in 1 .. Len(changes) /\ Len(changes) >= 1
    BY <1>7
  <2>3. changes[2] \in ParamRow /\ changes[1].key # changes[2].key
    <3>1. changes[2] \in ParamRow
      BY <1>a, <2>a, ElementOfSeq
    <3>2. 1 # 2
      OBVIOUS
    <3> QED
      BY <2>a, <3>1, <3>2 DEF Distinct
  <2>4. two = UpdateParam(s, one, changes[2])
    BY DEF Twice
  <2> HIDE DEF one, two
  <2>5. PICK i, d : Edited(s, ls, one.lines, changes[1].key, i, d)
    BY <1>4, <2>a
  <2>6. one.lines \in Files /\ Given(s, ls, one.lines, changes[1])
    BY <1>4, <2>a
  <2>7. FlushLeft(s, ls, changes[1].key) /\ FlushLeft(s, ls, changes[2].key)
    BY <2>2
  <2>8. FlushLeft(s, one.lines, changes[2].key)
    BY <2>5, <2>7, FlushKept
  <2>9. /\ \E j, e : Edited(s, one.lines, two.lines, changes[2].key, j, e)
        /\ Given(s, one.lines, two.lines, changes[2])
    BY <2>3, <2>4, <2>6, <2>8, ParamEdited
  <2>10. two.lines \in Files
    BY <1>3, <2>3, <2>4, <2>6, UpdateParamLines DEF Files
  <2>11. PICK j, e : Edited(s, one.lines, two.lines, changes[2].key, j, e)
    BY <2>9
  <2>12. Planned(s, ls, two.lines, {changes[1], changes[2]})
    BY <2>3, <2>5, <2>6, <2>7, <2>9, <2>10, <2>11, PlannedTwo
  <2> QED
    BY <2>1, <2>2, <2>12
<1>8. Len(changes) = 0 \/ Len(changes) = 1 \/ Len(changes) = 2
  BY <1>1
<1> QED
  BY <1>5, <1>6, <1>7, <1>8

\* UpdateParam adds the parameter or nothing: the changes of a plan stay distinct.
LEMMA ChangesDistinct ==
  ASSUME NEW s, NEW ls, NEW params \in Plans, Distinct(params)
  PROVE  Distinct(UpdateParams(s, ls, params).changes)
<1>a. params \in Seq(ParamRow) /\ Len(params) <= 2
  BY DEF Plans
<1>b. Len(params) \in Nat
  BY <1>a, LenProperties
<1>c. \A m \in Nat : m <= 2 => m \in 0 .. 2
  OBVIOUS
<1>1. Len(params) \in 0 .. 2
  BY <1>a, <1>b, <1>c, Zenon
<1>2. Distinct(<<>>)
  <2>1. Len(<<>>) = 0
    OBVIOUS
  <2>2. 1 .. 0 = {}
    OBVIOUS
  <2> QED
    BY <2>1, <2>2 DEF Distinct
<1>3. \A a : Distinct(<<a>>)
  BY DEF Distinct
<1>4. \A a, b : a.key # b.key => Distinct(<<a, b>>)
  <2> SUFFICES ASSUME NEW a, NEW b, a.key # b.key PROVE Distinct(<<a, b>>)
    OBVIOUS
  <2>1. Len(<<a, b>>) = 2 /\ <<a, b>>[1] = a /\ <<a, b>>[2] = b /\ \A n \in 1 .. 2 : n = 1 \/ n = 2
    OBVIOUS
  <2> HIDE DEF Distinct
  <2> QED
    BY <2>1 DEF Distinct
<1>5. Untouched(ls).changes = <<>>
  BY DEF Untouched
<1>6. Once(s, ls, params).changes \in {<<>>, <<params[1]>>}
  <2>1. Once(s, ls, params).changes \in {<<>>, Append(<<>>, params[1])}
    BY <1>5 DEF Once, UpdateParam
  <2> QED
    BY <2>1
<1>7. Twice(s, ls, params).changes
        \in {<<>>, <<params[1]>>, <<params[2]>>, <<params[1], params[2]>>}
  <2> DEFINE o == Once(s, ls, params).changes
  <2>1. Twice(s, ls, params).changes \in {o, Append(o, params[2])}
    BY DEF Twice, UpdateParam
  <2>2. CASE o = <<>>
    BY <2>1, <2>2
  <2>3. CASE o = <<params[1]>>
    BY <2>1, <2>3
  <2> HIDE DEF o
  <2> QED
    BY <1>6, <2>2, <2>3 DEF o
<1>8. CASE Len(params) = 0
  BY <1>1, <1>2, <1>5, <1>8, UpdateParamsUnrolled
<1>9. CASE Len(params) = 1
  <2>1. UpdateParams(s, ls, params) = Once(s, ls, params)
    BY <1>1, <1>9, UpdateParamsUnrolled
  <2> QED
    BY <1>2, <1>3, <1>6, <2>1, Zenon
<1>10. CASE Len(params) = 2
  <2>1. UpdateParams(s, ls, params) = Twice(s, ls, params)
    BY <1>1, <1>10, UpdateParamsUnrolled
  <2>2. 1 \in 1 .. Len(params) /\ 2 \in 1 .. Len(params) /\ 1 # 2
    BY <1>10
  <2>3. params[1].key # params[2].key
    BY <2>2 DEF Distinct
  <2>4. Distinct(<<params[1], params[2]>>)
    BY <1>4, <2>3
  <2> QED
    BY <1>2, <1>3, <1>7, <2>1, <2>4, Zenon
<1>11. Len(params) = 0 \/ Len(params) = 1 \/ Len(params) = 2
  BY <1>1
<1> QED
  BY <1>8, <1>9, <1>10, <1>11

-----------------------------------------------------------------------------
(* What a run writes is what it has edited.                                *)

AsEdited(r) ==
  /\ Distinct(r.changes)
  /\ r.pc = "write" => r.new = UpdateParams(r.s, r.read, r.changes).lines

EInv == \A p \in Runs : AsEdited(run[p])

LEMMA ParamsDistinct ==
  ASSUME NEW s, NEW rule, NEW ls
  PROVE  Distinct(Params(s, rule, ls))
<1>1. Distinct(<<>>)
  <2>1. Len(<<>>) = 0 /\ 1 .. 0 = {}
    OBVIOUS
  <2> QED
    BY <2>1 DEF Distinct
<1>2. \A a : Distinct(<<a>>)
  BY DEF Distinct
<1> DEFINE a == Param("smtpd_tls_protocols", Modern)
           b == Param("smtpd_tls_mandatory_protocols", Modern)
<1>3. a.key # b.key
  BY DEF Param
<1> HIDE DEF a, b
<1>4. Distinct(<<a, b>>)
  <2>1. Len(<<a, b>>) = 2 /\ <<a, b>>[1] = a /\ <<a, b>>[2] = b /\ \A n \in 1 .. 2 : n = 1 \/ n = 2
    OBVIOUS
  <2> QED
    BY <1>3, <2>1 DEF Distinct
<1> DEFINE c == <<Param("smtpd_tls_security_level", <<"may">>)>>
           d == <<Param("ssl_min_protocol", <<"TLSv1.2">>)>>
<1>5. Distinct(c) /\ Distinct(d)
  BY <1>2, Zenon
<1>6. Params(s, rule, ls) \in {<<>>, <<a, b>>, c, d}
  BY DEF Params, PostfixParams, DovecotParams, a, b
<1> HIDE DEF c, d
<1> QED
  BY <1>1, <1>4, <1>5, <1>6, Zenon

\* A step of run p that plans nothing and edits nothing.
PlansNothing(p) == run'[p].changes = run[p].changes /\ run'[p].pc # "write"

LEMMA RowStep ==
  ASSUME EInv, Shape, NEW p \in Runs, NEW x, run' = [run EXCEPT ![p] = x], AsEdited(x)
  PROVE  EInv'
<1>1. run'[p] = x /\ \A q \in Runs \ {p} : run'[q] = run[q]
  BY DEF Shape
<1>2. \A q \in Runs : AsEdited(run'[q])
  BY <1>1 DEF EInv
<1> QED
  BY <1>2 DEF EInv

LEMMA QuietEdits ==
  ASSUME EInv, Shape, NEW p \in Runs, NEW x, run' = [run EXCEPT ![p] = x],
         x.changes = run[p].changes, x.pc # "write"
  PROVE  EInv'
<1>1. AsEdited(run[p])
  BY DEF EInv
<1>2. AsEdited(x)
  BY <1>1 DEF AsEdited
<1> QED
  BY <1>2, RowStep

LEMMA GotoEdits ==
  ASSUME EInv, Shape, NEW p \in Runs, NEW pc, NEW how, pc # "write",
         Goto(p, pc) \/ run' = [run EXCEPT ![p].pc = pc, ![p].end = how]
  PROVE  EInv'
<1>0. run[p] \in RunRow
  BY DEF Shape
<1>1. CASE Goto(p, pc)
  <2> DEFINE x == [run[p] EXCEPT !.pc = pc]
  <2>1. x.pc = pc /\ x.changes = run[p].changes
    BY <1>0 DEF RunRow
  <2>2. run' = [run EXCEPT ![p] = x]
    BY <1>1 DEF Goto
  <2> HIDE DEF x
  <2> QED
    BY <2>1, <2>2, QuietEdits
<1>2. CASE run' = [run EXCEPT ![p].pc = pc, ![p].end = how]
  <2> DEFINE x == [run[p] EXCEPT !.pc = pc, !.end = how]
  <2>1. x.pc = pc /\ x.changes = run[p].changes
    BY <1>0 DEF RunRow
  <2>2. run' = [run EXCEPT ![p] = x]
    BY <1>2
  <2> HIDE DEF x
  <2> QED
    BY <2>1, <2>2, QuietEdits
<1> QED
  BY <1>1, <1>2

LEMMA PlanEdits ==
  ASSUME IInv, EInv, NEW p \in Runs, Plan(p)
  PROVE  EInv'
<1>0. Shape
  BY DEF IInv
<1>1. PICK req \in Requests :
        LET s == Adapter(req)
            path == IF req.path = "default" THEN s ELSE req.path
            params == Params(s, req.rule, file[path])
            ask == [Idle EXCEPT !.req = req, !.s = s, !.path = path]
            ended(how) == [ask EXCEPT !.pc = "ended", !.end = how]
        IN run' = [run EXCEPT ![p] =
            IF file[path] = Missing THEN ended("failed")
            ELSE IF params = <<>> THEN ended("guided")
            ELSE IF req.planOnly THEN ended("shown")
            ELSE [ask EXCEPT !.pc = IF req.yes THEN "backup" ELSE "confirm",
                             !.changes = UpdateParams(s, file[path], params).changes]]
  BY DEF Plan
<1> DEFINE s      == Adapter(req)
           path   == IF req.path = "default" THEN s ELSE req.path
           params == Params(s, req.rule, file[path])
           ask    == [Idle EXCEPT !.req = req, !.s = s, !.path = path]
           done   == UpdateParams(s, file[path], params).changes
           ended(how) == [ask EXCEPT !.pc = "ended", !.end = how]
           goes   == [ask EXCEPT !.pc = IF req.yes THEN "backup" ELSE "confirm", !.changes = done]
           x      == IF file[path] = Missing THEN ended("failed")
                     ELSE IF params = <<>> THEN ended("guided")
                     ELSE IF req.planOnly THEN ended("shown") ELSE goes
<1>2. run' = [run EXCEPT ![p] = x]
  BY <1>1
<1>3. Distinct(<<>>)
  <2>1. Len(<<>>) = 0 /\ 1 .. 0 = {}
    OBVIOUS
  <2> QED
    BY <2>1 DEF Distinct
<1>4. Distinct(done)
  BY ParamsDistinct, ParamsPlanned, ChangesDistinct
<1> HIDE DEF s, path, params, done
<1>5. \A how : ended(how).changes = <<>> /\ ended(how).pc = "ended"
  BY DEF Idle
<1>6. goes.changes = done /\ goes.pc \in {"backup", "confirm"}
  BY DEF Idle
<1>7. x \in {ended("failed"), ended("guided"), ended("shown"), goes}
  OBVIOUS
<1> HIDE DEF ended, goes, x
<1>8. AsEdited(x)
  <2>1. \A how : AsEdited(ended(how))
    BY <1>3, <1>5 DEF AsEdited
  <2>2. AsEdited(goes)
    BY <1>4, <1>6 DEF AsEdited
  <2> QED
    BY <1>7, <2>1, <2>2, Zenon
<1> QED
  BY <1>0, <1>2, <1>8, RowStep

LEMMA ReadEdits ==
  ASSUME IInv, EInv, NEW p \in Runs, ReadConfig(p)
  PROVE  EInv'
<1>0. Shape /\ run[p] \in RunRow
  BY DEF IInv, Shape
<1> DEFINE r   == run[p]
           ls  == file[r.path]
           new == UpdateParams(r.s, ls, r.changes).lines
           x   == [r EXCEPT !.pc = "write", !.read = ls, !.new = new]
<1>1. run' = [run EXCEPT ![p] = x]
  BY DEF ReadConfig
<1>2. Distinct(r.changes)
  BY DEF EInv, AsEdited
<1> HIDE DEF new, ls
<1>3. x.changes = r.changes /\ x.s = r.s /\ x.read = ls /\ x.new = new
  BY <1>0 DEF RunRow
<1> HIDE DEF x
<1>4. x.new = UpdateParams(x.s, x.read, x.changes).lines
  BY <1>3 DEF new
<1>5. AsEdited(x)
  BY <1>2, <1>3, <1>4 DEF AsEdited
<1> QED
  BY <1>0, <1>1, <1>5, RowStep

LEMMA OtherEdits ==
  ASSUME IInv, EInv, NEW p \in Runs,
         \/ Confirm(p) \/ ManualRollback(p) \/ CreateBackup(p) \/ AtomicWrite(p) \/ WriteFails(p)
         \/ SyncToContainer(p) \/ ValidateConfig(p) \/ Restore(p) \/ Fill(p) \/ RestoreFails(p)
         \/ ReloadService(p) \/ PrimaryProbe(p) \/ Challenge(p) \/ Conclude(p) \/ Crash(p)
  PROVE  EInv'
<1>0. Shape /\ run[p] \in RunRow
  BY DEF IInv, Shape
<1>g. ASSUME NEW pc, pc # "write", Goto(p, pc) PROVE EInv'
  BY <1>0, <1>g, GotoEdits
<1>e. ASSUME NEW pc, NEW how, pc # "write", run' = [run EXCEPT ![p].pc = pc, ![p].end = how]
      PROVE  EInv'
  BY <1>0, <1>e, GotoEdits
<1>x. ASSUME NEW x, run' = [run EXCEPT ![p] = x], x.changes = run[p].changes, x.pc # "write"
      PROVE  EInv'
  BY <1>0, <1>x, QuietEdits
<1>1. CASE Confirm(p)
  BY <1>1, <1>g, <1>e DEF Confirm, End
<1>2. CASE ManualRollback(p)
  <2>1. PICK b \in 1 .. Len(backups) :
          run' = [run EXCEPT ![p] = [Idle EXCEPT !.pc = "restore", !.end = "restored", !.backup = b,
                                               !.s = backups[b].path, !.path = backups[b].path]]
    BY <1>2 DEF ManualRollback
  <2> DEFINE x == [Idle EXCEPT !.pc = "restore", !.end = "restored", !.backup = b,
                               !.s = backups[b].path, !.path = backups[b].path]
  <2>2. x.changes = <<>> /\ x.pc = "restore"
    BY DEF Idle
  <2>3. Len(<<>>) = 0 /\ 1 .. 0 = {}
    OBVIOUS
  <2>4. Distinct(<<>>)
    BY <2>3 DEF Distinct
  <2>5. run' = [run EXCEPT ![p] = x]
    BY <2>1
  <2> HIDE DEF x
  <2>6. AsEdited(x)
    BY <2>2, <2>4 DEF AsEdited
  <2> QED
    BY <1>0, <2>5, <2>6, RowStep
<1>3. CASE CreateBackup(p)
  <2>1. PICK n : run' = [run EXCEPT ![p].pc = "read", ![p].backup = n]
    BY <1>3 DEF CreateBackup
  <2> DEFINE x == [run[p] EXCEPT !.pc = "read", !.backup = n]
  <2>2. run' = [run EXCEPT ![p] = x]
    BY <2>1
  <2>3. x.changes = run[p].changes /\ x.pc = "read"
    BY <1>0 DEF RunRow
  <2> HIDE DEF x
  <2> QED
    BY <1>x, <2>2, <2>3
<1>4. CASE AtomicWrite(p)
  BY <1>4, <1>g DEF AtomicWrite
<1>5. CASE WriteFails(p)
  BY <1>5, <1>e DEF WriteFails
<1>6. CASE SyncToContainer(p)
  <2>1. PICK pc \in {"validate", "reload"} : Goto(p, pc)
    BY <1>6 DEF SyncToContainer
  <2> QED
    BY <1>g, <2>1
<1>7. CASE ValidateConfig(p)
  BY <1>7, <1>g, <1>e DEF ValidateConfig
<1>8. CASE Restore(p)
  <2> DEFINE x == [run[p] EXCEPT !.pc = "fill", !.opened = TRUE]
  <2>2. run' = [run EXCEPT ![p] = x]
    BY <1>8 DEF Restore
  <2>3. x.changes = run[p].changes /\ x.pc = "fill"
    BY <1>0 DEF RunRow
  <2> HIDE DEF x
  <2> QED
    BY <1>x, <2>2, <2>3
<1>9. CASE Fill(p)
  <2>1. PICK pc \in {"ended", "copy", "reload"} : Goto(p, pc)
    BY <1>9 DEF Fill
  <2> QED
    BY <1>g, <2>1
<1>10. CASE RestoreFails(p)
  <2>1. PICK how : run' = [run EXCEPT ![p].pc = "ended", ![p].end = how]
    BY <1>10 DEF RestoreFails
  <2> QED
    BY <1>e, <2>1
<1>11. CASE ReloadService(p)
  <2>1. PICK pc \in {"probe", "ended"} : Goto(p, pc)
    BY <1>11 DEF ReloadService
  <2> QED
    BY <1>g, <2>1
<1>12. CASE PrimaryProbe(p)
  <2>1. PICK pc \in {"challenge", "verdict"}, v \in {"up", "plain", "silent"} :
          run' = [run EXCEPT ![p].pc = pc, ![p].verdict = v]
    BY <1>12 DEF PrimaryProbe
  <2> DEFINE x == [run[p] EXCEPT !.pc = pc, !.verdict = v]
  <2>2. run' = [run EXCEPT ![p] = x]
    BY <2>1
  <2>3. x.changes = run[p].changes /\ x.pc = pc
    BY <1>0 DEF RunRow
  <2> HIDE DEF x
  <2> QED
    BY <1>x, <2>2, <2>3
<1>13. CASE Challenge(p)
  <2>1. PICK answer : run' = [run EXCEPT ![p].heard = Append(@, answer),
                           ![p].pc = IF Len(run[p].heard) = 1 THEN "verdict" ELSE "challenge"]
    BY <1>13 DEF Challenge
  <2> DEFINE x == [run[p] EXCEPT !.heard = Append(@, answer),
                                 !.pc = IF Len(run[p].heard) = 1 THEN "verdict" ELSE "challenge"]
  <2>2. run' = [run EXCEPT ![p] = x]
    BY <2>1
  <2>3. x.changes = run[p].changes /\ x.pc # "write"
    BY <1>0 DEF RunRow
  <2> HIDE DEF x
  <2> QED
    BY <1>x, <2>2, <2>3
<1>14. CASE Conclude(p)
  <2>1. PICK v : run' = [run EXCEPT ![p].pc = "ended", ![p].end = "done", ![p].verdict = v]
    BY <1>14 DEF Conclude
  <2> DEFINE x == [run[p] EXCEPT !.pc = "ended", !.end = "done", !.verdict = v]
  <2>2. run' = [run EXCEPT ![p] = x]
    BY <2>1
  <2>3. x.changes = run[p].changes /\ x.pc = "ended"
    BY <1>0 DEF RunRow
  <2> HIDE DEF x
  <2> QED
    BY <1>x, <2>2, <2>3
<1>15. CASE Crash(p)
  BY <1>15, <1>e DEF Crash
<1> QED
  BY <1>1, <1>2, <1>3, <1>4, <1>5, <1>6, <1>7, <1>8, <1>9, <1>10, <1>11, <1>12, <1>13, <1>14, <1>15

LEMMA EditsNext == IInv /\ EInv /\ [Next]_vars => EInv'
<1> SUFFICES ASSUME IInv, EInv, [Next]_vars PROVE EInv'
  OBVIOUS
<1>1. CASE UNCHANGED vars
  BY <1>1 DEF EInv, vars
<1>2. ASSUME NEW p \in Runs, Plan(p) \/ Confirm(p) \/ ManualRollback(p) \/ Step(p) \/ Crash(p)
      PROVE  EInv'
  BY <1>2, PlanEdits, ReadEdits, OtherEdits DEF Step
<1>3. ASSUME NEW s \in Services, Edit(s) PROVE EInv'
  BY <1>3 DEF Edit, EInv
<1> QED
  BY <1>1, <1>2, <1>3 DEF Next

LEMMA EditsInit == Init => EInv
<1> SUFFICES ASSUME Init, NEW p \in Runs PROVE AsEdited(run[p])
  BY DEF EInv
<1>1. run[p].changes = <<>> /\ run[p].pc = "idle"
  BY DEF Init, Idle
<1>2. Len(<<>>) = 0 /\ 1 .. 0 = {}
  OBVIOUS
<1>3. Distinct(<<>>)
  BY <1>2 DEF Distinct
<1> QED
  BY <1>1, <1>3 DEF AsEdited

LEMMA PlannedWritten == IInv /\ EInv => WrittenAsPlanned
<1> SUFFICES ASSUME IInv, EInv, NEW p \in Runs, At(p, "write"),
                    ~Misread(run[p].s, run[p].read, {c.key : c \in ToSet(run[p].changes)})
             PROVE  LET r == run[p]
                        keys == {c.key : c \in ToSet(r.changes)}
                    IN /\ \A c \in ToSet(r.changes) :
                            Already(r.s, r.read, c) \/ Value(r.s, r.new, FirstAt(r.new, c.key)) = c.value
                       /\ \A key \in {l.key : l \in ToSet(r.read)} \ keys :
                            Effective(r.s, r.new, key) = Effective(r.s, r.read, key)
                       /\ \A l \in ToSet(r.read) :
                            (r.s = "postfix" /\ l.indent) \/ Names(l, keys) \/ l \in ToSet(r.new)
  BY DEF WrittenAsPlanned
<1> DEFINE r == run[p]
           cs == ToSet(r.changes)
           keys == {c.key : c \in cs}
<1>1. r \in RunRow
  BY DEF IInv, Shape
<1>2. r.s \in Services /\ r.read \in Files /\ r.changes \in Plans
  BY <1>1 DEF RunRow
<1>3. Distinct(r.changes) /\ r.new = UpdateParams(r.s, r.read, r.changes).lines
  BY DEF EInv, AsEdited, At
<1>4. ~Misread(r.s, r.read, keys)
  OBVIOUS
<1> HIDE DEF r
<1>5. DOMAIN r.read = 1 .. Len(r.read)
  BY <1>2, LenProperties DEF Files
<1>6. ASSUME NEW c \in cs PROVE FlushLeft(r.s, r.read, c.key)
  <2> SUFFICES ASSUME r.s = "postfix", NEW m \in 1 .. Len(r.read), Assigns(r.read[m], c.key),
                      r.read[m].indent
               PROVE  FALSE
    BY DEF FlushLeft
  <2>1. r.read[m] \in ToSet(r.read)
    BY <1>5 DEF ToSet
  <2>2. Names(r.read[m], keys)
    BY DEF Names, Assigns
  <2> QED
    BY <1>4, <2>1, <2>2 DEF Misread
<1>7. Planned(r.s, r.read, r.new, cs)
  BY <1>2, <1>3, <1>6, EditsPlanned
<1> HIDE DEF cs
<1>8. \A c \in cs : Already(r.s, r.read, c) \/ Value(r.s, r.new, FirstAt(r.new, c.key)) = c.value
  BY <1>7 DEF Planned, Given
<1>9. \A key : key \notin keys => Effective(r.s, r.new, key) = Effective(r.s, r.read, key)
  BY <1>7 DEF Planned
<1>10. \A l \in ToSet(r.read) : (r.s = "postfix" /\ l.indent) \/ Names(l, keys) \/ l \in ToSet(r.new)
  <2> SUFFICES ASSUME NEW l \in ToSet(r.read)
               PROVE  (r.s = "postfix" /\ l.indent) \/ Names(l, keys) \/ l \in ToSet(r.new)
    OBVIOUS
  <2>1. \A c \in cs : Assigns(l, c.key) => Names(l, keys)
    BY DEF Assigns, Names
  <2> QED
    BY <1>7, <2>1, Zenon DEF Planned
<1> QED
  BY <1>8, <1>9, <1>10, Zenon DEF r, cs

\* update_params (apps/cli/src/fix/postfix.rs, dovecot.rs): whatever the administrator,
\* other runs and crashes did to the file since the plan, what a run is about to write
\* has every planned value where the file first names it, leaves the value of every
\* other parameter as the service reads it, and keeps every line but those that name
\* or continue a planned parameter, apart from the two cases that WrittenAsPlanned names.
THEOREM AsPlanned == Spec => []WrittenAsPlanned
<1>1. Spec => []EInv
  BY IInvAlways, EditsInit, EditsNext, PTL DEF Spec
<1>2. IInv /\ EInv => WrittenAsPlanned
  BY PlannedWritten
<1> QED
  BY <1>1, <1>2, IInvAlways, PTL
=============================================================================
