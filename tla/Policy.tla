------------------------------- MODULE Policy -------------------------------
(***************************************************************************)
(* The rotation policy: how max_age is read and rendered and how a secret  *)
(* is judged by it (domain/policy.go), how the secrets are judged together *)
(* (application/compliance.go), and what rotator status makes of it        *)
(* (cli/status.go).                                                        *)
(*                                                                         *)
(* A duration is a signed number that counts hours and wraps beyond        *)
(* MaxDuration; the code counts nanoseconds in 64 bits.  Which numbers     *)
(* wrap is therefore not the same, but that they wrap, and where in the    *)
(* sum, is.                                                                *)
(***************************************************************************)
EXTENDS Integers, Sequences, SequencesExt

CONSTANT MaxDuration             \* the largest duration; the least is one below its opposite
ASSUME DurationAssumption == MaxDuration \in Nat

\* The duration that the low bits of n stand for.
Wrap(n) ==
  LET durations == 2 * (MaxDuration + 1)
      low       == n % durations
  IN  IF low > MaxDuration THEN low - durations ELSE low

\* The terms added up, in numbers that do not wrap and in durations.
Sum(terms) ==
  LET sum[i \in 0..Len(terms)] == IF i = 0 THEN 0 ELSE sum[i - 1] + terms[i]
  IN  sum[Len(terms)]

WrappedSum(terms) ==
  LET sum[i \in 0..Len(terms)] ==
        IF i = 0 THEN 0 ELSE Wrap(sum[i - 1] + Wrap(terms[i]))
  IN  sum[Len(terms)]

-----------------------------------------------------------------------------
(* A max_age is written as a sequence of groups [number, unit], such as    *)
(* 90d12h.  consumeExtendedUnits takes the leading groups in days and      *)
(* weeks and leaves the others to time.ParseDuration, which is external:   *)
(* it knows hours, and refuses what does not fit in a duration.            *)

UnitsInHours == [h |-> 1, d |-> 24, w |-> 168]
Hours(groups) == [i \in DOMAIN groups |-> groups[i].number * UnitsInHours[groups[i].unit]]
ExtendedUnits == {"d", "w"}

NoMaxAge == 0

ExtendedOnce(groups) ==
  IF groups # <<>> /\ groups[1].unit \in ExtendedUnits THEN 1 ELSE 0

Extended(groups) ==
  IF \A i \in DOMAIN groups : groups[i].unit \in ExtendedUnits
    THEN Len(groups)
    ELSE (CHOOSE i \in DOMAIN groups :
            /\ groups[i].unit \notin ExtendedUnits
            /\ \A j \in 1..i - 1 : groups[j].unit \in ExtendedUnits) - 1

ConsumeExtendedUnits(groups) ==
  LET leading == SubSeq(groups, 1, Extended(groups))
  IN  [readable  |-> \A i \in DOMAIN leading : leading[i].number <= MaxDuration,
       total     |-> WrappedSum(Hours(leading)),
       remainder |-> SubSeq(groups, Extended(groups) + 1, Len(groups))]

ParseDuration(groups) ==
  LET sum == Sum([i \in DOMAIN groups |-> groups[i].number])
  IN  [readable |-> /\ \A i \in DOMAIN groups : groups[i].unit = "h"
                    /\ sum <= MaxDuration,
       hours    |-> sum]

Rejected == [ok |-> FALSE, age |-> NoMaxAge]
Accepted(age) == [ok |-> TRUE, age |-> age]

ParseMaxAge(groups) ==
  LET leading == ConsumeExtendedUnits(groups)
      rest    == ParseDuration(leading.remainder)
      total   == Wrap(leading.total + rest.hours)
  IN  CASE groups = <<>> -> Accepted(NoMaxAge)
        [] groups # <<>> /\ leading.readable /\ rest.readable /\ total > 0 ->
             Accepted(total)
        [] OTHER -> Rejected

IsSet(age) == age > 0

\* String, for an age that is set: the largest whole unit that fits.
Render(age) ==
  CASE age % UnitsInHours["w"] = 0 ->
         <<[number |-> age \div UnitsInHours["w"], unit |-> "w"]>>
    [] age % UnitsInHours["w"] # 0 /\ age % UnitsInHours["d"] = 0 ->
         <<[number |-> age \div UnitsInHours["d"], unit |-> "d"]>>
    [] OTHER -> <<[number |-> age, unit |-> "h"]>>

-----------------------------------------------------------------------------
(* What the history answers about a secret: an error, no success on        *)
(* record, or the time of the last one.                                    *)

Unreadable == [kind |-> "error"]
NeverRotated == [kind |-> "none"]
RotatedAt(time) == [kind |-> "success", time |-> time]

\* Evaluate: a success in the future counts as one just now.
Evaluate(maxAge, hasRotated, lastRotated, historyReadable, now) ==
  LET age == IF hasRotated /\ now > lastRotated THEN now - lastRotated ELSE 0
      compliance ==
        CASE ~ IsSet(maxAge)                   -> "no policy"
          [] IsSet(maxAge) /\ ~ historyReadable -> "unknown"
          [] IsSet(maxAge) /\ historyReadable /\ ~ hasRotated -> "never rotated"
          [] IsSet(maxAge) /\ historyReadable /\ hasRotated ->
               IF age > maxAge THEN "overdue" ELSE "ok"
  IN  [compliance |-> compliance,
       overdueBy  |-> IF compliance = "overdue" THEN age - maxAge ELSE 0]

NeedsAttentionIfKnown(standing) ==
  standing.compliance \in {"overdue", "never rotated"}

NeedsAttention(standing) ==
  standing.compliance \in {"overdue", "never rotated", "unknown"}

DueForRotationOrUnknown(standing) ==
  standing.compliance \in {"overdue", "never rotated", "unknown"}

DueForRotation(standing) ==
  standing.compliance \in {"overdue", "never rotated"}

(* CheckCompliance.Execute.  maxAge and answers give, for each secret, its *)
(* policy and what LastSuccess answers; hasHistory says whether there is a *)
(* history to ask.                                                         *)
Report(maxAge, hasHistory, answers, now) ==
  [readable  |-> hasHistory,
   standings |->
     [s \in DOMAIN maxAge |->
        LET answer  == IF hasHistory THEN answers[s] ELSE NeverRotated
            present == answer.kind = "success"
        IN  Evaluate(maxAge[s], present, IF present THEN answer.time ELSE now,
                     hasHistory /\ answer.kind # "error", now)]]

Attention(report) ==
  {s \in DOMAIN report.standings : NeedsAttention(report.standings[s])}

Due(report) ==
  {s \in DOMAIN report.standings : DueForRotation(report.standings[s])}

\* What the daemon's policy runner is given: an error, or what to rotate.
DueForDaemon(report) ==
  IF report.readable THEN [ok |-> TRUE, due |-> Due(report)]
                     ELSE [ok |-> FALSE, due |-> {}]

\* The rows of rotator status and whether it exits with ErrOverdue.
Status(report, overdueOnly) ==
  LET rows == IF overdueOnly THEN Attention(report)
                             ELSE DOMAIN report.standings
  IN  [rows |-> rows, fails |-> overdueOnly /\ rows # {}]
=============================================================================
