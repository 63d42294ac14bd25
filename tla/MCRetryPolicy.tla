--------------------------- MODULE MCRetryPolicy ---------------------------
(***************************************************************************)
(* The rules the SDKs share and each writes down again, put one case after *)
(* the other: every API error over small sets of statuses, codes, domains  *)
(* and reasons to the retry decisions, every retry configuration, attempt  *)
(* and Retry-After to the waits, and every append and query answer to the  *)
(* checks.                                                                 *)
(***************************************************************************)
EXTENDS RetryPolicy, RetryDelay, TableChecks

VARIABLES
  error,   \* the error being judged
  wait,    \* the wait being computed
  append,  \* the append being checked, with its receipt
  answer   \* the answer of a query being checked

Statuses == {400, 503}

Codes == {Absent, "unavailable", "resource_exhausted", "deadline_exceeded",
          "already_exists", "failed_precondition", "invalid_argument"}

Domains == {Absent, Empty, KnownDomain, "future.example"}

Reasons == {Absent, Empty, "FUTURE_REASON"} \cup KnownReasons

\* Without an ErrorInfo there is neither a domain nor a reason.
Errors ==
  [status : Statuses, code : Codes, info : {FALSE},
   domain : {Absent}, reason : {Absent}]
    \cup
  [status : Statuses, code : Codes, info : {TRUE},
   domain : Domains, reason : Reasons]

\* Seconds up to the limits of a Duration and of a uint64, then more than a
\* float holds; numbers with a fraction or a sign, which Date.parse may take for
\* a date; dates that some of the libraries read, in one way or another.
Past == -5 * Second
SecondAndAHalf == 1500 * Millisecond
Dates == {Nothing, Past, 40 * Second, 55 * Second}
Seconds ==
  {[digits |-> n, number |-> TRUE, float |-> IF n < 75 THEN Second * n ELSE Nothing,
    jsDate |-> Nothing, goDate |-> Nothing, pyDate |-> Nothing] : n \in {0, 1, 40, 55, 65, 75}}
Fractions ==
  [digits : {Nothing}, number : {TRUE}, float : {Nothing, Past, SecondAndAHalf},
   jsDate : {Nothing, Past, 55 * Second}, goDate : {Nothing}, pyDate : {Nothing}]
OtherTexts ==
  [digits : {Nothing}, number : {FALSE}, float : {Nothing},
   jsDate : Dates, goDate : Dates, pyDate : Dates]
Headers == Seconds \cup Fractions \cup OtherTexts

Waits ==
  [config : [initial : {0, 700, 100 * Millisecond, 300 * Millisecond},
             maximum : {0, 700, 2 * Second, 6 * Second}, jitter : {0, 2, 10}],
   attempt : 1..4,
   half : 0..2,
   header : Headers]

\* An append of JSON rows or of Arrow bytes, which hold one row; the tables
\* client fills one of the two.
Appends ==
  {a \in [client : {"tables", "ingest"}, rows : NoField..MaxRows + 1, arrow : NoField..MaxArrow + 1,
          receipt : [accepted : -1..2, errors : {{}, {0}, {1}}]] :
     a.client = "tables" => (a.rows = NoField) # (a.arrow = NoField)}

Answers ==
  [state : {"", "RUNNING", "SUCCEEDED", "FAILED"}, name : {"", "wellFormed", "malformed"},
   rows : 0..1, token : {"", "token", "tooLong"}]

\* One rule is asked at a time, the others rest at some case of theirs.
Some(S) == CHOOSE x \in S : TRUE
Rest == <<Some(Errors), Some(Waits), Some(Appends), Some(Answers)>>
Cases ==
  {[Rest EXCEPT ![1] = e] : e \in Errors} \cup {[Rest EXCEPT ![2] = w] : w \in Waits}
    \cup {[Rest EXCEPT ![3] = a] : a \in Appends} \cup {[Rest EXCEPT ![4] = a] : a \in Answers}

vars == <<error, wait, append, answer>>

Init == error = Rest[1] /\ wait = Rest[2] /\ append = Rest[3] /\ answer = Rest[4]
Ask == vars = Rest /\ \E c \in Cases :
  error' = c[1] /\ wait' = c[2] /\ append' = c[3] /\ answer' = c[4]
Answered ==
  /\ vars # Rest
  /\ error' = Rest[1] /\ wait' = Rest[2] /\ append' = Rest[3] /\ answer' = Rest[4]
Next == Ask \/ Answered
Spec == Init /\ [][Next]_vars

-----------------------------------------------------------------------------
\* The decisions of the three SDKs, for an operation that is safe to repeat.
Verdicts(e) ==
  <<IsRetryableConnectError(e, TRUE), GoRetryable(e, TRUE), PyIsRetryable(e, TRUE)>>

\* The reasons a bounded retry may follow, each with the code it comes with.
TransientReasons ==
  { <<"AUTHORIZATION_DEPENDENCY_UNAVAILABLE", "unavailable">>,
    <<"BACKPRESSURE", "resource_exhausted">>,
    <<"INTEGRATION_UNAVAILABLE", "unavailable">> }

\* Whatever the reason a server gives, known, unknown or of another domain,
\* the TypeScript, Go and Python SDKs take the same decision.
ReasonsDecideAlike ==
  error.reason \notin {Absent, Empty} =>
    Verdicts(error)[1] = Verdicts(error)[2] /\ Verdicts(error)[2] = Verdicts(error)[3]

\* A reason is never overruled by a transient-looking code or HTTP status: no
\* SDK repeats a call that was refused with a reason unless it is a transient
\* one of this domain, under its own code.
ReasonIsNeverOverruled ==
  /\ error.reason \notin {Absent, Empty}
  /\ \E sdk \in 1..3 : Verdicts(error)[sdk]
  => error.domain = KnownDomain /\ <<error.reason, error.code>> \in TransientReasons

\* "Uses conservative Connect and HTTP fallbacks only without ErrorInfo", and
\* "only a registry entry in the expected domain can authorize an automatic
\* retry": where there is an ErrorInfo, its registry entry decides.
FallbackOnlyWithoutErrorInfo ==
  error.info /\ error.domain \notin {Absent, Empty} /\ IsRetryableConnectError(error, TRUE)
    => error.domain = KnownDomain /\ error.reason \in KnownReasons

-----------------------------------------------------------------------------
\* "Retry-After is a server minimum [...] never retry earlier than requested":
\* of a Retry-After in one of HTTP's two forms, each SDK waits exactly what it
\* asks for, however the SDK reads it.  There are two differences, both far from
\* any wait that fits a deadline: Go waits no longer than its longest Duration,
\* and where the seconds are more than a uint64 or a float can hold Go or Python
\* backs off.  A text that an SDK cannot read leaves it on the schedule, "the
\* retry backoff (initialDelayMs doubling to maxDelayMs, with jitter)", but for
\* the half millisecond of TypeScript's rounding.  A number with a fraction or a
\* sign is nothing to Go and a wait to Python, if it is not negative; whether
\* TypeScript reads a date in it is up to Date.parse.  A query's first poll waits
\* as long as a first retry, its second poll as a second retry, each 30 s at most.
WaitsFollowSchedule ==
  LET c == wait.config
      n == wait.attempt
      h == wait.header
      given == GoDefaults(c)
      standard == IsSeconds(h) \/ IsDate(h)
      fraction == h.number /\ ~IsSeconds(h)
      ts == TsDelay(c, n, wait.half, h)
      go == GoDelay(c, n, wait.half, h)
      py == PyDelay(c, n, wait.half, h)
  IN  /\ NormalizeRetry(c) =>
           /\ ts >= 0 /\ py >= 0
           /\ IF standard THEN ts = AskedFor(h)
              ELSE h.jsDate = Nothing => OnSchedule(ts, c, n, HalfMillisecond)
           /\ IF standard /\ ~(h.number /\ h.float = Nothing) THEN py = AskedFor(h)
              ELSE h.number \/ h.pyDate = Nothing =>
                     \/ OnSchedule(py, c, n, 0)
                     \/ fraction /\ py = h.float
           /\ TsPollDelay(c, n - 1, wait.half, h) = Least(MaxPollDelay, ts)
           /\ PyPollDelay(c, n - 1, wait.half, h) = Least(MaxPollDelay, py)
      /\ GoNormalizeRetry(c) =>
           /\ go >= 0
           /\ IF standard /\ ~(IsSeconds(h) /\ h.digits > MaxUint64)
              THEN go = Least(LongestDuration, AskedFor(h))
              ELSE fraction \/ h.goDate = Nothing => OnSchedule(go, given, n, 0)

\* TypeScript and Python take the same appends and believe the same receipts,
\* and an append that is taken can be confirmed: a receipt that accepts no more
\* rows than were sent, with errors about rows among them, is never refused.
\* The only differences are known: TypeScript compares the size of base64 text,
\* padding included, with the limit on Arrow bytes, and refuses a batch of
\* exactly that limit; it refuses a negative count, which Python believes; and
\* its low-level append counts an empty list of rows beside Arrow bytes as no
\* rows sent, and refuses every receipt of a row.
AppendsAgree ==
  LET a == append
      r == append.receipt
      atTheLimit == ~HasRows(a) /\ a.arrow = MaxArrow
      emptyBeside == a.client = "ingest" /\ a.rows = 0 /\ HasArrow(a)
      sent == IF HasRows(a) THEN a.rows ELSE 1
      honest == r.accepted \in 0..sent /\ \A k \in r.errors : k < sent
  IN  /\ TsAppends(a) <=> PyAppends(a) /\ ~atTheLimit
      /\ TsAppends(a) /\ ~emptyBeside =>
           (TsReceipt(r, TsSubmitted(a)) <=>
              r.accepted >= 0 /\ PyReceipt(r, PySubmitted(a)))
      /\ honest /\ PyAppends(a) => PyReceipt(r, PySubmitted(a))
      /\ honest /\ TsAppends(a) /\ ~emptyBeside => TsReceipt(r, TsSubmitted(a))

\* An answer that is accepted can be followed up: the poll of a running query
\* and the next page of a finished one pass the check of their own requests,
\* so that a query never fails in the client after the server has taken it.
FollowUpIsSound ==
  ValidateQueryResponse(answer) =>
    \A followUp \in FollowUps(answer) : PreflightGetQueryResults(followUp[1], followUp[2])
=============================================================================
