---------------------------- MODULE RetryPolicy ----------------------------
(***************************************************************************)
(* Which failed exchanges may be sent again.  The three SDKs each carry a  *)
(* copy of one decision: TypeScript isRetryableConnectError, Go            *)
(* APIError.Retryable and Python MedallionAPIError.is_retryable, all over  *)
(* the generated registry of ErrorInfo reasons.  An API error is a record  *)
(*                                                                         *)
(*   status   the HTTP status of the answer                                *)
(*   code     the Connect code of the JSON envelope, or Absent             *)
(*   info     whether a google.rpc.ErrorInfo detail was decoded            *)
(*   domain   its domain, Absent when the field is not on the wire         *)
(*   reason   its reason, likewise; Empty is a field present with ""       *)
(*                                                                         *)
(* Letter case and blanks are left out: all three fold case.               *)
(***************************************************************************)
EXTENDS Integers

Absent == "absent"
Empty == ""

\* The domain under which the registry's reasons count.
KnownDomain == "medallion.jimtech.io"

\* The generated registry, reduced to the columns the decision reads.
ReasonPolicy ==
  [ AUTHORIZATION_DEPENDENCY_UNAVAILABLE |->
      [grpcCode |-> "unavailable", reuseKey |-> TRUE,
       classification |-> "bounded_transient_retry"],
    BACKPRESSURE |->
      [grpcCode |-> "resource_exhausted", reuseKey |-> TRUE,
       classification |-> "bounded_transient_retry"],
    CAPABILITY_UNAVAILABLE |->
      [grpcCode |-> "failed_precondition", reuseKey |-> TRUE,
       classification |-> "retry_after_configuration_or_entitlement_change"],
    FEATURE_NOT_ENTITLED |->
      [grpcCode |-> "failed_precondition", reuseKey |-> TRUE,
       classification |-> "retry_after_configuration_or_entitlement_change"],
    IDEMPOTENCY_MISMATCH |->
      [grpcCode |-> "already_exists", reuseKey |-> FALSE,
       classification |-> "terminal"],
    INTEGRATION_UNAVAILABLE |->
      [grpcCode |-> "unavailable", reuseKey |-> TRUE,
       classification |-> "bounded_transient_retry_idempotent_operations_only"],
    WORKSPACE_SELECTOR_CONFLICT |->
      [grpcCode |-> "invalid_argument", reuseKey |-> FALSE,
       classification |-> "terminal"] ]

KnownReasons == DOMAIN ReasonPolicy

RetryableConnectCodes == {"deadline_exceeded", "resource_exhausted", "unavailable"}
RetryableHttpStatuses == {408, 429, 502, 503, 504}

AutomaticRetry == {"bounded_transient_retry",
                   "bounded_transient_retry_idempotent_operations_only"}

\* What a registered reason allows, given the code that came with it.
PolicyAllowsAnyCode(reason, code) ==
  /\ ReasonPolicy[reason].reuseKey
  /\ ReasonPolicy[reason].classification \in AutomaticRetry
PolicyAllows(reason, code) ==
  /\ code = ReasonPolicy[reason].grpcCode
  /\ ReasonPolicy[reason].reuseKey
  /\ ReasonPolicy[reason].classification \in AutomaticRetry

\* What the transport metadata alone allows: the code when there is one,
\* the HTTP status otherwise.
TransportAllows(e) ==
  IF e.code # Absent THEN e.code \in RetryableConnectCodes
                     ELSE e.status \in RetryableHttpStatuses

-----------------------------------------------------------------------------
(* The three implementations.                                              *)

\* TypeScript: a reason that is present, even "", takes the decision away
\* from the transport metadata; the domain alone does not.
IsRetryableConnectError(e, safelyIdempotent) ==
  /\ safelyIdempotent
  /\ IF e.reason # Absent
       THEN /\ e.domain = KnownDomain
            /\ e.reason \in KnownReasons
            /\ PolicyAllows(e.reason, e.code)
       ELSE TransportAllows(e)

\* Go: an absent string decodes to "", and a domain alone is enough to take
\* the decision away from the transport metadata.
GoString(field) == IF field = Absent THEN Empty ELSE field

ForeignDomainByReason(e) == GoString(e.reason) \in KnownReasons
ForeignDomain(e) == GoString(e.domain) # Empty \/ GoString(e.reason) # Empty

GoRetryable(e, safelyIdempotent) ==
  /\ safelyIdempotent
  /\ \/ /\ e.info /\ e.domain = KnownDomain /\ e.reason \in KnownReasons
        /\ PolicyAllows(e.reason, e.code)
     \/ /\ ~(e.info /\ ForeignDomain(e))
        /\ TransportAllows(e)

\* Python: only a non-empty reason takes the decision away.
PyIsRetryable(e, idempotent) ==
  /\ idempotent
  /\ IF e.reason \notin {Absent, Empty}
       THEN /\ e.domain = KnownDomain
            /\ e.reason \in KnownReasons
            /\ PolicyAllows(e.reason, e.code)
       ELSE TransportAllows(e)
=============================================================================
