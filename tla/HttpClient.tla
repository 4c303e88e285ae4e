----------------------------- MODULE HttpClient -----------------------------
(***************************************************************************)
(* JsonHttpClient of the collectors (collectors/common/http_client.py):    *)
(* one client, used by one task, with its retries and its circuit breaker, *)
(* against a marketplace that answers, refuses, throttles or is silent.    *)
(* Time passes in the pauses between attempts and between calls.           *)
(***************************************************************************)
EXTENDS Naturals

CONSTANTS
  HcAttempts,       \* max_attempts
  HcThreshold,      \* circuit_failure_threshold
  HcReset           \* circuit_reset_seconds in ticks

ASSUME HcAssumption == HcAttempts \in Nat \ {0} /\ HcThreshold \in Nat \ {0} /\ HcReset \in Nat \ {0}

VARIABLES
  hcPc,             \* "check" is the top of the loop of _request
  hcAttempt,
  hcFailures,       \* _failure_count
  hcOpen,           \* ticks until _open_until, HcClosed when that is None
  hcSent,           \* requests of the call so far
  hcRow,            \* failed calls since the last answer with a 2xx, or since the circuit closed
  hcUp              \* the marketplace answers every request from here on

hcVars == <<hcPc, hcAttempt, hcFailures, hcOpen, hcSent, hcRow, hcUp>>

HcClosed == HcReset + 1

HcTypeOK ==
  /\ hcPc \in {"idle", "check", "sent", "pause"}
  /\ hcAttempt \in 1..HcAttempts /\ hcSent \in 0..HcAttempts
  /\ hcFailures \in 0..HcThreshold /\ hcRow \in 0..HcThreshold
  /\ hcOpen \in 0..HcClosed
  /\ hcUp \in BOOLEAN

HcInit ==
  /\ hcPc = "idle" /\ hcAttempt = 1 /\ hcSent = 0
  /\ hcFailures = 0 /\ hcRow = 0 /\ hcOpen = HcClosed
  /\ hcUp = FALSE

HcCall ==
  /\ hcPc = "idle"
  /\ hcPc' = "check" /\ hcAttempt' = 1 /\ hcSent' = 0
  /\ UNCHANGED <<hcFailures, hcOpen, hcRow, hcUp>>

\* Until when the circuit stays open after it refused a call.
HcUntil == hcOpen

\* _check_circuit: an open circuit raises at once, whichever attempt this is.
HcCheck ==
  /\ hcPc = "check"
  /\ CASE hcOpen = HcClosed -> hcPc' = "sent" /\ UNCHANGED <<hcOpen, hcFailures, hcRow>>
       [] hcOpen = 0 -> hcPc' = "sent" /\ hcOpen' = HcClosed /\ hcFailures' = 0 /\ hcRow' = 0
       [] OTHER -> hcPc' = "idle" /\ hcOpen' = HcUntil /\ UNCHANGED <<hcFailures, hcRow>>
  /\ hcSent' = IF hcPc' = "sent" THEN hcSent + 1 ELSE hcSent
  /\ UNCHANGED <<hcAttempt, hcUp>>

\* _record_success
\* Mutant: the failures before a success still count.
HcSucceededForgetful == hcOpen' = HcClosed /\ UNCHANGED hcFailures
HcSucceeded == hcOpen' = HcClosed /\ hcFailures' = 0

HcGood ==
  /\ hcPc = "sent"
  /\ hcPc' = "idle"
  /\ HcSucceeded /\ hcRow' = 0
  /\ UNCHANGED <<hcAttempt, hcSent, hcUp>>

\* _record_failure, on top of n failures.
HcFails(n) ==
  /\ hcPc' = "idle"
  /\ hcFailures' = n + 1
  /\ hcOpen' = IF n + 1 >= HcThreshold THEN HcReset ELSE HcClosed

\* A 2xx that does not decode counts as a success, and then as a failure.
HcUndecodable ==
  /\ hcPc = "sent" /\ ~hcUp
  /\ HcFails(0)
  /\ hcRow' = 1
  /\ UNCHANGED <<hcAttempt, hcSent, hcUp>>

HcMayRetry == hcAttempt < HcAttempts

\* 420, 429, 5xx and transport errors pause and try again, until the attempts are used up.
HcTransient ==
  /\ hcPc = "sent" /\ ~hcUp
  /\ IF HcMayRetry
     THEN hcPc' = "pause" /\ UNCHANGED <<hcFailures, hcOpen, hcRow>>
     ELSE HcFails(hcFailures) /\ hcRow' = hcRow + 1
  /\ UNCHANGED <<hcAttempt, hcSent, hcUp>>

HcResume ==
  /\ hcPc = "pause"
  /\ hcPc' = "check" /\ hcAttempt' = hcAttempt + 1
  /\ UNCHANGED <<hcFailures, hcOpen, hcSent, hcRow, hcUp>>

\* Any other status fails at once.
HcClientError ==
  /\ hcPc = "sent" /\ ~hcUp
  /\ HcFails(hcFailures)
  /\ hcRow' = hcRow + 1
  /\ UNCHANGED <<hcAttempt, hcSent, hcUp>>

HcTick ==
  /\ hcPc \in {"idle", "pause"} /\ hcOpen \in 1..HcReset
  /\ hcOpen' = hcOpen - 1
  /\ UNCHANGED <<hcPc, hcAttempt, hcFailures, hcSent, hcRow, hcUp>>

\* The outage of the marketplace ends.
HcRecovers ==
  /\ ~hcUp /\ hcUp' = TRUE
  /\ UNCHANGED <<hcPc, hcAttempt, hcFailures, hcOpen, hcSent, hcRow>>

HcStep == HcCheck \/ HcGood \/ HcUndecodable \/ HcTransient \/ HcResume \/ HcClientError
HcNext == HcCall \/ HcStep \/ HcTick \/ HcRecovers

HcSpec == HcInit /\ [][HcNext]_hcVars

-----------------------------------------------------------------------------

\* A call sends at most max_attempts requests, the one after the last pause included.
RetriesBounded == hcSent <= HcAttempts

\* The circuit is open exactly while the calls since the last answer or reset have failed as
\* often as the threshold says: calls that were refused by the open circuit are not counted, and
\* neither is an attempt that is repeated.
BreakerCountsCalls == (hcOpen # HcClosed) <=> (hcRow >= HcThreshold)

\* After an outage the client gets through again: the circuit does not keep it out for ever, nor
\* do calls made meanwhile put the reset off.
GetsThroughAgain == hcUp ~> (hcUp /\ hcRow = 0 /\ hcOpen = HcClosed)

\* The retries of a call and the circuit of the host count what they are meant to count.
ClientSound == HcTypeOK /\ RetriesBounded /\ BreakerCountsCalls
=============================================================================
