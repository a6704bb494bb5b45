------------------------------- MODULE GwCall -------------------------------
(* A gateway call of airy_cli: cmd/cli_gw.c (connect, send, receive with a   *)
(* budget that may be renewed, take the body) and cmd/cli_gw_rpc.c (triage   *)
(* of the outcome, one shared buffer for the reason of a failure). Time is   *)
(* counted in the 100 ms slices of the receive loop, a response in units:    *)
(* one for the header, then those of its body. The gateway is external. The  *)
(* names differ from LiveWatch's: GatewayProofs is about both.               *)
EXTENDS Naturals

CONSTANTS Callers,   \* the threads that make calls
          Timeout,   \* timeout_ms, in slices
          Renewals,  \* how often the budget may be renewed
          MaxSize,   \* bound: units of a body
          MaxBody    \* CLI_GW_MAX_BODY, in units: the buffer never gets larger

ASSUME GwAssumption ==
  Timeout \in Nat \ {0} /\ Renewals \in Nat /\ MaxSize \in Nat /\ MaxBody \in Nat \ {0}

VARIABLES cancel,        \* g_cli_cancel
          err,           \* g_cli_gw_err: whose failure it tells, and which
          stage,         \* of each caller
          framing, size, \* the response the gateway has for it
          got,           \* gw_rx_t: units received
          budget, renewals,
          rc             \* what its last call returned
VARIABLES how,           \* history: how the exchange ended
          quiet,         \* history: slices without a byte
          elapsed,       \* history: slices since the call began
          shown          \* history: the reason the caller told the user

rxVars   == <<framing, size, got, budget, renewals>>
callHist == <<how, quiet, elapsed, shown>>
callVars == <<cancel, err, stage, rxVars, rc, callHist>>

Bound    == Timeout * (1 + Renewals)
LongTime == Bound + 1  \* bound: the histories tell no longer times apart
Later(t, d) == IF t + d > LongTime THEN LongTime ELSE t + d
Failure == {"socket", "timeout", "unavailable", "rpcError", "protocol"}
Rc      == {"ok", "canceled"} \cup Failure
Reason  == {[by |-> "none", rc |-> "ok"]} \cup [by : Callers, rc : Failure]
NoReason == [by |-> "none", rc |-> "ok"]

CallTypeOK ==
  /\ cancel \in BOOLEAN /\ err \in Reason
  /\ stage \in [Callers -> {"idle", "connect", "send", "recv", "done"}]
  /\ framing \in [Callers -> {"length", "chunked", "bare"}]
  /\ size \in [Callers -> 0..MaxSize] /\ got \in [Callers -> 0..MaxSize + 1]
  /\ budget \in [Callers -> 1..Timeout] /\ renewals \in [Callers -> 0..Renewals]
  /\ rc \in [Callers -> Rc]
  /\ how \in [Callers -> {"none", "failed", "canceled", "quiet", "big", "complete", "closed"}]
  /\ quiet \in [Callers -> 0..Bound + 1] /\ elapsed \in [Callers -> 0..LongTime]
  /\ shown \in [Callers -> Reason]

CallInit ==
  /\ cancel = FALSE /\ err = NoReason
  /\ stage = [c \in Callers |-> "idle"] /\ rc = [c \in Callers |-> "ok"]
  /\ framing = [c \in Callers |-> "length"] /\ size = [c \in Callers |-> 0] /\ got = size
  /\ budget = [c \in Callers |-> Timeout] /\ renewals = [c \in Callers |-> Renewals]
  /\ how = [c \in Callers |-> "none"] /\ quiet = size /\ elapsed = size
  /\ shown = [c \in Callers |-> NoReason]

-----------------------------------------------------------------------------
\* Ctrl+C, and the reset at the entry of a turn
Sigint == cancel' = TRUE /\ UNCHANGED <<err, stage, rxVars, rc, callHist>>

Reset(c) ==
  /\ stage[c] = "idle" /\ cancel /\ cancel' = FALSE
  /\ UNCHANGED <<err, stage, rxVars, rc, callHist>>

\* cli_gw_xfer_err and cli_gw_call_q: every failure but a cancel leaves its
\* reason in the buffer; a success leaves there what it finds
Return(c, r, h) ==
  /\ stage' = [stage EXCEPT ![c] = "done"] /\ rc' = [rc EXCEPT ![c] = r] /\ how' = [how EXCEPT ![c] = h]
  /\ err' = IF r \in Failure THEN [by |-> c, rc |-> r] ELSE err
  /\ UNCHANGED <<cancel, shown>>

Call(c) ==
  /\ stage[c] = "idle"
  /\ stage' = [stage EXCEPT ![c] = "connect"]
  /\ \E f \in {"length", "chunked", "bare"}, n \in 0..MaxSize :
       framing' = [framing EXCEPT ![c] = f] /\ size' = [size EXCEPT ![c] = n]
  /\ got' = [got EXCEPT ![c] = 0] /\ how' = [how EXCEPT ![c] = "none"]
  /\ budget' = [budget EXCEPT ![c] = Timeout] /\ renewals' = [renewals EXCEPT ![c] = Renewals]
  /\ quiet' = [quiet EXCEPT ![c] = 0] /\ elapsed' = [elapsed EXCEPT ![c] = 0]
  /\ UNCHANGED <<cancel, err, rc, shown>>

\* The connect may take a whole timeout of its own
Connected(c) ==
  /\ stage[c] = "connect" /\ stage' = [stage EXCEPT ![c] = "send"]
  /\ \E d \in 0..Timeout : elapsed' = [elapsed EXCEPT ![c] = d]
  /\ UNCHANGED <<cancel, err, rxVars, rc, how, quiet, shown>>

Sent(c) ==
  /\ stage[c] = "send" /\ stage' = [stage EXCEPT ![c] = "recv"]
  /\ UNCHANGED <<cancel, err, rxVars, rc, callHist>>

\* Refused, timed out, interrupted by a signal or closed by the peer: all of
\* them are "the gateway is not online"
TransportFails(c) ==
  /\ stage[c] \in {"connect", "send"}
  /\ Return(c, "socket", "failed")
  /\ UNCHANGED <<rxVars, quiet, elapsed>>

-----------------------------------------------------------------------------
(* gw_rx_loop: the flag first, then one wait of at most a slice *)

Canceled(c) ==
  /\ stage[c] = "recv" /\ cancel
  /\ Return(c, "canceled", "canceled")
  /\ UNCHANGED <<rxVars, quiet, elapsed>>

\* A slice without a byte uses up the budget, which is renewed while renewals
\* are left (mutant: renewing is not counted)
NotCounted(n) == n
Renewed(n)    == n - 1

\* (mutant: off by one)
OnceMore(n) == n >= 0
CanRenew(n) == n > 0

Quiet(c) ==
  /\ stage[c] = "recv" /\ ~cancel
  /\ quiet' = [quiet EXCEPT ![c] = Later(@, 1)] /\ elapsed' = [elapsed EXCEPT ![c] = Later(@, 1)]
  /\ \/ /\ budget[c] > 1
        /\ budget' = [budget EXCEPT ![c] = @ - 1]
        /\ UNCHANGED <<cancel, err, stage, renewals, rc, how, shown>>
     \/ /\ budget[c] = 1 /\ CanRenew(renewals[c])
        /\ budget' = [budget EXCEPT ![c] = Timeout]
        /\ renewals' = [renewals EXCEPT ![c] = Renewed(@)]
        /\ UNCHANGED <<cancel, err, stage, rc, how, shown>>
     \/ /\ budget[c] = 1 /\ ~CanRenew(renewals[c])
        /\ Return(c, "timeout", "quiet")
        /\ UNCHANGED <<budget, renewals>>
  /\ UNCHANGED <<framing, size, got>>

\* gw_recv_feed: complete when the declared length is there; without one, at
\* the first byte of the body (mutant: the header counts as body, as it did
\* before the body offset was kept)
HeaderCounts(c, n) == \/ framing[c] = "length" /\ size[c] > 0 /\ n >= size[c]
                      \/ framing[c] = "bare" /\ n > 1
Complete(c, n)     == \/ framing[c] = "length" /\ size[c] > 0 /\ n - 1 >= size[c]
                      \/ framing[c] = "bare" /\ n > 1

\* A body that was cut does not parse as JSON
Parses(c, n) == n = size[c] + 1 /\ size[c] > 0

\* gw_body_take and the triage of cli_gw_call_q, for n units
Outcomes(c, n) ==
  IF n = 0 THEN {"socket"}
  ELSE {"unavailable", "protocol"} \cup IF Parses(c, n) THEN {"ok", "rpcError"} ELSE {}

Bytes(c) ==
  /\ stage[c] = "recv" /\ ~cancel
  /\ \E n \in got[c] + 1..size[c] + 1 :
       /\ got' = [got EXCEPT ![c] = n]
       /\ \/ n >= MaxBody /\ Return(c, "socket", "big")
          \/ n < MaxBody /\ Complete(c, n) /\ \E r \in Outcomes(c, n) : Return(c, r, "complete")
          \/ n < MaxBody /\ ~Complete(c, n) /\ UNCHANGED <<cancel, err, stage, rc, how, shown>>
  /\ \E d \in {0, 1} : elapsed' = [elapsed EXCEPT ![c] = Later(@, d)]
  /\ UNCHANGED <<framing, size, budget, renewals, quiet>>

\* The peer closes, also before all of its answer is there
Closed(c) ==
  /\ stage[c] = "recv" /\ ~cancel
  /\ \E r \in Outcomes(c, got[c]) : Return(c, r, "closed")
  /\ UNCHANGED <<rxVars, quiet, elapsed>>

\* cli_err_desc takes the buffer, or the caller goes on without a word
Describe(c) ==
  /\ stage[c] = "done" /\ rc[c] # "ok"
  /\ shown' = [shown EXCEPT ![c] = err] /\ err' = NoReason
  /\ stage' = [stage EXCEPT ![c] = "idle"]
  /\ UNCHANGED <<cancel, rxVars, rc, how, quiet, elapsed>>

GoOn(c) ==
  /\ stage[c] = "done"
  /\ stage' = [stage EXCEPT ![c] = "idle"] /\ shown' = [shown EXCEPT ![c] = NoReason]
  /\ UNCHANGED <<cancel, err, rxVars, rc, how, quiet, elapsed>>

Step(c) == \/ Connected(c) \/ Sent(c) \/ TransportFails(c)
           \/ Canceled(c) \/ Quiet(c) \/ Bytes(c) \/ Closed(c)
           \/ Describe(c) \/ GoOn(c)
CallNext == Sigint \/ \E c \in Callers : Reset(c) \/ Call(c) \/ Step(c)

CallSpec == CallInit /\ [][CallNext]_callVars
\* A thread in a call runs: poll returns after a slice at the latest, and the
\* gateway reads the request it is sent
FairCallSpec == CallSpec /\ \A c \in Callers : WF_callVars(Step(c))

-----------------------------------------------------------------------------
\* A response that declares its length is never taken before all of it came.
NotCutShort == \A c \in Callers :
  how[c] = "complete" /\ framing[c] = "length" => got[c] = size[c] + 1

\* The silence a call puts up with is the timeout times one more than the
\* renewals, and a call times out only after all of it.
SilenceIsBounded == \A c \in Callers :
  quiet[c] <= Bound /\ (how[c] = "quiet" => quiet[c] = Bound)

\* Every call returns, also one whose budget is never used up by silence.
CallEnds == \A c \in Callers : stage[c] # "idle" ~> stage[c] = "idle"

\* Documented by cli_gw.h:47-48 ("total bound timeout_ms x (1 + renewals)").
BoundHonored == \A c \in Callers : elapsed[c] <= Bound

\* Documented by cli_gw.h:56-57 ("the reason of the most recent failure; empty
\* when there is none"): what a caller tells the user is the reason of the
\* call that just failed.
ReasonIsOwn == \A c \in Callers :
  shown[c] = NoReason \/ shown[c] = [by |-> c, rc |-> rc[c]] \/ stage[c] # "idle"
=============================================================================
