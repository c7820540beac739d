----------------------------- MODULE FastBackoff -----------------------------
(* wait.BackoffUntil with its fast backoff manager (pkg/util/wait), as the   *)
(* login loops and the heartbeat of frpc use it: run a function, wait a      *)
(* delay that depends on its error, and run it again.                        *)
(*                                                                           *)
(* Time is relative to now: cutoffIn is what is left of the fast retry       *)
(* window (-1 once over), recent holds the ages of the fast retries of the   *)
(* last window.  The float factor is an integer and a jitter is a fraction.  *)
EXTENDS Integers, SequencesExt

CONSTANTS Uses,        \* the FastBackoffOptions of the loops
          RunTimes,    \* how long the function may run
          Window       \* FastRetryWindow

VARIABLES opt,         \* f.options
          step,        \* of BackoffUntil
          errs,        \* f.consecutiveErrCount, up to MaxErrs
          cutoffIn,    \* f.fastRetryCutoffTime - now, at least -1
          counts,      \* f.countsInFastRetryWindow, up to one over the limit
          delay,       \* of BackoffUntil
          recent       \* ages of the fast retries, newest first

kvars == <<opt, step, errs, cutoffIn, counts, delay, recent>>

MaxErrs == 8

\* Jitter: between d and d + frac * d, a fraction <<n, m>>.
Jitter(d, frac) == d .. (d + (frac[1] * d) \div frac[2])

EmptyOr(v, fallback) == IF v = 0 THEN fallback ELSE v

AtMost(v, bound) == IF v > bound THEN bound ELSE v

Elapse(t) ==
    /\ cutoffIn' = IF cutoffIn < t THEN -1 ELSE cutoffIn - t
    /\ recent' = SelectSeq([i \in DOMAIN recent |-> recent[i] + t], LAMBDA a : a < Window)

\* NewFastBackoffManager counts from 1; the zero cutoff time has passed.
BackoffInit ==
    /\ opt \in Uses
    /\ step = "ticker" /\ errs = 0 /\ cutoffIn = -1
    /\ counts = 1 /\ delay = 0 /\ recent = <<>>

\* The first call of Backoff, for the ticker: it only notes the time.
NewTicker ==
    /\ step = "ticker" /\ step' = "run"
    /\ UNCHANGED <<opt, errs, cutoffIn, counts, delay, recent>>

\* The delay after an error that is not retried fast: the previous one (or the
\* initial one) times the factor, with jitter, capped.
SlowDelays(n) ==
    LET base == EmptyOr(IF n = 1 THEN EmptyOr(opt.initIfFail, delay) ELSE delay, opt.second)
    IN  {AtMost(d, opt.max) : d \in Jitter(base * opt.factor, opt.jitter)}

Reopens == cutoffIn = -1

\* The function returns an error: Backoff(delay, true).
Fails ==
    /\ step = "run"
    /\ errs' = AtMost(errs + 1, MaxErrs)
    /\ IF opt.fastCount > 0 /\ counts + 1 <= opt.fastCount
         THEN /\ delay' \in Jitter(opt.fastDelay, opt.fastJitter)
              /\ counts' = counts + 1
              /\ recent' = <<0>> \o recent
              /\ UNCHANGED cutoffIn
         ELSE /\ delay' \in SlowDelays(errs + 1)
              /\ IF opt.fastCount > 0 /\ Reopens
                   THEN cutoffIn' = Window /\ counts' = 0
                   ELSE counts' = AtMost(counts + 1, opt.fastCount + 1) /\ UNCHANGED cutoffIn
              /\ UNCHANGED recent
    /\ step' = "wait"
    /\ UNCHANGED opt

\* The function succeeds but is not done: Backoff(delay, false).
Succeeds ==
    /\ step = "run" /\ ~opt.ends
    /\ errs' = 0 /\ delay' = opt.duration /\ step' = "wait"
    /\ UNCHANGED <<opt, cutoffIn, counts, recent>>

\* The function reports that it is done: a login.
Done ==
    /\ step = "run" /\ opt.ends
    /\ step' = "returned"
    /\ UNCHANGED <<opt, errs, cutoffIn, counts, delay, recent>>

\* The function takes its time, and a control may last long.
Runs ==
    /\ step = "called"
    /\ \E t \in RunTimes : Elapse(t)
    /\ step' = "run"
    /\ UNCHANGED <<opt, errs, counts, delay>>

\* The ticker fires; the stop channel is looked at before the next run.
Ticks ==
    /\ step = "wait"
    /\ Elapse(delay)
    /\ step' = "called"
    /\ UNCHANGED <<opt, errs, counts, delay>>

\* stopCh is closed while the loop waits or is about to run.
Stopped ==
    /\ step \in {"wait", "called"}
    /\ step' = "returned"
    /\ UNCHANGED <<opt, errs, cutoffIn, counts, delay, recent>>

BackoffNext == NewTicker \/ Fails \/ Succeeds \/ Done \/ Runs \/ Ticks \/ Stopped

BackoffSpec == BackoffInit /\ [][BackoffNext]_kvars

-----------------------------------------------------------------------------

BackoffTypeOK ==
    /\ step \in {"ticker", "run", "wait", "called", "returned"}
    /\ errs \in 0..MaxErrs /\ cutoffIn \in -1..Window
    /\ counts \in 0..opt.fastCount + 1 /\ delay \in Nat
    /\ \A i \in DOMAIN recent : recent[i] \in 0..Window - 1

\* However the control loop fails, no window as long as FastRetryWindow sees
\* more than twice FastRetryCount fast retries, and a loop that keeps failing
\* without them waits its maximum from the sixth error on; no wait is empty
\* (backoff.go Backoff: the counter is reopened only after the cutoff time).
RetriesPaced ==
    /\ Len(recent) <= 2 * opt.fastCount
    /\ step = "wait" => delay > 0
    /\ step = "wait" /\ opt.fastCount = 0 /\ errs >= 6 => delay = opt.max
    /\ step = "wait" => delay <= opt.max \/ delay = opt.duration
=============================================================================
