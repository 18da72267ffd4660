------------------------------ MODULE Watchdog ------------------------------
(***************************************************************************)
(* RunWatchdog of platform/watchdog.py around one training run: the        *)
(* training thread beats and samples at every step, a polling thread       *)
(* samples and looks for a stall, and when training is over the runner     *)
(* stops the poller, waits for it a bounded time and reads what was        *)
(* measured, each value under a lock of its own.                           *)
(*                                                                         *)
(* Data: a memory sample is a level, and the running peak the highest one: *)
(* 0 nothing usable, 1 on the device, 2 with a tight margin, 3 spilled.    *)
(* Time is the number of ticks since the last beat.                        *)
(***************************************************************************)
EXTENDS Naturals

CONSTANTS Timeout, \* heartbeat_timeout_s, in ticks
          None     \* no sample yet

WatchdogAssumption == Timeout \in Nat /\ None \notin Nat \cup {"unproven", "spill", "tight", "safe"}

VARIABLES
  silence,   \* ticks since the last beat, up to one more than the timeout
  peak,      \* _peak
  spilled,   \* _spilled
  stalled,   \* _stalled: silent now
  everStalled, \* _ever_stalled
  alerted,   \* on_stall was called since the last beat
  stop,      \* the stop event
  main,      \* where the training thread is
  sampled,   \* its sample, not yet folded
  poller,    \* where the polling thread is
  polled,    \* its sample, not yet folded
  fire,      \* the poller decided to call on_stall
  joined,    \* the poller had ended when join returned
  succeeded, \* training returned and every later gate passed
  measured,  \* ctx.measured_peak
  fit,       \* ctx.final_fit
  warned     \* the spill warning was emitted

thread == <<poller, polled, fire>>
flags == <<stalled, everStalled, alerted>>
report == <<joined, succeeded, measured, fit, warned>>
vars == <<silence, peak, spilled, stalled, everStalled, alerted, stop, main, sampled,
          poller, polled, fire, joined, succeeded, measured, fit, warned>>

Samples == 0..3
Fits == {"unproven", "spill", "tight", "safe"}

TypeOK ==
  /\ silence \in 0..(Timeout + 1)
  /\ peak \in Samples \cup {None} /\ measured \in Samples \cup {None}
  /\ sampled \in Samples \cup {None} /\ polled \in Samples \cup {None}
  /\ spilled \in BOOLEAN /\ stalled \in BOOLEAN /\ everStalled \in BOOLEAN
  /\ alerted \in BOOLEAN /\ stop \in BOOLEAN /\ fire \in BOOLEAN
  /\ joined \in BOOLEAN /\ succeeded \in BOOLEAN /\ warned \in BOOLEAN
  /\ main \in {"training", "sample", "fold", "hung", "stop", "join", "peak", "fit", "warn",
               "promote", "done"}
  /\ poller \in {"waiting", "sample", "fold", "check", "alert", "ended"}
  /\ fit \in Fits \cup {None}

Init ==
  /\ silence = 0 /\ peak = None /\ spilled = FALSE
  /\ stalled = FALSE /\ everStalled = FALSE /\ alerted = FALSE /\ stop = FALSE
  /\ main = "training" /\ sampled = None
  /\ poller = "waiting" /\ polled = None /\ fire = FALSE
  /\ joined = FALSE /\ succeeded = FALSE /\ measured = None /\ fit = None /\ warned = FALSE

-----------------------------------------------------------------------------
(* Pure classifiers *)

\* observed_spill: memory in shared system RAM.
Spill(s) == s = 3

\* is_stalled: no beat within the timeout; a timeout of zero disables it.
IsStalled == Timeout > 0 /\ silence > Timeout

\* merge_peak: element-wise maximum.
Merge(acc, s) == IF acc = None \/ s > acc THEN s ELSE acc

\* reconcile_measured_fit: a spill is a fact on any path, a native fit needs a completed run.
MeasuredFit(s, completed) ==
  CASE s = 0 -> "unproven"
    [] Spill(s) -> "spill"
    [] ~Spill(s) /\ s # 0 /\ ~completed -> "unproven"
    [] s = 2 /\ completed -> "tight"
    [] s = 1 /\ completed -> "safe"

\* The second half of sample(), under the lock.
Fold(s) ==
  /\ peak' = Merge(peak, s)
  /\ spilled' = (spilled \/ Spill(s))

-----------------------------------------------------------------------------
(* The training thread *)

\* _progress: beat first, then one sample.
Beat ==
  /\ main = "training"
  /\ silence' = 0 /\ stalled' = FALSE /\ alerted' = FALSE
  /\ main' = "sample"
  /\ UNCHANGED <<peak, spilled, everStalled, stop, sampled, thread, report>>

\* The sampler runs outside the lock; None or an exception drops the sample.
TakeSample ==
  /\ main = "sample"
  /\ \/ sampled' \in Samples /\ main' = "fold"
     \/ main' = "training" /\ UNCHANGED sampled
  /\ UNCHANGED <<silence, peak, spilled, flags, stop, thread, report>>

FoldSample ==
  /\ main = "fold"
  /\ Fold(sampled)
  /\ sampled' = None /\ main' = "training"
  /\ UNCHANGED <<silence, flags, stop, thread, report>>

\* A kernel that never returns.
Hang ==
  /\ main = "training"
  /\ main' = "hung"
  /\ UNCHANGED <<silence, peak, spilled, flags, stop, sampled, thread, report>>

\* run_training returns or raises, and the with-block is left: stop() sets the event.
LeaveTraining ==
  /\ main = "training"
  /\ succeeded' \in BOOLEAN
  /\ stop' = TRUE /\ main' = "join"
  /\ UNCHANGED <<silence, peak, spilled, flags, sampled, thread, joined, measured, fit, warned>>

\* Faulty variant: the thread is not waited for.
JoinSkipped ==
  /\ main = "join"
  /\ joined' = TRUE /\ main' = "peak"
  /\ UNCHANGED <<silence, peak, spilled, flags, stop, sampled, thread, succeeded, measured,
                 fit, warned>>

\* join(timeout): the poller has ended, or it is inside the sampler or the callback
\* longer than the join waits.
Join ==
  /\ main = "join" /\ poller # "waiting"
  /\ joined' = (poller = "ended") /\ main' = "peak"
  /\ UNCHANGED <<silence, peak, spilled, flags, stop, sampled, thread, succeeded, measured,
                 fit, warned>>

\* The finally clause: the peak, the fit (which reads the peak again), the spill flag.
ReadPeak ==
  /\ main = "peak"
  /\ measured' = peak /\ main' = "fit"
  /\ UNCHANGED <<silence, peak, spilled, flags, stop, sampled, thread, joined, succeeded,
                 fit, warned>>

ReadFit ==
  /\ main = "fit"
  /\ fit' = (IF peak = None THEN None ELSE MeasuredFit(peak, FALSE))
  /\ main' = "warn"
  /\ UNCHANGED <<silence, peak, spilled, flags, stop, sampled, thread, joined, succeeded,
                 measured, warned>>

ReadSpilled ==
  /\ main = "warn"
  /\ warned' = spilled /\ main' = "promote"
  /\ UNCHANGED <<silence, peak, spilled, flags, stop, sampled, thread, joined, succeeded,
                 measured, fit>>

\* execute_run classifies the peak it was handed, proven only when every gate passed.
Promote ==
  /\ main = "promote"
  /\ fit' = (IF measured = None THEN fit ELSE MeasuredFit(measured, succeeded))
  /\ main' = "done"
  /\ UNCHANGED <<silence, peak, spilled, flags, stop, sampled, thread, joined, succeeded,
                 measured, warned>>

-----------------------------------------------------------------------------
(* The polling thread: _loop and poll_once *)

\* The wait ends by the interval, or by the stop event, which ends the thread.
Wake ==
  /\ poller = "waiting"
  /\ poller' = (IF stop THEN "ended" ELSE "sample")
  /\ UNCHANGED <<silence, peak, spilled, flags, stop, main, sampled, polled, fire, report>>

\* Faulty variant: a sampler that raises ends the thread.
PollSampleRaises ==
  /\ poller = "sample"
  /\ \/ polled' \in Samples /\ poller' = "fold"
     \/ poller' = "ended" /\ UNCHANGED polled
  /\ UNCHANGED <<silence, peak, spilled, flags, stop, main, sampled, fire, report>>

PollSample ==
  /\ poller = "sample"
  /\ \/ polled' \in Samples /\ poller' = "fold"
     \/ poller' = "check" /\ UNCHANGED polled
  /\ UNCHANGED <<silence, peak, spilled, flags, stop, main, sampled, fire, report>>

PollFold ==
  /\ poller = "fold"
  /\ Fold(polled)
  /\ polled' = None /\ poller' = "check"
  /\ UNCHANGED <<silence, flags, stop, main, sampled, fire, report>>

\* The stall check under the lock; the callback is called once per episode, outside it.
PollCheck ==
  /\ poller = "check"
  /\ stalled' = (stalled \/ IsStalled)
  /\ everStalled' = (everStalled \/ IsStalled)
  /\ fire' = (IsStalled /\ ~stalled)
  /\ poller' = (IF fire' THEN "alert" ELSE "waiting")
  /\ UNCHANGED <<silence, peak, spilled, alerted, stop, main, sampled, polled, report>>

Alert ==
  /\ poller = "alert"
  /\ alerted' = TRUE /\ fire' = FALSE /\ poller' = "waiting"
  /\ UNCHANGED <<silence, peak, spilled, stalled, everStalled, stop, main, sampled, polled,
                 report>>

\* Faulty variant: time is counted without bound.
TickOn ==
  /\ silence' = silence + 1 /\ silence < Timeout + 3
  /\ UNCHANGED <<peak, spilled, flags, stop, main, sampled, thread, report>>

Tick ==
  /\ silence <= Timeout
  /\ silence' = silence + 1
  /\ UNCHANGED <<peak, spilled, flags, stop, main, sampled, thread, report>>

-----------------------------------------------------------------------------
Poll == Wake \/ PollSample \/ PollFold \/ PollCheck \/ Alert

Next ==
  \/ Beat \/ TakeSample \/ FoldSample \/ Hang \/ LeaveTraining
  \/ Join \/ ReadPeak \/ ReadFit \/ ReadSpilled \/ Promote
  \/ Poll \/ Tick

Spec == Init /\ [][Next]_vars

\* The polling thread is scheduled, its sampler returns, and time goes on.
Fairness == WF_vars(Poll) /\ WF_vars(Tick)

FairSpec == Spec /\ Fairness

-----------------------------------------------------------------------------
(* Properties *)

\* What the run reports was measured: a native fit only for a run that succeeded, and,
\* when the poller had ended before the values were read, a spill warning exactly when
\* the fit says spill (the finally clause of TrainingRunner.run).
FitIsHonest ==
  main = "done" =>
    /\ fit \in {"tight", "safe"} => succeeded
    /\ joined => (warned <=> fit = "spill")

\* A training thread that hangs is noticed and signalled, whatever the sampler raises and
\* however the last beat raced the last poll (poll_once).
HangIsSignalled == main = "hung" ~> (stalled /\ alerted)
=============================================================================
