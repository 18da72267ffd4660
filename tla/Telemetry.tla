------------------------------- MODULE Telemetry -------------------------------
(***************************************************************************)
(* The measurements of one run.  A sampling thread of the run's command    *)
(* reads driver and host again and again and appends what it read, with    *)
(* the window of the run that it sees then, to TelemetrySamples.jsonl; the *)
(* supervisor moves the window along the events, which it appends to       *)
(* RunEvents.jsonl; when the run is over the command stops the thread and  *)
(* derives a summary from the three raw files, which it reads once to      *)
(* parse them and once more to bind them by their hashes.  Anybody may     *)
(* derive a summary too, as soon as there is a manifest.                   *)
(*                                                                         *)
(* A probe may take longer than stop() waits; the thread then outlives its *)
(* stop, and dies when it finds its file closed, or, if it had just looked *)
(* at the stop event, opens it again.                                      *)
(*                                                                         *)
(* A sample's time is its index: the cadence is abstracted.                *)
(***************************************************************************)
EXTENDS Integers, Sequences, FiniteSetsExt

CONSTANTS Settings,   \* how the command is called (its worker process, its environment, the step
                      \* it resumes from), and the steps whose tokens nobody counts
          Warmup,     \* optimizer steps that are not measured
          LastStep,   \* the last step of the run's schedule
          MaxSamples, \* how many samples the thread takes
          Hosts,      \* what the probes may meet: a driver and the run's process tree
          MaxFaults,  \* how many writes fail, or processes die
          None

TelemetryAssumption ==
  /\ Settings \subseteq [worker : BOOLEAN, managed : BOOLEAN, from : Nat, missed : SUBSET Nat]
  /\ \A s \in Settings : s.managed => s.worker
  /\ None \notin Nat /\ None \notin {"failed", "succeeded", "command", "later"}
  /\ Warmup \in Nat /\ LastStep \in Nat \ {0} /\ MaxSamples \in Nat /\ MaxFaults \in Nat
  /\ Hosts \subseteq [driver : BOOLEAN, power : {None} \cup Nat, tree : BOOLEAN]

VARIABLES
  setting,   \* how the command was called: its worker process, its environment, its first step
  command,   \* where the command is
  log,       \* RunEvents.jsonl
  torn,      \* the files whose last line is not whole
  unlogged,  \* whether an event could not be appended, and whether the manifest says so
  outcome,   \* how the run ended, as the supervisor returns it
  manifest,  \* RunManifest.json
  window,    \* the phase that the next sample is labelled with
  current,   \* the last step that an event told of
  stop,      \* the stop event
  open,      \* the thread has its file open
  sampler,   \* where the thread is
  since,     \* history: the window when the probe began
  series,    \* TelemetrySamples.jsonl
  outlived,  \* history: stop() did not wait for the thread's end
  got,       \* what the command has read of the files
  summary,   \* RunTelemetrySummary.json
  faults

run == <<setting, log, unlogged, outcome, manifest>>
control == <<window, current>>
thread == <<stop, open, sampler, since, series, outlived>>
vars == <<run, command, control, thread, torn, got, summary, faults>>

-----------------------------------------------------------------------------
(* The run, as its supervisor tells of it *)

Line(step, timed, counted) == [step |-> step, timed |-> timed, counted |-> counted]

Other == Line(None, FALSE, FALSE)

Fault == faults < MaxFaults /\ faults' = faults + 1

\* An event is appended to the log; if that fails the run goes on, and what is missing of the
\* line is written with the next one.
Emit(line, w, s) ==
  /\ command = "run"
  /\ log' = Append(log, line)
  /\ \/ torn' = torn \ {"log"} /\ UNCHANGED <<unlogged, faults>>
     \/ /\ Fault /\ torn' = torn \cup {"log"}
        /\ unlogged' = IF unlogged = "noted" THEN "noted" ELSE "yes"
  /\ window' = w /\ current' = s
  /\ UNCHANGED <<setting, command, outcome, manifest, thread, got, summary>>

Setup == window = "baseline" /\ outcome = None /\ Emit(Other, "setup", current)

\* The first step that a process completes has no time: nothing precedes it.
Step ==
  /\ window \in {"setup", "warmup", "measured"} /\ outcome = None
  /\ LET n == IF current = None THEN setting.from + 1 ELSE current + 1
     IN /\ n <= LastStep
        /\ Emit(Line(n, current # None, n \notin setting.missed),
                IF n <= Warmup THEN "warmup" ELSE "measured", n)

\* The run ends and its manifest is written, which notes what could not be logged so far; a
\* success that cannot be written becomes a failure, and that is tried once.
End(state) ==
  /\ command = "run" /\ outcome = None
  /\ state = "succeeded" => current = LastStep
  /\ unlogged' = IF unlogged = "yes" THEN "noted" ELSE unlogged
  /\ LET notes == unlogged # "no"
     IN \/ outcome' = state /\ manifest' = [state |-> state, notes |-> notes] /\ UNCHANGED faults
        \/ /\ Fault /\ outcome' = "failed"
           /\ \/ UNCHANGED manifest
              \/ /\ state = "succeeded"
                 /\ manifest' = [state |-> "failed", notes |-> notes /\ ~setting.worker]
  /\ UNCHANGED <<setting, command, log, control, thread, torn, got, summary>>

\* Without a worker process the terminal event comes after the manifest; the parent of a worker
\* neither logs it nor moves the window.
Terminal ==
  ~setting.worker /\ outcome # None /\ window # "teardown" /\ Emit(Other, "teardown", current)

\* The supervisor returns: it notes that the terminal event could not be logged, if nothing of
\* the kind is noted yet, and closes the log.
Return ==
  /\ command = "run" /\ outcome # None
  /\ ~setting.worker => window = "teardown"
  /\ LET noted == IF unlogged = "yes" THEN [state |-> outcome, notes |-> TRUE] ELSE manifest
     IN \/ manifest' = noted /\ torn' = torn \ {"log"} /\ UNCHANGED faults
        \/ /\ Fault /\ (unlogged = "yes" \/ "log" \in torn)
           /\ manifest' \in {manifest, noted} /\ torn' \in {torn, torn \ {"log"}}
  /\ command' = "stop"
  /\ UNCHANGED <<setting, log, unlogged, outcome, control, thread, got, summary>>

\* Nothing is dispatched: a checkpoint does not verify.
NotDispatched ==
  /\ command = "run" /\ log = <<>> /\ outcome = None
  /\ command' = "stop"
  /\ UNCHANGED <<run, control, thread, torn, got, summary, faults>>

-----------------------------------------------------------------------------
(* The sampling thread *)

\* What one probe of a host yields.  A driver that answers may have no value for the power; only
\* a probe that yields nothing is named on the sample.
Sample(host) ==
  [power |-> IF host.driver THEN host.power ELSE None, memory |-> host.driver, rss |-> host.tree,
   unavailable |-> ~host.driver \/ ~host.tree,
   label |-> window, since |-> since]

Check ==
  /\ sampler = "check"
  /\ \/ stop /\ sampler' = "dead"
     \/ ~stop /\ Len(series) < MaxSamples /\ sampler' = "take"
  /\ UNCHANGED <<run, command, control, stop, open, since, series, outlived, torn, got, summary,
                 faults>>

Open ==
  /\ sampler = "take"
  /\ open' = TRUE /\ since' = window /\ sampler' = "probe"
  /\ UNCHANGED <<run, command, control, stop, series, outlived, torn, got, summary, faults>>

\* The reading is labelled when it is there, and written unless the file was closed meanwhile.
Record ==
  /\ sampler = "probe"
  /\ \/ /\ open
        /\ \E host \in Hosts : series' = Append(series, Sample(host))
        /\ \/ sampler' = "check" /\ torn' = torn \ {"series"} /\ UNCHANGED faults
           \/ Fault /\ sampler' = "dead" /\ torn' = torn \cup {"series"}
     \/ ~open /\ sampler' = "dead" /\ UNCHANGED <<series, torn, faults>>
  /\ UNCHANGED <<run, command, control, stop, open, since, outlived, got, summary>>

-----------------------------------------------------------------------------
(* stop() *)

Stop ==
  /\ command = "stop" /\ stop' = TRUE /\ command' = "join"
  /\ UNCHANGED <<run, control, open, sampler, since, series, outlived, torn, got, summary, faults>>

\* Mutant: nobody waits for the thread.
NoJoin ==
  /\ command = "join" /\ command' = "close"
  /\ UNCHANGED <<run, control, thread, torn, got, summary, faults>>

\* The thread has ended, or the wait for it has.
Join ==
  /\ command = "join" /\ command' = "close"
  /\ outlived' = (sampler # "dead")
  /\ UNCHANGED <<run, control, stop, open, sampler, since, series, torn, got, summary, faults>>

Close ==
  /\ command = "close"
  /\ \/ /\ open' = FALSE /\ torn' = torn \ {"series"} /\ UNCHANGED faults
        /\ command' = IF outcome = None THEN "raised" ELSE "summarize"
     \/ /\ Fault /\ "series" \in torn /\ command' = "raised" /\ UNCHANGED <<open, torn>>
  /\ UNCHANGED <<run, control, stop, sampler, since, series, outlived, got, summary>>

-----------------------------------------------------------------------------
(* The summary of a manifest m, of lines and of samples *)

Rows(lines) == {i \in DOMAIN lines : lines[i].step # None}

\* The first rows are the warm-up, whatever their steps.
MeasuredRows(lines) ==
  {i \in Rows(lines) : Cardinality({j \in Rows(lines) : j < i}) >= Warmup}

Labelled(samples) == {i \in DOMAIN samples : samples[i].label = "measured"}

Powered(samples) == {i \in DOMAIN samples : samples[i].power # None}

\* The power at a time between the first and the last reading of it, in parts of a watt.
PowerAt(watts, t) ==
  LET i == Max({j \in DOMAIN watts : j <= t})
      k == Min({j \in DOMAIN watts : j >= t})
  IN IF i = k THEN 12 * watts[i]
     ELSE 12 * watts[i] + (12 * (watts[k] - watts[i]) * (t - i)) \div (k - i)

\* The intervals between the times in S, each by its first time.
Between(S) == UNION {i..(j - 1) : i, j \in S}

\* The area under the readings, clipped to the times in S: None if no interval has two readings.
Joules(watts, S) ==
  LET T == Between(DOMAIN watts) \cap Between(S)
  IN IF T = {} THEN None
     ELSE Cardinality(UNION {{t} \X (1..(PowerAt(watts, t) + PowerAt(watts, t + 1))) : t \in T})

Watts(samples) == [i \in Powered(samples) |-> samples[i].power]

RunJoules(samples) == Joules(Watts(samples), DOMAIN samples)

WindowJoules(samples) == Joules(Watts(samples), Labelled(samples))

\* Every measured step was counted and timed.
ThroughputValid(lines) ==
  MeasuredRows(lines) # {} /\ \A i \in MeasuredRows(lines) : lines[i].counted /\ lines[i].timed

\* The lineage that the reader r can give: the command knows the plan, and the worker's wheel
\* and commit if its environment is a managed one; a later reader may be given the plan.
Lineage(r) == {"run_id"} \cup (IF r = "command" THEN {"plan"} ELSE {})
                         \cup (IF r = "command" /\ setting.managed THEN {"worker"} ELSE {})

Present(r, lines, samples) ==
  Lineage(r)
    \cup {f \in {"losses"} : Rows(lines) # {}}
    \cup {f \in {"step_time"} : \E i \in MeasuredRows(lines) : lines[i].timed}
    \cup {f \in {"power"} : Labelled(samples) \cap Powered(samples) # {}}
    \cup {f \in {"memory"} : \E i \in DOMAIN samples : samples[i].memory}
    \cup {f \in {"rss"} : \E i \in DOMAIN samples : samples[i].rss}
    \cup {f \in {"joules"} : RunJoules(samples) # None}

Required ==
  {"losses", "step_time", "power", "memory", "joules", "rss", "run_id", "plan", "worker"}

Summary(r, parsed, hashed) ==
  LET lines == parsed[2]
      samples == parsed[3]
      complete == Required \subseteq Present(r, lines, samples)
  IN [by |-> r, from |-> parsed, bound |-> hashed,
      run |-> RunJoules(samples), measured |-> WindowJoules(samples),
      steps |-> Cardinality(MeasuredRows(lines)), complete |-> complete,
      paper |-> complete /\ ThroughputValid(lines),
      degraded |-> \E i \in DOMAIN samples : samples[i].unavailable]

-----------------------------------------------------------------------------
(* The run's own summary, and a later one *)

Records == <<manifest, log, series>>

NoSummary == [by |-> None]

\* The records are read to parse them.  What cannot be parsed refuses the summary: the command
\* then ends with an error, whatever the run's outcome.
Parse ==
  /\ command = "summarize" /\ got = <<>>
  /\ IF manifest = None \/ torn # {} THEN command' = "raised" /\ UNCHANGED got
                                     ELSE got' = <<Records>> /\ UNCHANGED command
  /\ UNCHANGED <<run, control, thread, torn, summary, faults>>

\* They are read again for their hashes.
Bind ==
  /\ Len(got) = 1 /\ got' = Append(got, Records)
  /\ UNCHANGED <<run, command, control, thread, torn, summary, faults>>

Publish ==
  /\ Len(got) = 2 /\ got' = <<>>
  /\ \/ /\ summary' = Summary("command", got[1], got[2]) /\ UNCHANGED faults
        /\ command' = IF outcome = "succeeded" THEN "succeeded" ELSE "failed"
     \/ Fault /\ command' = "raised" /\ UNCHANGED summary
  /\ UNCHANGED <<run, control, thread, torn>>

Ended == {"succeeded", "failed", "raised"}

\* telemetry-summarize, which is meant for a completed run, replaces the summary; a thread that
\* outlived its stop is not interleaved with its reads.
Rederive ==
  /\ command \in Ended /\ manifest # None /\ torn = {}
  /\ summary' = Summary("later", Records, Records)
  /\ UNCHANGED <<run, command, control, thread, torn, got, faults>>

\* The command's process dies, and its thread with it.
Die ==
  /\ command \notin Ended /\ Fault
  /\ command' = "raised" /\ sampler' = "dead" /\ got' = <<>>
  /\ UNCHANGED <<run, control, stop, open, since, series, outlived, torn, summary>>

-----------------------------------------------------------------------------
Init ==
  /\ setting \in Settings
  /\ command = "run" /\ log = <<>> /\ torn = {} /\ unlogged = "no"
  /\ outcome = None /\ manifest = None
  /\ window = "baseline" /\ current = None
  /\ stop = FALSE /\ open = TRUE /\ sampler = "check" /\ since = None /\ series = <<>>
  /\ outlived = FALSE /\ got = <<>> /\ summary = NoSummary /\ faults = 0

Next ==
  \/ Setup \/ Step \/ Terminal \/ Return \/ NotDispatched
  \/ \E state \in {"succeeded", "failed"} : End(state)
  \/ Check \/ Open \/ Record
  \/ Stop \/ Join \/ Close \/ Die
  \/ Parse \/ Bind \/ Publish \/ Rederive

Spec == Init /\ [][Next]_vars

-----------------------------------------------------------------------------
(* Properties *)

Windows == {"baseline", "setup", "warmup", "measured", "teardown"}

TypeOK ==
  /\ setting \in Settings
  /\ command \in {"run", "stop", "join", "close", "summarize", "succeeded", "failed", "raised"}
  /\ torn \subseteq {"log", "series"} /\ unlogged \in {"no", "yes", "noted"}
  /\ outcome \in {None, "succeeded", "failed"}
  /\ manifest = None \/ manifest \in [state : {"succeeded", "failed"}, notes : BOOLEAN]
  /\ window \in Windows /\ current \in {None} \cup 1..LastStep
  /\ stop \in BOOLEAN /\ open \in BOOLEAN /\ outlived \in BOOLEAN
  /\ sampler \in {"check", "take", "probe", "dead"} /\ since \in {None} \cup Windows
  /\ Len(series) <= MaxSamples /\ Len(got) <= 2 /\ faults \in 0..MaxFaults
  /\ \A i \in DOMAIN log : log[i].step \in {None} \cup 1..LastStep

\* The summary that a run's command derives is bound to exactly what it was derived from, which
\* is all there ever is of the run, unless the sampling thread outlived its stop
\* (TelemetrySampler.stop, summarize_run_telemetry; RawRecordBinding: "provably a function of its
\* raw source").
BoundToSource ==
  (summary.by = "command" /\ ~outlived) =>
     summary.from = summary.bound /\ summary.from = Records

\* A sample is labelled with another window than its reading began in only if it is the first one
\* of its window (take_sample: the phase is read after the probe).
LabelledOnceLate ==
  \A i \in DOMAIN series :
     series[i].label = series[i].since \/ (i > 1 => series[i - 1].label # series[i].label)

\* What a summary offers to the paper was measured: the power was read twice, and once in the
\* measured window, and the run was one in a managed environment; if it began at its first step,
\* the tokens of every step past the warm-up were counted; and the energy of the measured window
\* is part of the run's (_completeness, _throughput_validity, _integrate_energy).
PaperIsEarned ==
  summary.by # None =>
    LET lines == summary.from[2]
        samples == summary.from[3]
    IN /\ summary.complete =>
            /\ setting.managed /\ summary.by = "command"
            /\ \E i, j \in DOMAIN samples :
                 i < j /\ None \notin {samples[i].power, samples[j].power}
            /\ \E i \in DOMAIN samples :
                 /\ samples[i].power # None
                 /\ samples[i].label = "measured"
       /\ (summary.paper /\ setting.from = 0) =>
            /\ \E i \in DOMAIN lines : lines[i].step # None /\ lines[i].step > Warmup
            /\ \A i \in DOMAIN lines :
                 (lines[i].step # None /\ lines[i].step > Warmup) => lines[i].counted
       /\ summary.measured # None =>
            summary.run # None /\ summary.measured <= summary.run

\* A command that ends well has written a summary of a run whose manifest says so.
EndsWell == command = "succeeded" => summary.by # None /\ manifest.state = "succeeded"

MeasurementsAreEarned == BoundToSource /\ LabelledOnceLate /\ PaperIsEarned /\ EndsWell
================================================================================
