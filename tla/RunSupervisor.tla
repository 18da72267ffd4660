---------------------------- MODULE RunSupervisor ----------------------------
(***************************************************************************)
(* One supervised run: execute_run_subprocess (the parent), its worker     *)
(* process (platform/worker.py), the pipe between them, the run's durable  *)
(* record and the observer of its events.                                  *)
(*                                                                         *)
(* The parent reads one message at a time and checks its deadlines between *)
(* two reads.  Time is counted in ticks that are left until a deadline.    *)
(* A message is ok when it decodes, is new, is correlated to the dispatch  *)
(* and names this run, plan and backend; a result is proven when the       *)
(* parent re-derives its success from the bytes.                           *)
(***************************************************************************)
EXTENDS Naturals, Sequences

CONSTANTS
  SilenceTicks,   \* the progress deadline, in ticks
  PreflightTicks, \* the preflight deadline, in ticks
  MaxEvents,      \* bound: events of a run
  MaxPipe,        \* bound: messages the parent has not read
  MaxDrift,       \* bound: messages of a worker that breaks the protocol
  MaxFaults,      \* bound: failing writes and spawns
  None            \* no value yet

RunSupervisorAssumption ==
  /\ SilenceTicks \in Nat \ {0} /\ PreflightTicks \in Nat \ {0}
  /\ MaxEvents \in Nat /\ MaxPipe \in Nat \ {0}
  /\ MaxDrift \in Nat /\ MaxFaults \in Nat
  /\ None \notin Nat \cup {"succeeded", "failed"}

VARIABLES
  recording,  \* the caller asked for a durable record
  resolved,   \* the plan has a training preflight
  worker,     \* where the worker process is: "unborn", "gone" or in between
  seq,        \* the worker's next event number
  drift,      \* messages outside the protocol so far
  pipe,       \* messages sent and not read
  pc,         \* where the parent is
  progress,   \* ticks left until the silence deadline
  preflight,  \* ticks left until the preflight deadline, or None
  trained,    \* preflight_finished
  dispatched, \* run_dispatch was written
  accepted,   \* run_accepted was read
  lastSeq,    \* the number of the last event read, or None
  terminal,   \* the deferred terminal event, or None
  admitted,   \* the terminal result the parent admitted, or None
  manifest,   \* the state of the run's manifest, or None
  artifacts,  \* the artifact manifests are on disk
  durable,    \* the state in RunManifest.json, or None
  events,     \* SupervisedRun.events, and what the observer was told
  log,        \* the events in RunEvents.jsonl
  faults      \* failing writes and spawns so far

child    == <<worker, seq, drift>>
reading  == <<progress, preflight, trained, dispatched, accepted, lastSeq, terminal>>
evidence == <<admitted, manifest, artifacts, durable>>
vars == <<recording, resolved, child, pipe, pc, reading, evidence, events, log, faults>>

States == {"succeeded", "failed"}
Stages == {"preflight", "training", "none"} \* "none": the event names no stage

Event(n, stage) == [type |-> "event", ok |-> TRUE, seq |-> n, stage |-> stage]
TerminalEvent(n, state) == [type |-> "terminal", ok |-> TRUE, seq |-> n, state |-> state]
Result(state, proven) ==
  [type |-> "result", ok |-> TRUE, state |-> state, proven |-> proven]
Plain(type) == [type |-> type, ok |-> TRUE]
Garbage == [type |-> "garbage", ok |-> FALSE]

Messages ==
  {Garbage} \cup {Plain(t) : t \in {"hello", "accepted", "rejected", "failure", "heartbeat"}}
  \cup {Event(n, g) : n \in 0 .. MaxEvents, g \in Stages}
  \cup {TerminalEvent(n, s) : n \in 0 .. MaxEvents, s \in States}
  \cup {Result(s, b) : s \in States, b \in BOOLEAN}

Fault == faults < MaxFaults /\ faults' = faults + 1

-----------------------------------------------------------------------------
Init ==
  /\ recording \in BOOLEAN /\ resolved \in BOOLEAN
  /\ worker = "unborn" /\ seq = 0 /\ drift = 0 /\ pipe = <<>>
  /\ pc = "start"
  /\ progress = SilenceTicks /\ preflight = None /\ trained = FALSE
  /\ dispatched = FALSE /\ accepted = FALSE /\ lastSeq = None /\ terminal = None
  /\ admitted = None /\ manifest = None /\ artifacts = FALSE /\ durable = None
  /\ events = <<>> /\ log = <<>> /\ faults = 0

-----------------------------------------------------------------------------
(* The worker process *)

Send(m) == Len(pipe) < MaxPipe /\ pipe' = Append(pipe, m)

WorkerOnly == UNCHANGED <<recording, resolved, pc, reading, evidence, events, log, faults>>

SendHello ==
  /\ worker = "start"
  /\ Send(Plain("hello")) /\ worker' = "hello"
  /\ UNCHANGED <<seq, drift>> /\ WorkerOnly

\* The worker's backend is unknown to it: it says so and exits.
SendFailure ==
  /\ worker = "start"
  /\ Send(Plain("failure")) /\ worker' = "gone"
  /\ UNCHANGED <<seq, drift>> /\ WorkerOnly

AcceptDispatch ==
  /\ worker = "hello" /\ dispatched
  /\ Send(Plain("accepted")) /\ worker' = "running"
  /\ UNCHANGED <<seq, drift>> /\ WorkerOnly

RejectDispatch ==
  /\ worker = "hello" /\ dispatched
  /\ Send(Plain("rejected")) /\ worker' = "gone"
  /\ UNCHANGED <<seq, drift>> /\ WorkerOnly

EmitEvent ==
  /\ worker = "running" /\ seq < MaxEvents
  /\ \E stage \in Stages : Send(Event(seq, stage))
  /\ seq' = seq + 1
  /\ UNCHANGED <<worker, drift>> /\ WorkerOnly

\* A ping that is no progress, as often as the worker likes.
Heartbeat ==
  /\ worker = "running"
  /\ Send(Plain("heartbeat"))
  /\ UNCHANGED child /\ WorkerOnly

\* execute_run ends in the worker, by itself or by a classified failure.
EmitTerminal ==
  /\ worker = "running"
  /\ \E state \in States :
       /\ Send(TerminalEvent(seq, state))
       /\ worker' = IF state = "succeeded" THEN "succeeding" ELSE "failing"
  /\ UNCHANGED <<seq, drift>> /\ WorkerOnly

SendResult ==
  /\ worker \in {"succeeding", "failing"}
  /\ \E proven \in BOOLEAN :
       Send(Result(IF worker = "succeeding" THEN "succeeded" ELSE "failed", proven))
  /\ worker' = "gone"
  /\ UNCHANGED <<seq, drift>> /\ WorkerOnly

\* A crash, at any moment.
WorkerDies ==
  /\ worker \notin {"unborn", "gone"}
  /\ worker' = "gone"
  /\ UNCHANGED <<seq, drift, pipe>> /\ WorkerOnly

\* A worker of another version, or a broken one, sends anything.
WorkerDrifts ==
  /\ worker \notin {"unborn", "gone"} /\ drift < MaxDrift
  /\ \E m \in Messages : Send(m)
  /\ drift' = drift + 1
  /\ UNCHANGED <<worker, seq>> /\ WorkerOnly

-----------------------------------------------------------------------------
(* The parent: before the worker runs *)

\* A manifest that is written once, outside every guard: an error of the write
\* leaves the supervisor.
WriteOrRaise ==
  \/ ~recording /\ pc' = "returned" /\ UNCHANGED <<durable, faults>>
  \/ recording /\ durable' = "failed" /\ pc' = "returned" /\ UNCHANGED faults
  \/ recording /\ Fault /\ pc' = "raised" /\ UNCHANGED durable

\* _refuse_before_spawn: the seal, the schedule or the lane does not hold.
RefuseBeforeSpawn ==
  /\ pc = "start"
  /\ manifest' = "failed"
  /\ WriteOrRaise
  /\ UNCHANGED <<recording, resolved, child, pipe, reading, admitted, artifacts, events, log>>

Spawn ==
  /\ pc = "start"
  /\ worker' = "start" /\ pc' = "check"
  /\ UNCHANGED <<recording, resolved, seq, drift, pipe, reading, evidence, events, log, faults>>

SpawnFails ==
  /\ pc = "start"
  /\ Fault
  /\ manifest' = "failed" /\ pc' = "unspawned"
  /\ UNCHANGED <<recording, resolved, child, pipe, reading, admitted, artifacts, durable,
                 events, log>>

WriteUnspawned ==
  /\ pc = "unspawned"
  /\ WriteOrRaise
  /\ UNCHANGED <<recording, resolved, child, pipe, reading, admitted, manifest, artifacts,
                 events, log>>

-----------------------------------------------------------------------------
(* The parent: the read loop *)

Expired == IF preflight # None THEN preflight = 0 ELSE progress = 0

\* Time passes.
Tick ==
  /\ pc \in {"check", "get"} /\ ~Expired
  /\ progress' = IF progress = 0 THEN 0 ELSE progress - 1
  /\ preflight' = IF preflight \in {None, 0} THEN preflight ELSE preflight - 1
  /\ UNCHANGED <<recording, resolved, child, pipe, pc, trained, dispatched, accepted,
                 lastSeq, terminal, evidence, events, log, faults>>

CheckDeadline ==
  /\ pc = "check"
  /\ pc' = IF Expired THEN "terminate" ELSE "get"
  /\ UNCHANGED <<recording, resolved, child, pipe, reading, evidence, events, log, faults>>

\* lines.get timed out.
NothingRead ==
  /\ pc = "get" /\ pipe = <<>> /\ Expired
  /\ pc' = "check"
  /\ UNCHANGED <<recording, resolved, child, pipe, reading, evidence, events, log, faults>>

\* The worker's stdout is closed and every line of it was read.
ReadEof ==
  /\ pc = "get" /\ pipe = <<>> /\ worker = "gone"
  /\ pc' = "terminate"
  /\ UNCHANGED <<recording, resolved, child, pipe, reading, evidence, events, log, faults>>

\* What the loop takes from the worker without a WorkerProtocolError.
Legal(m) ==
  /\ m.ok
  /\ terminal # None => m.type = "result"
  /\ CASE ~dispatched                        -> m.type = "hello"
       [] m.type = "accepted"                -> ~accepted
       [] m.type = "rejected"                -> ~accepted
       [] m.type \in {"event", "terminal"}   ->
            accepted /\ (lastSeq # None => m.seq > lastSeq)
       [] m.type = "heartbeat"               -> accepted
       [] m.type = "result"                  ->
            accepted /\ (terminal # None => terminal.state = m.state)
       [] OTHER                              -> m.type = "failure"

\* Reads message m, which is of one of the types.
Reads(m, types) ==
  /\ pc = "get" /\ pipe # <<>> /\ m = Head(pipe)
  /\ Legal(m) /\ m.type \in types
  /\ pipe' = Tail(pipe)

ReadIllegal ==
  /\ pc = "get" /\ pipe # <<>> /\ ~Legal(Head(pipe))
  /\ pipe' = Tail(pipe)
  /\ pc' = "terminate"
  /\ UNCHANGED <<recording, resolved, child, reading, evidence, events, log, faults>>

\* hello is answered by run_dispatch; run_accepted is remembered.
ReadHandshake(m) ==
  /\ Reads(m, {"hello", "accepted"})
  /\ IF m.type = "hello" THEN dispatched' = TRUE /\ UNCHANGED accepted
                         ELSE accepted' = TRUE /\ UNCHANGED dispatched
  /\ progress' = SilenceTicks
  /\ pc' = "check"
  /\ UNCHANGED <<recording, resolved, child, preflight, trained, lastSeq, terminal, evidence,
                 events, log, faults>>

\* _observe_stage.
ObserveStage(stage) ==
  IF resolved /\ ~trained /\ stage = "preflight"
  THEN /\ preflight' = IF preflight = None THEN PreflightTicks ELSE preflight
       /\ UNCHANGED trained
  ELSE trained' = (trained \/ resolved) /\ preflight' = None

\* An event is forwarded, to the observer too, and logged if it can be.
ReadEvent(m) ==
  /\ Reads(m, {"event"})
  /\ lastSeq' = m.seq
  /\ events' = Append(events, m)
  /\ \/ recording /\ log' = Append(log, m) /\ UNCHANGED faults
     \/ ~recording /\ UNCHANGED <<log, faults>>
     \/ recording /\ Fault /\ UNCHANGED log
  /\ IF m.stage = "none" THEN UNCHANGED <<preflight, trained>> ELSE ObserveStage(m.stage)
  /\ progress' = SilenceTicks
  /\ pc' = "check"
  /\ UNCHANGED <<recording, resolved, child, dispatched, accepted, terminal, evidence>>

\* The worker's terminal event is kept back until the run's state is known.
ReadTerminalEvent(m) ==
  /\ Reads(m, {"terminal"})
  /\ lastSeq' = m.seq /\ terminal' = m
  /\ progress' = SilenceTicks
  /\ pc' = "check"
  /\ UNCHANGED <<recording, resolved, child, preflight, trained, dispatched, accepted,
                 evidence, events, log, faults>>

\* Faulty variant: a heartbeat counts as progress.
ReadHeartbeatAsProgress(m) ==
  /\ Reads(m, {"heartbeat"})
  /\ progress' = SilenceTicks
  /\ pc' = "check"
  /\ UNCHANGED <<recording, resolved, child, preflight, trained, dispatched, accepted,
                 lastSeq, terminal, evidence, events, log, faults>>

ReadHeartbeat(m) ==
  /\ Reads(m, {"heartbeat"})
  /\ pc' = "check"
  /\ UNCHANGED <<recording, resolved, child, reading, evidence, events, log, faults>>

\* run_rejected or failure.
ReadRejection(m) ==
  /\ Reads(m, {"rejected", "failure"})
  /\ pc' = "terminate"
  /\ UNCHANGED <<recording, resolved, child, reading, evidence, events, log, faults>>

\* Faulty variant: the parent believes the worker.
ReadResultUnproven(m) ==
  /\ Reads(m, {"result"})
  /\ admitted' = m
  /\ pc' = "terminate"
  /\ UNCHANGED <<recording, resolved, child, reading, manifest, artifacts, durable, events,
                 log, faults>>

\* terminal_result is the last message; a success needs its evidence.
ReadResult(m) ==
  /\ Reads(m, {"result"})
  /\ admitted' = IF m.state = "succeeded" /\ ~m.proven THEN None ELSE m
  /\ pc' = "terminate"
  /\ UNCHANGED <<recording, resolved, child, reading, manifest, artifacts, durable, events,
                 log, faults>>

-----------------------------------------------------------------------------
(* The parent: after the loop *)

\* Faulty variant: only a worker that was too slow is terminated.
TerminateIfExpired ==
  /\ pc = "terminate"
  /\ worker' = IF Expired THEN "gone" ELSE worker
  /\ pipe' = <<>>
  /\ manifest' = IF admitted = None THEN "failed" ELSE admitted.state
  /\ pc' = IF recording THEN "artifacts" ELSE "announce"
  /\ UNCHANGED <<recording, resolved, seq, drift, reading, admitted, artifacts, durable,
                 events, log, faults>>

\* The finally: the worker's process tree ends.  Then _finalize.
Terminate ==
  /\ pc = "terminate"
  /\ worker' = "gone" /\ pipe' = <<>>
  /\ manifest' = IF admitted = None THEN "failed" ELSE admitted.state
  /\ pc' = IF recording THEN "artifacts" ELSE "announce"
  /\ UNCHANGED <<recording, resolved, seq, drift, reading, admitted, artifacts, durable,
                 events, log, faults>>

PersistArtifacts ==
  /\ pc = "artifacts"
  /\ \/ artifacts' = (admitted # None) /\ UNCHANGED <<manifest, faults>>
     \/ Fault /\ manifest' = "failed" /\ UNCHANGED artifacts
  /\ pc' = "manifest"
  /\ UNCHANGED <<recording, resolved, child, pipe, reading, admitted, durable, events, log>>

\* A success that cannot be made durable is no success: it is written as a
\* failure, once.
PersistManifest ==
  /\ pc = "manifest"
  /\ \/ durable' = manifest /\ pc' = "announce" /\ UNCHANGED <<manifest, faults>>
     \/ /\ Fault
        /\ manifest' = "failed"
        /\ pc' = IF manifest = "succeeded" THEN "retry" ELSE "announce"
        /\ UNCHANGED durable
  /\ UNCHANGED <<recording, resolved, child, pipe, reading, admitted, artifacts, events, log>>

RetryManifest ==
  /\ pc = "retry"
  /\ \/ durable' = manifest /\ UNCHANGED faults
     \/ Fault /\ UNCHANGED durable
  /\ pc' = "announce"
  /\ UNCHANGED <<recording, resolved, child, pipe, reading, admitted, manifest, artifacts,
                 events, log>>

\* Faulty variant: the worker's own terminal event is passed on.
AnnounceWorkers ==
  /\ pc = "announce"
  /\ events' = IF terminal # None THEN Append(events, terminal) ELSE events
  /\ pc' = "returned"
  /\ UNCHANGED <<recording, resolved, child, pipe, reading, evidence, log, faults>>

\* The terminal event of an accepted run carries the manifest's state.  If the
\* observer raises, the manifest is written again, with a note.
Announce ==
  /\ pc = "announce"
  /\ events' = IF ~accepted THEN events
               ELSE Append(events,
                 TerminalEvent(CASE terminal # None -> terminal.seq
                                 [] lastSeq # None  -> lastSeq + 1
                                 [] OTHER           -> 0, manifest))
  /\ durable' \in IF recording /\ accepted THEN {durable, manifest} ELSE {durable}
  /\ pc' = "returned"
  /\ UNCHANGED <<recording, resolved, child, pipe, reading, admitted, manifest, artifacts,
                 log, faults>>

\* The supervision is over.
Over == pc \in {"returned", "raised", "dead"}

\* The parent dies; its worker is left behind.
ParentDies ==
  /\ ~Over
  /\ Fault
  /\ pc' = "dead"
  /\ UNCHANGED <<recording, resolved, child, pipe, reading, evidence, events, log>>

-----------------------------------------------------------------------------
Working ==
  \/ SendHello \/ SendFailure \/ AcceptDispatch \/ RejectDispatch
  \/ EmitEvent \/ Heartbeat \/ EmitTerminal \/ SendResult
  \/ WorkerDies \/ WorkerDrifts

Reading ==
  \/ ReadIllegal
  \/ pipe # <<>> /\ \E m \in {Head(pipe)} :
       \/ ReadHandshake(m) \/ ReadEvent(m) \/ ReadTerminalEvent(m)
       \/ ReadHeartbeat(m) \/ ReadRejection(m) \/ ReadResult(m)

Supervising ==
  \/ RefuseBeforeSpawn \/ Spawn \/ SpawnFails \/ WriteUnspawned
  \/ CheckDeadline \/ NothingRead \/ ReadEof \/ Reading
  \/ Terminate \/ PersistArtifacts \/ PersistManifest \/ RetryManifest \/ Announce

Next == Working \/ Supervising \/ Tick \/ ParentDies

Spec == Init /\ [][Next]_vars

\* The parent's thread is scheduled and time passes.  Nothing is assumed of the
\* worker.
FairSpec == Spec /\ WF_vars(Supervising) /\ WF_vars(Tick)

-----------------------------------------------------------------------------
(* Properties *)

\* What the record logs, and what the observer is told.
Logged == [type : {"event"}, ok : {TRUE}, seq : Nat, stage : Stages]
Told == Logged \cup [type : {"terminal"}, ok : {TRUE}, seq : Nat, state : States]

TypeOK ==
  /\ recording \in BOOLEAN /\ resolved \in BOOLEAN
  /\ worker \in {"unborn", "start", "hello", "running", "succeeding", "failing", "gone"}
  /\ seq \in 0 .. MaxEvents /\ drift \in 0 .. MaxDrift
  /\ pipe \in Seq(Messages)
  /\ pc \in {"start", "unspawned", "check", "get", "terminate", "artifacts", "manifest",
             "retry", "announce", "returned", "raised", "dead"}
  /\ progress \in 0 .. SilenceTicks /\ preflight \in (0 .. PreflightTicks) \cup {None}
  /\ trained \in BOOLEAN /\ dispatched \in BOOLEAN /\ accepted \in BOOLEAN
  /\ lastSeq \in (0 .. MaxEvents) \cup {None}
  /\ terminal \in Messages \cup {None} /\ admitted \in Messages \cup {None}
  /\ manifest \in States \cup {None} /\ durable \in States \cup {None}
  /\ artifacts \in BOOLEAN
  /\ events \in Seq(Told)
  /\ log \in Seq(Logged)
  /\ faults \in 0 .. MaxFaults

\* A run is recorded as succeeded only when the worker claimed it after it had
\* accepted the dispatch, the parent proved the claim, and every artifact
\* manifest the record refers to is on disk (the writes come in that order).
SuccessIsProven ==
  durable = "succeeded" =>
    /\ accepted /\ admitted # None /\ admitted.state = "succeeded" /\ admitted.proven
    /\ artifacts

\* Whoever learns how the run ended learns the same: the observer sees the events
\* in the order of their numbers, the terminal one last (a repeated or late event
\* is a protocol failure); it, the returned manifest and the durable manifest
\* agree; and a recorded run is not called a success without a durable record,
\* whatever the worker sends and whichever writes failed.
Announced(e) == e.type = "terminal"

ChannelsAgree ==
  /\ \A i, j \in DOMAIN events : i < j => events[i].seq < events[j].seq
  /\ \A i \in DOMAIN events : Announced(events[i]) =>
       /\ i = Len(events) /\ pc \in {"returned"} /\ events[i].state = manifest
  /\ pc = "returned" /\ durable # None => durable = manifest
  /\ pc = "returned" /\ recording /\ manifest = "succeeded" => durable = "succeeded"

\* No worker outlives the supervision: once the parent has left the loop and its
\* finally, the worker's process tree is gone, however the loop ended.
NoOrphan ==
  pc \in {"artifacts", "manifest", "retry", "announce", "returned", "raised"}
    => worker \in {"unborn", "gone"}

\* Every supervised run ends, even when the worker never says anything, never
\* exits, or only ever sends heartbeats.
SupervisionEnds == <>Over
=============================================================================
