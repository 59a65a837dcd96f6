-------------------------- MODULE MatchingPipeline --------------------------
(***************************************************************************)
(* The matching pipeline: producers submit() commands to the MPSC queue;   *)
(* the matching thread pops one, stamps it with the next command sequence  *)
(* number and processes it; the owner asks it to stop and joins it.        *)
(*                                                                         *)
(* The queue is the detailed MpscQueue, atomic access by atomic access.    *)
(* Processing a command is one step here: RiskGatedEngine and              *)
(* MatchingEngine model what happens inside it.                            *)
(***************************************************************************)
EXTENDS MpscQueue

VARIABLES
  mpc,           \* where the matching thread's loop is
  nextSequence,  \* CommandSequencer::next_sequence_
  processed,     \* history: [item, sequence] records in processing order
  rejected,      \* commands_rejected_
  admitted,      \* history: items whose submit() has returned true
  stopRequested, \* stop_source_
  queuedAtStop   \* history: the items admitted when stop() was called

loopVars == <<mpc, nextSequence, processed>>
stopVars == <<stopRequested, queuedAtStop>>
pipelineVars == <<vars, loopVars, stopVars, rejected, admitted>>

PipelineInit ==
  /\ Init
  /\ mpc = "poll"
  /\ nextSequence = 1
  /\ processed = << >>
  /\ rejected = 0
  /\ admitted = {}
  /\ stopRequested = FALSE
  /\ queuedAtStop = {}
-----------------------------------------------------------------------------
(***************************************************************************)
(* submit(), on any producer thread.                                       *)
(***************************************************************************)
SubmitBegin(p) ==
  LoadHead(p) /\ UNCHANGED <<loopVars, stopVars, rejected, admitted>>

\* Mutant of SubmitRejected: a refused command burns a sequence number.
SubmitRejectedSequenced(p) ==
  /\ GiveUp(p)
  /\ rejected' = rejected + 1
  /\ nextSequence' = nextSequence + 1
  /\ UNCHANGED <<mpc, processed, stopVars, admitted>>

\* The queue looked full: counted, and reported to the caller as false.
SubmitRejected(p) ==
  /\ GiveUp(p)
  /\ rejected' = rejected + 1
  /\ UNCHANGED <<loopVars, stopVars, admitted>>

SubmitStep(p) ==
  /\ \/ HasRoom(p) \/ Reserve(p) \/ Retry(p)
     \/ Construct(p) \/ Publish(p) \/ LoadOccupancy(p)
  /\ UNCHANGED <<loopVars, stopVars, rejected, admitted>>

\* try_push, and with it submit(), returns true.
SubmitAdmitted(p) ==
  /\ RaiseMark(p)
  /\ admitted' = admitted \cup {Item(p)}
  /\ UNCHANGED <<loopVars, stopVars, rejected>>
-----------------------------------------------------------------------------
(***************************************************************************)
(* The matching thread.                                                    *)
(***************************************************************************)
\* try_pop() finds a command and works through it to the return.
PopCommand ==
  /\ mpc = "poll"
  /\ PopBegin \/ Take \/ ClearTicket
  /\ UNCHANGED <<loopVars, stopVars, rejected, admitted>>

PopReturns ==
  /\ mpc = "poll" /\ mpc' = "process"
  /\ AdvanceTail
  /\ UNCHANGED <<nextSequence, processed, stopVars, rejected, admitted>>

\* Sequenced on this thread, after the pop, then handed to the processor.
ProcessCommand ==
  /\ mpc = "process" /\ mpc' = "poll"
  /\ processed' = Append(processed, [item     |-> received[Len(received)],
                                     sequence |-> nextSequence])
  /\ nextSequence' = nextSequence + 1
  /\ UNCHANGED <<vars, stopVars, rejected, admitted>>

\* try_pop() returned nullopt; the stop token is read afterwards.
PollFindsNothing ==
  /\ mpc = "poll" /\ mpc' = "check"
  /\ PopEmpty
  /\ UNCHANGED <<nextSequence, processed, stopVars, rejected, admitted>>

\* Mutant of CheckStop: leaves on an empty queue.
LeaveWhenEmpty ==
  /\ mpc = "check"
  /\ mpc' = "exited"
  /\ UNCHANGED <<vars, nextSequence, processed, stopVars, rejected, admitted>>

CheckStop ==
  /\ mpc = "check"
  /\ mpc' = IF stopRequested THEN "exited" ELSE "poll"
  /\ UNCHANGED <<vars, nextSequence, processed, stopVars, rejected, admitted>>

\* stop(), on the owner's thread: what is already queued is noted.
RequestStop ==
  /\ ~stopRequested
  /\ stopRequested' = TRUE
  /\ queuedAtStop' = admitted
  /\ UNCHANGED <<vars, loopVars, rejected, admitted>>

\* join() returned and nobody submits any more.
Finished ==
  /\ mpc = "exited"
  /\ \A p \in Producers : pc[p] = "idle" /\ pushes[p] = MaxPushes
  /\ UNCHANGED pipelineVars
-----------------------------------------------------------------------------
MatchingThread ==
  PopCommand \/ PopReturns \/ ProcessCommand \/ PollFindsNothing \/ CheckStop

SubmitContinues(p) == SubmitStep(p) \/ SubmitAdmitted(p) \/ SubmitRejected(p)

PipelineNext ==
  \/ \E p \in Producers : SubmitBegin(p) \/ SubmitContinues(p)
  \/ MatchingThread
  \/ RequestStop
  \/ Finished

PipelineSpec == PipelineInit /\ [][PipelineNext]_pipelineVars

(***************************************************************************)
(* The matching thread keeps running, and a producer does not stop in the  *)
(* middle of try_push; nobody has to submit or to call stop().             *)
(***************************************************************************)
FairPipelineSpec ==
  /\ PipelineSpec
  /\ WF_pipelineVars(MatchingThread)
  /\ \A p \in Producers : WF_pipelineVars(SubmitContinues(p))
-----------------------------------------------------------------------------
(***************************************************************************)
(* Properties.                                                             *)
(***************************************************************************)
PipelineTypeOK ==
  /\ TypeOK
  /\ mpc \in {"poll", "process", "check", "exited"}
  /\ nextSequence \in Nat
  /\ processed \in Seq([item : Items, sequence : Nat])
  /\ rejected \in Nat
  /\ admitted \subseteq Items
  /\ stopRequested \in BOOLEAN
  /\ queuedAtStop \subseteq Items

\* command_sequence is gapless from 1 and follows the admission order: a
\* full-queue rejection punches no gap, and no command is stamped twice.  So,
\* "per producer FIFO": who submits A then B has A processed before B.
SequencedInAdmissionOrder ==
  /\ nextSequence = Len(processed) + 1
  /\ \A n \in 1..Len(processed) :
       processed[n].sequence = n /\ processed[n].item = log[n]

ProcessedItems == {processed[n].item : n \in 1..Len(processed)}

\* "Asks the matching thread to stop once it has processed everything already
\* queued -- never mid-drain".  Not so: see README.md, Disagreements.
StopDrainsTheQueue == mpc = "exited" => queuedAtStop \subseteq ProcessedItems

\* As long as nobody calls stop(), every admitted command is processed.
AdmittedIsProcessed ==
  \A item \in Items :
    item \in admitted ~> (item \in ProcessedItems \/ stopRequested)
=============================================================================
