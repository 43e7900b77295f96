------------------------------ MODULE SkillRun ------------------------------
(***************************************************************************)
(* A run of a skill (clawork-skills): the request goes down a pipe to a    *)
(* wasmtime process, and only when all of it is written are the output     *)
(* read and the time limit set.  The process is the skill's: it reads and  *)
(* writes as it likes.  Requests, pipes and output are counted in chunks   *)
(* of the size of a pipe's smallest unit.                                  *)
(***************************************************************************)
EXTENDS Integers

CONSTANTS
  RequestSizes, \* sizes a request may have
  MaxRequest,   \* max_request_bytes
  PipeSize,     \* what a pipe holds
  MaxStdout,    \* what is read of the output at most
  MaxOutput     \* bound: what the skill writes

ASSUME SkillRunAssumption ==
  /\ RequestSizes \subseteq Nat
  /\ MaxRequest \in Nat
  /\ PipeSize \in Nat \ {0}
  /\ MaxStdout \in Nat
  /\ MaxOutput \in Nat

VARIABLES
  size,    \* size of the request
  phase,   \* how far the run is
  unsent,  \* what is still to be written of the request
  stdin,   \* in the pipe to the process
  stdout,  \* in the pipe from it
  process, \* the process
  written, \* what it wrote so far
  output,  \* what was read of it
  reader   \* the task that reads it

runVars == <<size, phase, unsent, stdin, stdout, process, written, output, reader>>

Over == {"succeeded", "failed", "dropped"}

Dead == {"exited", "errored", "killed"}

-----------------------------------------------------------------------------
(* wait_with_output_with_stdin.                                            *)

\* The process is killed when its handle is dropped.
Finish(outcome) ==
  /\ phase' = outcome
  /\ process' = IF process = "running" THEN "killed" ELSE process

\* run_wasi_json_stdio: a request that is too large starts no process.
RunSkill(n) ==
  /\ phase = "idle"
  /\ size' = n
  /\ IF n > MaxRequest
     THEN phase' = "failed" /\ UNCHANGED <<process, unsent>>
     ELSE phase' = "write" /\ process' = "running" /\ unsent' = n
  /\ UNCHANGED <<stdin, stdout, written, output, reader>>

\* Writing blocks while the pipe is full; a process that is gone ends the run.
WriteStdin ==
  /\ phase = "write"
  /\ unsent > 0
  /\ IF process \in Dead
     THEN Finish("failed") /\ UNCHANGED <<unsent, stdin>>
     ELSE /\ stdin < PipeSize
          /\ unsent' = unsent - 1
          /\ stdin' = stdin + 1
          /\ UNCHANGED <<phase, process>>
  /\ UNCHANGED <<size, stdout, written, output, reader>>

CloseStdin ==
  /\ phase = "write"
  /\ unsent = 0
  /\ phase' = "wait"
  /\ reader' = "reads"
  /\ UNCHANGED <<size, unsent, stdin, stdout, process, written, output>>

\* read_limited: up to the limit; a reader that ends closes the pipe.
ReadLimited ==
  /\ reader = "reads"
  /\ \/ /\ stdout > 0
        /\ stdout' = stdout - 1
        /\ IF output + 1 > MaxStdout
           THEN reader' = "exceeded" /\ UNCHANGED output
           ELSE output' = output + 1 /\ UNCHANGED reader
     \/ /\ stdout = 0
        /\ process \in Dead
        /\ reader' = "end"
        /\ UNCHANGED <<stdout, output>>
  /\ UNCHANGED <<size, phase, unsent, stdin, process, written>>

Wait ==
  /\ phase = "wait"
  /\ process \in Dead
  /\ phase' = "join"
  /\ UNCHANGED <<size, unsent, stdin, stdout, process, written, output, reader>>

\* Mutant: the process is left to itself when its time is over.
TimeOutOnly ==
  /\ phase = "wait"
  /\ process = "running"
  /\ phase' = "failed"
  /\ UNCHANGED <<size, unsent, stdin, stdout, process, written, output, reader>>

TimeOutSkill ==
  /\ phase = "wait"
  /\ process = "running"
  /\ Finish("failed")
  /\ UNCHANGED <<size, unsent, stdin, stdout, written, output, reader>>

\* Mutant: what has been read when the process exits is taken for the output.
JoinEarly ==
  /\ phase = "join"
  /\ Finish(IF reader # "exceeded" /\ process = "exited" THEN "succeeded" ELSE "failed")
  /\ UNCHANGED <<size, unsent, stdin, stdout, written, output, reader>>

\* The readers are joined, and then the status counts.
Join ==
  /\ phase = "join"
  /\ reader \in {"end", "exceeded"}
  /\ Finish(IF reader = "end" /\ process = "exited" THEN "succeeded" ELSE "failed")
  /\ UNCHANGED <<size, unsent, stdin, stdout, written, output, reader>>

\* Whoever waits for the run hangs up.
Drop ==
  /\ phase \notin Over \union {"idle"}
  /\ Finish("dropped")
  /\ UNCHANGED <<size, unsent, stdin, stdout, written, output, reader>>

-----------------------------------------------------------------------------
(* The process.                                                            *)

ReadInput ==
  /\ process = "running"
  /\ stdin > 0
  /\ stdin' = stdin - 1
  /\ UNCHANGED <<size, phase, unsent, stdout, process, written, output, reader>>

\* It blocks while the pipe is full, and fails when the reader is gone.
WriteOutput ==
  /\ process = "running"
  /\ written < MaxOutput
  /\ IF reader = "exceeded"
     THEN process' = "errored" /\ UNCHANGED <<stdout, written>>
     ELSE /\ stdout < PipeSize
          /\ stdout' = stdout + 1
          /\ written' = written + 1
          /\ UNCHANGED process
  /\ UNCHANGED <<size, phase, unsent, stdin, output, reader>>

ExitSkill ==
  /\ process = "running"
  /\ process' \in {"exited", "errored"}
  /\ UNCHANGED <<size, phase, unsent, stdin, stdout, written, output, reader>>

-----------------------------------------------------------------------------

RunInit ==
  /\ size = 0
  /\ phase = "idle"
  /\ unsent = 0
  /\ stdin = 0
  /\ stdout = 0
  /\ process = "none"
  /\ written = 0
  /\ output = 0
  /\ reader = "none"

Runtime == WriteStdin \/ CloseStdin \/ Wait \/ TimeOutSkill \/ Join

RunNext ==
  \/ \E n \in RequestSizes : RunSkill(n)
  \/ Runtime \/ ReadLimited \/ Drop \/ ReadInput \/ WriteOutput \/ ExitSkill

RunSpec == RunInit /\ [][RunNext]_runVars

\* The runtime's tasks run on, and its time limit comes; nothing is assumed of
\* the skill, nor that anyone hangs up.
FairRun == RunSpec /\ WF_runVars(Runtime) /\ WF_runVars(ReadLimited)

-----------------------------------------------------------------------------
(* Properties.                                                             *)

\* Every variable has its type, and the pipes hold what they can.
RunTypeOK ==
  /\ phase \in Over \union {"idle", "write", "wait", "join"}
  /\ unsent \in 0 .. size
  /\ stdin \in 0 .. PipeSize
  /\ stdout \in 0 .. PipeSize
  /\ process \in Dead \union {"none", "running"}
  /\ output \in 0 .. MaxStdout
  /\ reader \in {"none", "reads", "end", "exceeded"}

\* A run that succeeds has read all the skill wrote, however the exit of the
\* process and the reading of its output crossed.
SuccessIsWhole == phase = "succeeded" => output = written

\* A run whose request fits the pipe ends within its time, whatever the skill
\* does, and leaves no process behind.  (One that does not may wait for ever to
\* be read: the time limit is not set until all of it is written.)
RunEnds ==
  phase # "idle" /\ size <= PipeSize ~> phase \in Over /\ process # "running"
=============================================================================
