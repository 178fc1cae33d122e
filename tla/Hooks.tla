------------------------------- MODULE Hooks -------------------------------
(***************************************************************************)
(* The post-create hooks of one jtp add (internal/hooks/executor.go): the  *)
(* main goroutine runs them one after the other; a command hook is a shell *)
(* whose stdout and stderr are pipes, drained by one goroutine each into   *)
(* one writer.  The shell may leave a background job behind that holds the *)
(* pipes as well.  The writer is the FlushingWriter of addCommand: once a  *)
(* write to it has failed, every later one fails.                          *)
(*                                                                         *)
(* A hook's output is a sequence of numbered chunks on each stream.        *)
(***************************************************************************)
EXTENDS Integers, Sequences, FiniteSets

CONSTANTS
    HookTypes,  \* the configured hooks: a sequence of "command", "files"
    Streams,    \* stdout and stderr
    Output,     \* [process -> [stream -> how many chunks it writes]]
    Shell,      \* the process jtp starts; the others are its background jobs
    PipeSize,   \* how many chunks a pipe holds
    WriterMayFail  \* the writer may stop accepting output

Processes == DOMAIN Output

ASSUME HooksAssumption ==
    /\ HookTypes \in Seq({"command", "files"}) /\ HookTypes # <<>>
    /\ IsFiniteSet(Streams) /\ Streams # {} /\ {"main", "free"} \cap Streams = {}
    /\ Output \in [Processes -> [Streams -> Nat]]
    /\ Shell \in Processes
    /\ PipeSize \in Nat \ {0}
    /\ WriterMayFail \in BOOLEAN

VARIABLES
    main,      \* what the main goroutine is doing
    hook,      \* which hook it is at
    received,  \* how many results it has taken from the channel done
    copier,    \* what the goroutine of each stream is doing
    hand,      \* the chunk each of them has read and not yet written
    mutex,     \* who holds synchronizedWriter.mu; "free" if nobody
    done,      \* the channel: TRUE for a stream copied to its end
    pipe,      \* the chunks in each pipe
    alive,     \* the processes that hold the write ends of the pipes
    todo,      \* how much each process has left to write
    sent,      \* how many chunks have gone into each pipe
    exit,      \* the shell's exit status
    out,       \* what this hook has put into the writer, by stream
    writerOK   \* the writer accepts output

mainVars == <<main, hook, received>>
copyVars == <<copier, hand, mutex, done>>
childVars == <<pipe, alive, todo, sent, exit>>
vars == <<mainVars, copyVars, childVars, out, writerOK>>

Nothing == [s \in Streams |-> <<>>]
Zero == [s \in Streams |-> 0]
NoOutput == [q \in Processes |-> Zero]

Init ==
    /\ main = "announce" /\ hook = 1 /\ received = 0
    /\ copier = [s \in Streams |-> "off"]
    /\ hand = Zero /\ mutex = "free" /\ done = <<>>
    /\ pipe = Nothing /\ alive = {} /\ todo = NoOutput /\ sent = Zero /\ exit = 0
    /\ out = Nothing /\ writerOK = TRUE

\* The main goroutine is inside a Write of its own.
MainWrites == {"announce", "confirm", "finish", "warn"}

-----------------------------------------------------------------------------
(* The main goroutine.                                                     *)

\* The lines before a hook; a failed write is a failed hook.
Announce ==
    /\ main = "announce"
    /\ main' = IF ~writerOK THEN "warn"
               ELSE IF HookTypes[hook] = "command" THEN "start" ELSE "files"
    /\ UNCHANGED <<hook, received, copyVars, childVars, out, writerOK>>

\* A copy or a symlink hook, which may fail.
RunFiles ==
    /\ main = "files"
    /\ main' \in {"confirm", "warn"}
    /\ UNCHANGED <<hook, received, copyVars, childVars, out, writerOK>>

\* The two pipes, cmd.Start and the two goroutines; cmd.Start may fail.
Start ==
    /\ main = "start"
    /\ \/ /\ main' = "receive"
          /\ received' = 0 /\ done' = <<>>
          /\ copier' = [s \in Streams |-> "read"]
          /\ alive' = Processes /\ todo' = Output
          /\ pipe' = Nothing /\ sent' = Zero /\ out' = Nothing
          /\ UNCHANGED <<hook, hand, mutex, exit, writerOK>>
       \/ /\ main' = "warn"
          /\ UNCHANGED <<hook, received, copyVars, childVars, out, writerOK>>

\* One result per stream; the first error ends the hook at once, without
\* waiting for the other stream or for the command.
ReceiveWaitFirst ==
    /\ main = "receive"
    /\ main' = "wait"
    /\ UNCHANGED <<hook, received, copyVars, childVars, out, writerOK>>
Receive ==
    /\ main = "receive"
    /\ done # <<>>
    /\ done' = Tail(done)
    /\ received' = received + 1
    /\ main' = IF ~Head(done) THEN "warn"
               ELSE IF received + 1 = Cardinality(Streams) THEN "wait" ELSE "receive"
    /\ UNCHANGED <<hook, copier, hand, mutex, childVars, out, writerOK>>

\* cmd.Wait: the shell's own exit, not its background jobs'.
Wait ==
    /\ main = "wait"
    /\ Shell \notin alive
    /\ main' = IF exit = 0 THEN "confirm" ELSE "warn"
    /\ UNCHANGED <<hook, received, copyVars, childVars, out, writerOK>>

\* The line after a hook, then the next hook or the line after all of them.
ConfirmOneMore ==
    /\ main = "confirm"
    /\ main' = "announce" /\ hook' = hook + 1
    /\ UNCHANGED <<received, copyVars, childVars, out, writerOK>>
Confirm ==
    /\ main = "confirm"
    /\ IF ~writerOK
         THEN main' = "warn" /\ UNCHANGED hook
         ELSE IF hook < Len(HookTypes)
           THEN main' = "announce" /\ hook' = hook + 1
           ELSE main' = "finish" /\ UNCHANGED hook
    /\ UNCHANGED <<received, copyVars, childVars, out, writerOK>>

\* "All hooks executed successfully", or the warning that one failed.
Finish ==
    /\ main \in {"finish", "warn"}
    /\ main' = IF main = "finish" /\ ~writerOK THEN "warn" ELSE "end"
    /\ UNCHANGED <<hook, received, copyVars, childVars, out, writerOK>>

-----------------------------------------------------------------------------
(* The goroutine of a stream: io.Copy into the synchronized writer.        *)

\* A read yields a chunk, or the end once no process holds the pipe.
CopyReadInTurn(s) ==
    /\ copier[s] = "read"
    /\ s # "stdout" => copier["stdout"] = "sent"
    /\ \/ /\ pipe[s] # <<>>
          /\ hand' = [hand EXCEPT ![s] = Head(pipe[s])]
          /\ pipe' = [pipe EXCEPT ![s] = Tail(@)]
          /\ copier' = [copier EXCEPT ![s] = "lock"]
          /\ UNCHANGED done
       \/ /\ pipe[s] = <<>> /\ alive = {}
          /\ copier' = [copier EXCEPT ![s] = "sent"]
          /\ done' = Append(done, TRUE)
          /\ UNCHANGED <<hand, pipe>>
    /\ UNCHANGED <<mainVars, mutex, alive, todo, sent, exit, out, writerOK>>
CopyReadSharedBuffer(s) ==
    /\ copier[s] = "read"
    /\ \/ /\ pipe[s] # <<>>
          /\ hand' = [t \in Streams |-> Head(pipe[s])]
          /\ pipe' = [pipe EXCEPT ![s] = Tail(@)]
          /\ copier' = [copier EXCEPT ![s] = "lock"]
          /\ UNCHANGED done
       \/ /\ pipe[s] = <<>> /\ alive = {}
          /\ copier' = [copier EXCEPT ![s] = "sent"]
          /\ done' = Append(done, TRUE)
          /\ UNCHANGED <<hand, pipe>>
    /\ UNCHANGED <<mainVars, mutex, alive, todo, sent, exit, out, writerOK>>
CopyRead(s) ==
    /\ copier[s] = "read"
    /\ \/ /\ pipe[s] # <<>>
          /\ hand' = [hand EXCEPT ![s] = Head(pipe[s])]
          /\ pipe' = [pipe EXCEPT ![s] = Tail(@)]
          /\ copier' = [copier EXCEPT ![s] = "lock"]
          /\ UNCHANGED done
       \/ /\ pipe[s] = <<>> /\ alive = {}
          /\ copier' = [copier EXCEPT ![s] = "sent"]
          /\ done' = Append(done, TRUE)
          /\ UNCHANGED <<hand, pipe>>
    /\ UNCHANGED <<mainVars, mutex, alive, todo, sent, exit, out, writerOK>>

\* synchronizedWriter.Write takes the mutex and enters the writer.
CopyNoLock(s) ==
    /\ copier[s] = "lock"
    /\ mutex' = s
    /\ copier' = [copier EXCEPT ![s] = "write"]
    /\ UNCHANGED <<mainVars, hand, done, childVars, out, writerOK>>
CopyLock(s) ==
    /\ copier[s] = "lock"
    /\ mutex = "free"
    /\ mutex' = s
    /\ copier' = [copier EXCEPT ![s] = "write"]
    /\ UNCHANGED <<mainVars, hand, done, childVars, out, writerOK>>

\* The write returns; an error ends the copy.
CopyWrite(s) ==
    /\ copier[s] = "write"
    /\ mutex' = "free"
    /\ IF writerOK
         THEN /\ out' = [out EXCEPT ![s] = Append(@, hand[s])]
              /\ copier' = [copier EXCEPT ![s] = "read"]
              /\ UNCHANGED done
         ELSE /\ copier' = [copier EXCEPT ![s] = "sent"]
              /\ done' = Append(done, FALSE)
              /\ UNCHANGED out
    /\ UNCHANGED <<mainVars, hand, childVars, writerOK>>

-----------------------------------------------------------------------------
(* The shell and its jobs, and the other end of the writer.                *)

\* A write into a full pipe blocks.
ProcessWrites(q, s) ==
    /\ q \in alive
    /\ todo[q][s] > 0 /\ Len(pipe[s]) < PipeSize
    /\ sent' = [sent EXCEPT ![s] = @ + 1]
    /\ pipe' = [pipe EXCEPT ![s] = Append(@, sent'[s])]
    /\ todo' = [todo EXCEPT ![q][s] = @ - 1]
    /\ UNCHANGED <<mainVars, copyVars, alive, exit, out, writerOK>>

ProcessExits(q) ==
    /\ q \in alive
    /\ todo[q] = Zero
    /\ alive' = alive \ {q}
    /\ IF q = Shell THEN exit' \in {0, 1} ELSE UNCHANGED exit
    /\ UNCHANGED <<mainVars, copyVars, pipe, todo, sent, out, writerOK>>

\* A process dies in the middle of its output.
ProcessKilled(q) ==
    /\ q \in alive
    /\ todo[q] # Zero
    /\ alive' = alive \ {q}
    /\ todo' = [todo EXCEPT ![q] = Zero]
    /\ exit' = IF q = Shell THEN 1 ELSE exit
    /\ UNCHANGED <<mainVars, copyVars, pipe, sent, out, writerOK>>

\* The terminal or the reader of jtp's own output goes away.
WriterFails ==
    /\ WriterMayFail /\ writerOK
    /\ writerOK' = FALSE
    /\ UNCHANGED <<mainVars, copyVars, childVars, out>>

-----------------------------------------------------------------------------
MainStep ==
    Announce \/ RunFiles \/ Start \/ Receive \/ Wait \/ Confirm \/ Finish

CopyStep(s) == CopyRead(s) \/ CopyLock(s) \/ CopyWrite(s)

ProcessStep(q) == (\E s \in Streams : ProcessWrites(q, s)) \/ ProcessExits(q)

Ended == main = "end" /\ UNCHANGED vars

Next ==
    \/ MainStep
    \/ \E s \in Streams : CopyStep(s)
    \/ \E q \in Processes : ProcessStep(q) \/ ProcessKilled(q)
    \/ WriterFails
    \/ Ended

\* The Go scheduler runs every goroutine, the kernel every process, and the
\* hook's processes do not run for ever.
Fairness ==
    /\ WF_vars(MainStep)
    /\ \A s \in Streams : WF_vars(CopyStep(s))
    /\ \A q \in Processes : WF_vars(ProcessStep(q))

Spec == Init /\ [][Next]_vars
FairSpec == Spec /\ Fairness

-----------------------------------------------------------------------------
(* Properties.                                                             *)

Chunks(n) == [i \in 1..n |-> i]

TypeOK ==
    /\ main \in {"announce", "files", "start", "receive", "wait", "confirm",
                 "finish", "warn", "end"}
    /\ hook \in 1..Len(HookTypes)
    /\ received \in 0..Cardinality(Streams)
    /\ copier \in [Streams -> {"off", "read", "lock", "write", "sent"}]
    /\ hand \in [Streams -> Nat] /\ mutex \in Streams \cup {"free"}
    /\ done \in Seq(BOOLEAN)
    /\ pipe \in [Streams -> Seq(Nat)] /\ sent \in [Streams -> Nat]
    /\ alive \subseteq Processes
    /\ todo \in [Processes -> [Streams -> Nat]]
    /\ exit \in {0, 1}
    /\ out \in [Streams -> Seq(Nat)] /\ writerOK \in BOOLEAN

\* The bufio.Writer has no lock of its own.  Never two streams inside it, whether
\* or not it still accepts output: the mutex keeps them apart.  The main goroutine
\* takes no mutex; it shares the writer with a stream only in the warning that
\* ends the hooks after a failed write, when the hook has returned without waiting
\* for the other goroutine.
OneWriter ==
    /\ \A s, t \in Streams : copier[s] = "write" /\ copier[t] = "write" => s = t
    /\ main \in MainWrites /\ (\E s \in Streams : copier[s] = "write")
         => main = "warn" /\ ~writerOK

\* Whatever a stream's chunks wait for, what comes out of the writer is what
\* went into the pipe, in order, nothing twice and nothing missing in between.
InOrder ==
    \A s \in Streams :
        \E n \in 0..sent[s] : out[s] = Chunks(n)

\* A command hook is only confirmed after all of its output has been written
\* and its shell has ended with status 0.
ConfirmedIsComplete ==
    main = "confirm" /\ HookTypes[hook] = "command" =>
        /\ exit = 0 /\ alive = {}
        /\ \A s \in Streams : out[s] = Chunks(sent[s])

\* Both streams have been copied to their end when the hook returns.  This is not
\* true once the writer fails: the first error ends the hook.
StreamsEndFirst ==
    main \in {"confirm", "warn"} =>
        \A s \in Streams : copier[s] \in {"off", "sent"}

\* No amount of output on either stream, in any order, blocks the hooks: both
\* pipes are drained at once, so neither can fill up while the other is read.
HooksEnd == <>(main = "end")
=============================================================================
