----------------------------- MODULE HooksProofs -----------------------------
(* Theorems about Hooks, for any hooks, any streams and processes, any      *)
(* amount of output and pipes of any size.                                  *)
EXTENDS Hooks, SequenceTheorems, FiniteSetTheorems, TLAPS

-----------------------------------------------------------------------------
(* The inductive invariant.                                                 *)

Sent == {s \in Streams : copier[s] = "sent"}

\* No goroutine of a stream is at work.
Quiet == \A s \in Streams : copier[s] \in {"off", "sent"}

\* The goroutine inside the writer is the one that holds the mutex.
MutexHeld == \A s \in Streams : copier[s] = "write" <=> mutex = s

\* The main goroutine goes on only after the streams have been copied to their
\* end, unless the writer has failed.
QuietOutside ==
    /\ main \notin {"receive", "warn", "end"} => Quiet
    /\ writerOK => (main # "receive" => Quiet)

\* Every stream at its end has put one result into the channel.
ResultsCounted == main = "receive" => Cardinality(Sent) = received + Len(done)

FailureSent == \E i \in 1..Len(done) : ~done[i]

Held(s) == IF copier[s] \in {"lock", "write"} THEN 1 ELSE 0
Written(s) == Len(out[s])

\* What is written, what is in hand and what is in the pipe of a stream follow
\* one another and make up all that was sent.
InSequence(s) ==
    /\ Written(s) + Held(s) + Len(pipe[s]) = sent[s]
    /\ \A i \in 1..Len(pipe[s]) : pipe[s][i] = Written(s) + Held(s) + i
    /\ Held(s) = 1 => hand[s] = Written(s) + 1

Ordered ==
    \A s \in Streams :
        /\ out[s] = Chunks(Written(s)) /\ Written(s) <= sent[s]
        /\ copier[s] \in {"read", "lock", "write"} => InSequence(s)

\* All that a stream will ever carry has been written.
Complete(s) == alive = {} /\ Written(s) = sent[s]

\* A stream that ended early has a failure in the channel, and a failure only
\* comes from the writer.
FailuresSeen ==
    /\ main = "receive" =>
         \A s \in Sent : Complete(s) \/ FailureSent
    /\ main = "receive" /\ FailureSent => ~writerOK

CompleteAfter ==
    /\ main = "files" => HookTypes[hook] = "files"
    /\ main = "wait" => \A s \in Streams : Complete(s)
    /\ main = "confirm" /\ HookTypes[hook] = "command" =>
         exit = 0 /\ \A s \in Streams : Complete(s)

HooksInv ==
    /\ TypeOK /\ MutexHeld /\ QuietOutside /\ ResultsCounted
    /\ Ordered /\ FailuresSeen /\ CompleteAfter

-----------------------------------------------------------------------------
(* Streams and chunks.                                                      *)

\* The first n chunks, with the next one behind them, are the first n + 1.
LEMMA NextChunk ==
    ASSUME NEW n \in Nat
    PROVE  /\ Chunks(n) \in Seq(Nat) /\ Len(Chunks(n)) = n
           /\ Append(Chunks(n), n + 1) = Chunks(n + 1)
  <1>1. Chunks(n) \in Seq(Nat) /\ Len(Chunks(n)) = n
    BY IsASeq DEF Chunks
  <1>2. Append(Chunks(n), n + 1) = Chunks(n + 1)
    BY <1>1, AppendProperties, SMTT(20) DEF Chunks
  <1> QED
    BY <1>1, <1>2

\* The streams at their end are finitely many; when they are as many as the
\* streams, they are all of them.
LEMMA SentFinite ==
    ASSUME HooksAssumption
    PROVE  /\ IsFiniteSet(Sent) /\ Cardinality(Sent) \in Nat
           /\ Cardinality(Streams) \in Nat
           /\ Cardinality(Sent) <= Cardinality(Streams)
           /\ Cardinality(Sent) = Cardinality(Streams) => Sent = Streams
  BY FS_Subset, FS_CardinalityType DEF Sent, HooksAssumption

\* A stream that comes to its end is one more.
LEMMA OneMoreSent ==
    ASSUME HooksAssumption, NEW s \in Streams, DOMAIN copier = Streams,
           copier[s] # "sent", copier' = [copier EXCEPT ![s] = "sent"]
    PROVE  Cardinality(Sent') = Cardinality(Sent) + 1
  <1>1. Sent' = Sent \cup {s} /\ s \notin Sent
    BY DEF Sent
  <1> QED
    BY <1>1, SentFinite, FS_AddElement

-----------------------------------------------------------------------------
(* Each step keeps the invariant.                                           *)

\* What the invariant says of the goroutines is not touched by a step of the
\* main goroutine that leaves them and the processes alone.
LEMMA MainAlone ==
    ASSUME HooksAssumption, HooksInv,
           UNCHANGED <<copyVars, childVars, out, writerOK>>
    PROVE  MutexHeld' /\ Ordered' /\ Sent' = Sent /\ (Quiet' <=> Quiet)
  BY DEF HooksInv, MutexHeld, Ordered, InSequence, Held, Written, Sent, Quiet,
       copyVars, childVars

\* Announce, RunFiles, Wait, Confirm and Finish move the main goroutine only.
LEMMA MainMoves ==
    ASSUME HooksAssumption, HooksInv,
           Announce \/ RunFiles \/ Wait \/ Confirm \/ Finish
    PROVE  HooksInv'
  <1> USE DEF HooksInv
  <1>1. UNCHANGED <<copyVars, childVars, out, writerOK, received>>
    BY DEF Announce, RunFiles, Wait, Confirm, Finish
  <1>2. MutexHeld' /\ Ordered' /\ Sent' = Sent /\ (Quiet' <=> Quiet)
    BY <1>1, MainAlone
  <1>3. /\ main' \in {"announce", "files", "start", "wait", "confirm", "finish", "warn", "end"}
        /\ hook' \in 1..Len(HookTypes)
    BY DEF HooksAssumption, TypeOK, Announce, RunFiles, Wait, Confirm, Finish
  <1>4. TypeOK'
    BY <1>1, <1>3 DEF TypeOK, copyVars, childVars
  <1>5. QuietOutside'
    BY <1>1, <1>2 DEF QuietOutside, Announce, RunFiles, Wait, Confirm, Finish
  <1>6. ResultsCounted' /\ FailuresSeen'
    BY <1>3 DEF ResultsCounted, FailuresSeen
  <1>7. CompleteAfter'
    <2>1. main' = "files" => HookTypes[hook'] = "files"
      BY DEF Announce, RunFiles, Wait, Confirm, Finish, TypeOK, HooksAssumption
    <2>2. main' # "wait"
      BY DEF Announce, RunFiles, Wait, Confirm, Finish
    <2>3. main' = "confirm" /\ HookTypes[hook'] = "command" =>
             exit' = 0 /\ \A s \in Streams : Complete(s)'
      BY <1>1 DEF Announce, RunFiles, Wait, Confirm, Finish, CompleteAfter, Complete,
           Written, childVars
    <2> QED
      BY <2>1, <2>2, <2>3 DEF CompleteAfter
  <1> QED
    BY <1>2, <1>4, <1>5, <1>6, <1>7

\* A hook that starts does so with nothing sent and nothing written.
LEMMA StartKeeps ==
    ASSUME HooksAssumption, HooksInv, Start
    PROVE  HooksInv'
  <1> USE DEF HooksInv
  <1>1. CASE main' = "warn" /\ UNCHANGED <<hook, received, copyVars, childVars, out, writerOK>>
    <2>1. MutexHeld' /\ Ordered' /\ Sent' = Sent /\ (Quiet' <=> Quiet)
      BY <1>1, MainAlone
    <2>2. TypeOK'
      BY <1>1 DEF TypeOK, copyVars, childVars
    <2>3. QuietOutside' /\ ResultsCounted' /\ FailuresSeen' /\ CompleteAfter'
      BY <1>1, <2>1 DEF Start, QuietOutside, ResultsCounted, FailuresSeen, CompleteAfter
    <2> QED
      BY <2>1, <2>2, <2>3
  <1>2. CASE main' = "receive"
    <2>1. /\ main = "start" /\ received' = 0 /\ done' = <<>>
          /\ copier' = [s \in Streams |-> "read"]
          /\ alive' = Processes /\ todo' = Output
          /\ pipe' = Nothing /\ sent' = Zero /\ out' = Nothing
          /\ UNCHANGED <<hook, hand, mutex, exit, writerOK>>
      BY <1>2 DEF Start
    <2>2. TypeOK'
      BY <1>2, <2>1, SentFinite DEF TypeOK, HooksAssumption, Nothing, Zero
    <2>3. MutexHeld'
      <3>1. \A s \in Streams : mutex # s
        BY <2>1 DEF MutexHeld, QuietOutside, Quiet
      <3> QED
        BY <2>1, <3>1 DEF MutexHeld
    <2>4. Sent' = {}
      BY <2>1 DEF Sent
    <2>5. ResultsCounted' /\ FailuresSeen'
      BY <2>1, <2>4, FS_EmptySet DEF ResultsCounted, FailuresSeen, FailureSent
    <2>6. Ordered'
      <3> SUFFICES ASSUME NEW s \in Streams
                   PROVE  /\ out'[s] = Chunks(Written(s)') /\ Written(s)' <= sent'[s]
                          /\ InSequence(s)'
        BY DEF Ordered, Written
      <3>1. out'[s] = <<>> /\ pipe'[s] = <<>> /\ sent'[s] = 0 /\ copier'[s] = "read"
        BY <2>1 DEF Nothing, Zero
      <3>2. Chunks(0) = <<>>
        BY DEF Chunks
      <3> QED
        BY <3>1, <3>2 DEF InSequence, Held, Written
    <2>7. QuietOutside' /\ CompleteAfter'
      BY <1>2 DEF QuietOutside, CompleteAfter
    <2> QED
      BY <2>2, <2>3, <2>5, <2>6, <2>7
  <1> QED
    BY <1>1, <1>2 DEF Start

\* A result taken from the channel leads to "wait" only when every stream has been
\* written completely.
LEMMA ReceiveKeeps ==
    ASSUME HooksAssumption, HooksInv, Receive
    PROVE  HooksInv'
  <1> USE DEF HooksInv
  <1>1. /\ main = "receive" /\ done # <<>> /\ done' = Tail(done) /\ received' = received + 1
        /\ UNCHANGED <<hook, copier, hand, mutex, childVars, out, writerOK>>
    BY DEF Receive
  <1>2. /\ done \in Seq(BOOLEAN) /\ received \in Nat /\ Cardinality(Streams) \in Nat
        /\ Len(done) \in Nat \ {0}
        /\ Tail(done) \in Seq(BOOLEAN) /\ Len(Tail(done)) = Len(done) - 1
        /\ \A i \in 1..Len(Tail(done)) : Tail(done)[i] = done[i + 1]
        /\ Head(done) = done[1]
    BY <1>1, HeadTailProperties, SentFinite DEF TypeOK
  <1>3. Cardinality(Sent) = received + Len(done) /\ Cardinality(Sent) <= Cardinality(Streams)
    BY <1>1, SentFinite DEF ResultsCounted
  <1>4. Sent' = Sent /\ (Quiet' <=> Quiet) /\ \A s \in Streams : Complete(s)' <=> Complete(s)
    BY <1>1 DEF Sent, Quiet, Complete, Written, childVars
  <1>5. MutexHeld' /\ Ordered'
    BY <1>1 DEF MutexHeld, Ordered, InSequence, Held, Written, childVars
  <1>6. received' \in 0..Cardinality(Streams) /\ done' \in Seq(BOOLEAN)
    BY <1>1, <1>2, <1>3
  <1>7. CASE ~Head(done)
    <2>1. main' = "warn"
      BY <1>7 DEF Receive
    <2>2. 1 \in 1..Len(done)
      BY <1>2
    <2>3. ~writerOK'
      <3>1. ~done[1]
        BY <1>2, <1>7, Zenon
      <3>2. FailureSent
        BY <2>2, <3>1 DEF FailureSent
      <3> QED
        BY <1>1, <3>2 DEF FailuresSeen
    <2> QED
      BY <1>1, <1>5, <1>6, <2>1, <2>3 DEF TypeOK, QuietOutside, ResultsCounted, FailuresSeen,
         CompleteAfter, childVars
  <1>8. CASE Head(done) /\ received + 1 # Cardinality(Streams)
    <2>1. main' = "receive"
      BY <1>8 DEF Receive
    <2>2. ResultsCounted'
      BY <1>1, <1>2, <1>3, <1>4 DEF ResultsCounted
    <2>3. FailureSent' <=> FailureSent
      <3>1. ASSUME FailureSent PROVE FailureSent'
        <4>1. PICK i \in 1..Len(done) : ~done[i]
          BY <3>1 DEF FailureSent
        <4>2. i # 1
          BY <1>2, <1>8, <4>1
        <4>3. i - 1 \in 1..Len(Tail(done)) /\ ~Tail(done)[i - 1]
          BY <1>2, <4>1, <4>2
        <4> QED
          BY <1>1, <4>3 DEF FailureSent
      <3>2. ASSUME FailureSent' PROVE FailureSent
        BY <1>1, <1>2, <3>2 DEF FailureSent
      <3> QED
        BY <3>1, <3>2
    <2>4. FailuresSeen'
      BY <1>1, <1>4, <2>3 DEF FailuresSeen, Sent
    <2> QED
      BY <1>1, <1>5, <1>6, <2>1, <2>2, <2>4 DEF TypeOK, QuietOutside, CompleteAfter, childVars
  <1>9. CASE Head(done) /\ received + 1 = Cardinality(Streams)
    <2>1. main' = "wait"
      BY <1>9 DEF Receive
    <2>2. Len(done) = 1 /\ Sent = Streams
      <3>1. Len(done) = 1 /\ Cardinality(Sent) = Cardinality(Streams)
        <4> DEFINE d == Len(done)
                   a == Cardinality(Sent)
                   b == Cardinality(Streams)
        <4>1. /\ d \in Nat \ {0} /\ received \in Nat /\ b \in Nat
              /\ a = received + d /\ a <= b /\ received + 1 = b
          BY <1>2, <1>3, <1>9
        <4> HIDE DEF d, a, b
        <4>2. d = 1 /\ a = b
          BY <4>1
        <4> QED
          BY <4>2 DEF d, a, b
      <3> QED
        BY <3>1, SentFinite
    <2>3. \A s \in Streams : Complete(s)
      <3>1. \A i \in 1..Len(done) : i = 1
        BY <2>2
      <3>2. done[1]
        BY <1>2, <1>9
      <3>3. ~FailureSent
        BY <3>1, <3>2 DEF FailureSent
      <3> QED
        BY <1>1, <2>2, <3>3 DEF FailuresSeen
    <2>4. Quiet
      BY <2>2 DEF Sent, Quiet
    <2> QED
      BY <1>1, <1>4, <1>5, <1>6, <2>1, <2>3, <2>4 DEF TypeOK, QuietOutside, ResultsCounted,
         FailuresSeen, CompleteAfter, childVars
  <1> QED
    BY <1>7, <1>8, <1>9

\* A stream is only being copied while the main goroutine waits for its result, or
\* has left the hook after a failed write.
LEMMA CopierRuns ==
    ASSUME HooksInv, NEW s \in Streams, copier[s] \in {"read", "lock", "write"}
    PROVE  main \in {"receive", "warn", "end"} /\ (writerOK => main = "receive")
  <1>1. ~Quiet
    BY DEF Quiet
  <1> QED
    BY <1>1 DEF HooksInv, QuietOutside

\* Then a step that leaves the main goroutine and the writer's state alone keeps
\* what the invariant says of them.
LEMMA CopierAlone ==
    ASSUME main \in {"receive", "warn", "end"} /\ (writerOK => main = "receive"),
           UNCHANGED <<mainVars, writerOK>>
    PROVE  QuietOutside' /\ CompleteAfter'
  BY DEF QuietOutside, CompleteAfter, mainVars

\* A result put into the channel.
LEMMA OneMoreResult ==
    ASSUME done \in Seq(BOOLEAN), NEW b \in BOOLEAN, done' = Append(done, b)
    PROVE  /\ done' \in Seq(BOOLEAN) /\ Len(done') = Len(done) + 1
           /\ FailureSent' <=> FailureSent \/ ~b
  <1>1. /\ Len(done) \in Nat
        /\ done' \in Seq(BOOLEAN) /\ Len(done') = Len(done) + 1
        /\ \A i \in 1..Len(done) : done'[i] = done[i]
        /\ done'[Len(done) + 1] = b
    BY AppendProperties
  <1>2. ASSUME FailureSent \/ ~b PROVE FailureSent'
    <2>1. CASE FailureSent
      <3>1. PICK i \in 1..Len(done) : ~done[i]
        BY <2>1 DEF FailureSent
      <3>2. i \in 1..Len(done') /\ done'[i] = done[i]
        BY <1>1
      <3> QED
        BY <3>1, <3>2 DEF FailureSent
    <2>2. CASE ~b
      <3>1. Len(done) + 1 \in 1..Len(done')
        BY <1>1
      <3> QED
        BY <1>1, <2>2, <3>1 DEF FailureSent
    <2> QED
      BY <1>2, <2>1, <2>2
  <1>3. ASSUME FailureSent' PROVE FailureSent \/ ~b
    <2>1. PICK i \in 1..Len(done') : ~done'[i]
      BY <1>3 DEF FailureSent
    <2>2. i \in 1..Len(done) \/ i = Len(done) + 1
      BY <1>1
    <2> QED
      BY <1>1, <2>1, <2>2 DEF FailureSent
  <1> QED
    BY <1>1, <1>2, <1>3

\* A stream nothing has touched stays in sequence.
LEMMA SequenceKept ==
    ASSUME Ordered, NEW t \in Streams, copier[t] \in {"read", "lock", "write"},
           Held(t)' = Held(t),
           pipe'[t] = pipe[t], sent'[t] = sent[t], hand'[t] = hand[t], out'[t] = out[t]
    PROVE  InSequence(t)'
  <1>1. InSequence(t)
    BY DEF Ordered
  <1>2. Written(t)' = Written(t)
    BY DEF Written
  <1> QED
    BY <1>1, <1>2 DEF InSequence

\* A read takes the next chunk in hand, or finds the end of a stream that is
\* complete.
LEMMA CopyReadKeeps ==
    ASSUME HooksAssumption, HooksInv, NEW s \in Streams, CopyRead(s)
    PROVE  HooksInv'
  <1> USE DEF HooksInv
  <1>1. /\ copier[s] = "read"
        /\ UNCHANGED <<mainVars, mutex, alive, todo, sent, exit, out, writerOK>>
    BY DEF CopyRead
  <1>2. QuietOutside' /\ CompleteAfter'
    BY <1>1, CopierRuns, CopierAlone
  <1>3. DOMAIN copier = Streams /\ pipe[s] \in Seq(Nat) /\ out[s] \in Seq(Nat)
    BY DEF TypeOK
  <1>4. /\ Held(s) = 0 /\ Written(s) + Len(pipe[s]) = sent[s] /\ Written(s) \in Nat
        /\ sent[s] \in Nat
        /\ \A i \in 1..Len(pipe[s]) : pipe[s][i] = Written(s) + i
    <2>1. Held(s) = 0 /\ Written(s) \in Nat /\ sent[s] \in Nat /\ Len(pipe[s]) \in Nat
      <3>1. Held(s) = 0
        BY <1>1 DEF Held
      <3>2. sent[s] \in Nat
        BY DEF TypeOK
      <3>3. Written(s) \in Nat /\ Len(pipe[s]) \in Nat
        BY <1>3, LenProperties DEF Written
      <3> QED
        BY <3>1, <3>2, <3>3
    <2>2. InSequence(s)
      BY <1>1 DEF Ordered
    <2>3. /\ Written(s) + 0 + Len(pipe[s]) = sent[s]
          /\ \A i \in 1..Len(pipe[s]) : pipe[s][i] = Written(s) + 0 + i
      BY <2>1, <2>2 DEF InSequence
    <2> QED
      BY <2>1, <2>3
  <1>5. \A t \in Streams : Complete(t)' <=> Complete(t)
    BY <1>1 DEF Complete, Written
  <1>6. CASE /\ pipe[s] # <<>>
             /\ hand' = [hand EXCEPT ![s] = Head(pipe[s])]
             /\ pipe' = [pipe EXCEPT ![s] = Tail(@)]
             /\ copier' = [copier EXCEPT ![s] = "lock"]
             /\ UNCHANGED done
    <2>1. /\ Len(pipe[s]) \in Nat \ {0} /\ Head(pipe[s]) = pipe[s][1]
          /\ Tail(pipe[s]) \in Seq(Nat) /\ Len(Tail(pipe[s])) = Len(pipe[s]) - 1
          /\ \A i \in 1..Len(Tail(pipe[s])) : Tail(pipe[s])[i] = pipe[s][i + 1]
      BY <1>3, <1>6, HeadTailProperties
    <2>2. Head(pipe[s]) = Written(s) + 1 /\ Head(pipe[s]) \in Nat
      BY <1>4, <2>1
    <2>3. TypeOK'
      BY <1>1, <1>6, <2>1, <2>2 DEF TypeOK, mainVars
    <2>4. MutexHeld' /\ Sent' = Sent
      BY <1>1, <1>3, <1>6 DEF MutexHeld, Sent
    <2>5. Ordered'
      <3>1. /\ copier'[s] = "lock" /\ hand'[s] = Written(s) + 1 /\ pipe'[s] = Tail(pipe[s])
            /\ Written(s)' = Written(s) /\ Held(s)' = 1
        BY <1>1, <1>3, <1>6, <2>2 DEF TypeOK, Written, Held
      <3>2. InSequence(s)'
        <4>1. Written(s)' + Held(s)' + Len(pipe'[s]) = sent'[s]
          BY <1>1, <1>4, <2>1, <3>1
        <4>2. \A i \in 1..Len(pipe'[s]) : pipe'[s][i] = Written(s)' + Held(s)' + i
          <5> TAKE i \in 1..Len(pipe'[s])
          <5>1. i \in Nat /\ i + 1 \in 1..Len(pipe[s]) /\ pipe'[s][i] = pipe[s][i + 1]
            BY <2>1, <3>1
          <5>2. pipe[s][i + 1] = Written(s) + (i + 1)
            BY <1>4, <5>1
          <5> QED
            BY <1>4, <3>1, <5>1, <5>2
        <4> QED
          BY <3>1, <4>1, <4>2 DEF InSequence
      <3>3. \A t \in Streams \ {s} :
              copier'[t] = copier[t] /\ pipe'[t] = pipe[t] /\ hand'[t] = hand[t]
        BY <1>6 DEF TypeOK
      <3>4. ASSUME NEW t \in Streams, copier'[t] \in {"read", "lock", "write"}
            PROVE  InSequence(t)'
        <4>1. CASE t = s
          BY <3>2, <4>1
        <4>2. CASE t # s
          BY <1>1, <3>3, <3>4, <4>2, SequenceKept DEF Held
        <4> QED
          BY <4>1, <4>2
      <3> QED
        BY <1>1, <3>4 DEF Ordered, Written
    <2>6. ResultsCounted' /\ FailuresSeen'
      BY <1>1, <1>5, <1>6, <2>4 DEF ResultsCounted, FailuresSeen, FailureSent, mainVars, Sent
    <2> QED
      BY <1>2, <2>3, <2>4, <2>5, <2>6
  <1>7. CASE /\ pipe[s] = <<>> /\ alive = {}
             /\ copier' = [copier EXCEPT ![s] = "sent"]
             /\ done' = Append(done, TRUE)
             /\ UNCHANGED <<hand, pipe>>
    <2>1. /\ done \in Seq(BOOLEAN) /\ done' \in Seq(BOOLEAN) /\ Len(done') = Len(done) + 1
          /\ FailureSent' <=> FailureSent
      BY <1>7, OneMoreResult DEF TypeOK
    <2>2. TypeOK'
      BY <1>1, <1>7, <2>1 DEF TypeOK, mainVars
    <2>3. MutexHeld'
      BY <1>1, <1>3, <1>7 DEF MutexHeld
    <2>4. Sent' = Sent \cup {s} /\ Cardinality(Sent') = Cardinality(Sent) + 1
      BY <1>1, <1>3, <1>7, OneMoreSent DEF Sent
    <2>5. ResultsCounted'
      BY <1>1, <2>1, <2>4 DEF ResultsCounted, mainVars, TypeOK
    <2>6. Complete(s)
      BY <1>4, <1>7 DEF Complete
    <2>7. FailuresSeen'
      <3>1. main' = main /\ writerOK' = writerOK
        BY <1>1 DEF mainVars
      <3>2. ASSUME main = "receive", NEW t \in Sent' PROVE Complete(t)' \/ FailureSent'
        <4>1. t \in Streams /\ (t = s \/ t \in Sent)
          BY <2>4 DEF Sent
        <4> QED
          BY <1>5, <2>1, <2>6, <3>2, <4>1 DEF FailuresSeen
      <3> QED
        BY <2>1, <3>1, <3>2 DEF FailuresSeen
    <2>8. Ordered'
      <3>1. \A t \in Streams \ {s} : copier'[t] = copier[t]
        BY <1>3, <1>7
      <3> QED
        BY <1>1, <1>3, <1>7, <3>1 DEF Ordered, InSequence, Held, Written
    <2> QED
      BY <1>2, <2>2, <2>3, <2>5, <2>7, <2>8
  <1> QED
    BY <1>6, <1>7 DEF CopyRead

\* Taking the mutex moves nothing.
LEMMA CopyLockKeeps ==
    ASSUME HooksAssumption, HooksInv, NEW s \in Streams, CopyLock(s)
    PROVE  HooksInv'
  <1> USE DEF HooksInv
  <1>1. /\ copier[s] = "lock" /\ mutex = "free" /\ mutex' = s
        /\ copier' = [copier EXCEPT ![s] = "write"]
        /\ UNCHANGED <<mainVars, hand, done, childVars, out, writerOK>>
    BY DEF CopyLock
  <1>2. QuietOutside' /\ CompleteAfter'
    BY <1>1, CopierRuns, CopierAlone
  <1>3. DOMAIN copier = Streams
    BY DEF TypeOK
  <1>4. TypeOK'
    BY <1>1 DEF TypeOK, mainVars, childVars
  <1>5. Sent' = Sent /\ \A t \in Streams : Held(t)' = Held(t) /\ Complete(t)' = Complete(t)
    BY <1>1, <1>3 DEF Sent, Held, Complete, Written, childVars
  <1>6. MutexHeld'
    BY <1>1, <1>3 DEF MutexHeld, HooksAssumption
  <1>7. Ordered'
    <2>1. ASSUME NEW t \in Streams, copier'[t] \in {"read", "lock", "write"}
          PROVE  InSequence(t)'
      BY <1>1, <1>3, <1>5, <2>1, SequenceKept DEF childVars
    <2> QED
      BY <1>1, <2>1 DEF Ordered, Written, childVars
  <1>8. ResultsCounted' /\ FailuresSeen'
    <2>1. main' = main /\ received' = received /\ (FailureSent' <=> FailureSent)
      BY <1>1 DEF mainVars, FailureSent
    <2> QED
      BY <1>1, <1>5, <2>1 DEF ResultsCounted, FailuresSeen, Sent
  <1> QED
    BY <1>2, <1>4, <1>6, <1>7, <1>8

\* A write puts the chunk in hand behind what is written, or fails and ends the copy
\* with a failure in the channel.
LEMMA CopyWriteKeeps ==
    ASSUME HooksAssumption, HooksInv, NEW s \in Streams, CopyWrite(s)
    PROVE  HooksInv'
  <1> USE DEF HooksInv
  <1>1. /\ copier[s] = "write" /\ mutex' = "free"
        /\ UNCHANGED <<mainVars, hand, childVars, writerOK>>
    BY DEF CopyWrite
  <1>2. QuietOutside' /\ CompleteAfter'
    BY <1>1, CopierRuns, CopierAlone
  <1>3. DOMAIN copier = Streams /\ DOMAIN out = Streams /\ s \notin Sent
        /\ main' = main /\ received' = received
    BY <1>1 DEF TypeOK, Sent, mainVars
  <1>4. mutex = s /\ \A t \in Streams \ {s} : copier[t] # "write"
    BY <1>1 DEF MutexHeld
  <1>5. CASE /\ writerOK
             /\ out' = [out EXCEPT ![s] = Append(@, hand[s])]
             /\ copier' = [copier EXCEPT ![s] = "read"]
             /\ UNCHANGED done
    <2>1. InSequence(s) /\ out[s] = Chunks(Written(s)) /\ Held(s) = 1
      BY <1>1 DEF Ordered, Held
    <2>2. Written(s) \in Nat /\ Len(pipe[s]) \in Nat /\ sent[s] \in Nat /\ hand[s] = Written(s) + 1
      <3>1. out[s] \in Seq(Nat) /\ pipe[s] \in Seq(Nat) /\ sent[s] \in Nat
        BY DEF TypeOK
      <3>2. Written(s) \in Nat /\ Len(pipe[s]) \in Nat
        BY <3>1 DEF Written
      <3> QED
        BY <2>1, <3>1, <3>2 DEF InSequence
    <2>3. out'[s] = Append(out[s], hand[s]) /\ copier'[s] = "read"
      BY <1>3, <1>5
    <2>4. out'[s] = Chunks(Written(s) + 1) /\ out'[s] \in Seq(Nat) /\ Written(s)' = Written(s) + 1
      <3>1. out'[s] = Append(Chunks(Written(s)), Written(s) + 1)
        BY <2>1, <2>2, <2>3
      <3>2. out'[s] = Chunks(Written(s) + 1)
        BY <2>2, <3>1, NextChunk
      <3>3. Chunks(Written(s) + 1) \in Seq(Nat) /\ Len(Chunks(Written(s) + 1)) = Written(s) + 1
        <4>1. Written(s) + 1 \in Nat
          BY <2>2
        <4> QED
          BY <4>1, NextChunk
      <3>4. Len(out'[s]) = Written(s) + 1
        BY <3>2, <3>3
      <3> QED
        BY <3>2, <3>3, <3>4 DEF Written
    <2>5. Sent' = Sent
      BY <1>1, <1>3, <1>5 DEF Sent
    <2>6. \A t \in Sent : Complete(t)' = Complete(t)
      BY <1>1, <1>3, <1>5 DEF Complete, Written, childVars, Sent
    <2>7. TypeOK'
      BY <1>1, <1>5, <2>4 DEF TypeOK, mainVars, childVars
    <2>8. MutexHeld'
      BY <1>1, <1>3, <1>4, <1>5 DEF MutexHeld, HooksAssumption
    <2>9. Ordered'
      <3>1. /\ Written(s) + 1 + Len(pipe[s]) = sent[s]
            /\ \A i \in 1..Len(pipe[s]) : pipe[s][i] = Written(s) + 1 + i
        BY <2>1, <2>2 DEF InSequence
      <3>2. InSequence(s)' /\ Written(s)' <= sent'[s]
        <4>1. Held(s)' = 0 /\ pipe' = pipe /\ sent' = sent
          BY <1>1, <2>3 DEF Held, childVars
        <4> QED
          BY <2>2, <2>4, <3>1, <4>1 DEF InSequence
      <3>3. ASSUME NEW t \in Streams \ {s}
            PROVE  /\ out'[t] = Chunks(Written(t)') /\ Written(t)' <= sent'[t]
                   /\ copier'[t] \in {"read", "lock", "write"} => InSequence(t)'
        <4>1. /\ out'[t] = out[t] /\ copier'[t] = copier[t] /\ pipe'[t] = pipe[t]
              /\ sent'[t] = sent[t] /\ hand'[t] = hand[t]
          BY <1>1, <1>3, <1>5 DEF childVars
        <4>2. Held(t)' = Held(t) /\ Written(t)' = Written(t)
          BY <4>1 DEF Held, Written
        <4> QED
          BY <4>1, <4>2, SequenceKept DEF Ordered
      <3> QED
        BY <2>4, <3>2, <3>3 DEF Ordered
    <2>10. ResultsCounted' /\ FailuresSeen'
      <3>1. FailureSent' <=> FailureSent
        BY <1>5 DEF FailureSent
      <3> QED
        BY <1>1, <1>3, <1>5, <2>5, <2>6, <3>1 DEF ResultsCounted, FailuresSeen
    <2> QED
      BY <1>2, <2>7, <2>8, <2>9, <2>10
  <1>6. CASE /\ ~writerOK
             /\ copier' = [copier EXCEPT ![s] = "sent"]
             /\ done' = Append(done, FALSE)
             /\ UNCHANGED out
    <2>1. /\ done \in Seq(BOOLEAN) /\ done' \in Seq(BOOLEAN) /\ Len(done') = Len(done) + 1
          /\ FailureSent'
      BY <1>6, OneMoreResult DEF TypeOK
    <2>2. Cardinality(Sent') = Cardinality(Sent) + 1
      BY <1>1, <1>3, <1>6, OneMoreSent
    <2>3. TypeOK'
      BY <1>1, <1>6, <2>1 DEF TypeOK, mainVars, childVars
    <2>4. MutexHeld'
      BY <1>1, <1>3, <1>4, <1>6 DEF MutexHeld, HooksAssumption
    <2>5. ResultsCounted'
      BY <1>3, <2>1, <2>2 DEF ResultsCounted, TypeOK
    <2>6. FailuresSeen'
      BY <1>1, <1>6, <2>1 DEF FailuresSeen
    <2>7. Ordered'
      <3>1. ASSUME NEW t \in Streams, copier'[t] \in {"read", "lock", "write"}
            PROVE  InSequence(t)'
        <4>1. copier'[t] = copier[t]
          BY <1>3, <1>6, <3>1
        <4> QED
          BY <1>1, <1>6, <3>1, <4>1, SequenceKept DEF Held, childVars
      <3> QED
        BY <1>1, <1>6, <3>1 DEF Ordered, Written, childVars
    <2> QED
      BY <1>2, <2>3, <2>4, <2>5, <2>6, <2>7
  <1> QED
    BY <1>5, <1>6 DEF CopyWrite

\* While a process of the hook is alive no stream is complete, so the hook is not over.
LEMMA AliveRuns ==
    ASSUME HooksAssumption, HooksInv, alive # {}
    PROVE  /\ main # "wait" /\ ~(main = "confirm" /\ HookTypes[hook] = "command")
           /\ main = "receive" /\ Sent # {} => FailureSent
  BY DEF HooksInv, CompleteAfter, FailuresSeen, Complete, HooksAssumption

\* The processes write, exit or die; whatever they do, what they sent stays in
\* sequence and no stream seems complete before they are gone.
LEMMA ProcessKeeps ==
    ASSUME HooksAssumption, HooksInv, NEW q \in Processes,
           (\E s \in Streams : ProcessWrites(q, s)) \/ ProcessExits(q) \/ ProcessKilled(q)
    PROVE  HooksInv'
  <1> USE DEF HooksInv
  <1>1. alive # {} /\ UNCHANGED <<mainVars, copyVars, out, writerOK>>
    BY DEF ProcessWrites, ProcessExits, ProcessKilled
  <1>2. /\ main' = main /\ hook' = hook /\ received' = received
        /\ Sent' = Sent /\ (Quiet' <=> Quiet) /\ (FailureSent' <=> FailureSent)
    BY <1>1 DEF Sent, Quiet, FailureSent, mainVars, copyVars
  <1>3. MutexHeld' /\ QuietOutside' /\ ResultsCounted'
    BY <1>1, <1>2 DEF MutexHeld, QuietOutside, ResultsCounted, copyVars
  <1>4. FailuresSeen'
    BY <1>1, <1>2, AliveRuns DEF FailuresSeen
  <1>5. CompleteAfter'
    BY <1>1, <1>2, AliveRuns DEF CompleteAfter
  <1>6. ASSUME NEW s \in Streams, ProcessWrites(q, s)
        PROVE  TypeOK' /\ Ordered'
    <2>1. /\ todo[q][s] > 0 /\ todo' = [todo EXCEPT ![q][s] = @ - 1]
          /\ sent' = [sent EXCEPT ![s] = @ + 1]
          /\ pipe' = [pipe EXCEPT ![s] = Append(@, sent'[s])]
          /\ UNCHANGED <<alive, exit>>
      BY <1>6 DEF ProcessWrites
    <2>2. /\ sent[s] \in Nat /\ sent'[s] = sent[s] + 1 /\ pipe[s] \in Seq(Nat)
          /\ pipe'[s] = Append(pipe[s], sent[s] + 1)
          /\ Written(s) \in Nat /\ Held(s) \in {0, 1}
          /\ UNCHANGED <<Written(s), Held(s)>>
      <3>1. sent[s] \in Nat /\ pipe[s] \in Seq(Nat) /\ out[s] \in Seq(Nat)
        BY DEF TypeOK
      <3>2. sent'[s] = sent[s] + 1 /\ pipe'[s] = Append(pipe[s], sent'[s])
        BY <2>1 DEF TypeOK
      <3>3. Written(s) \in Nat /\ Held(s) \in {0, 1} /\ UNCHANGED <<Written(s), Held(s)>>
        BY <1>1, <3>1 DEF Written, Held, copyVars
      <3> QED
        BY <3>1, <3>2, <3>3
    <2>3. /\ pipe'[s] \in Seq(Nat) /\ Len(pipe[s]) \in Nat /\ Len(pipe'[s]) = Len(pipe[s]) + 1
          /\ \A i \in 1..Len(pipe[s]) : pipe'[s][i] = pipe[s][i]
          /\ pipe'[s][Len(pipe[s]) + 1] = sent[s] + 1
      BY <2>2, AppendProperties
    <2>4. TypeOK'
      <3>1. todo' \in [Processes -> [Streams -> Nat]]
        <4>1. todo \in [Processes -> [Streams -> Nat]] /\ todo[q] \in [Streams -> Nat]
          BY DEF TypeOK
        <4>2. todo[q][s] - 1 \in Nat
          BY <2>1, <4>1
        <4>3. [todo[q] EXCEPT ![s] = @ - 1] \in [Streams -> Nat]
          BY <4>1, <4>2
        <4>4. todo' = [todo EXCEPT ![q] = [todo[q] EXCEPT ![s] = @ - 1]]
          BY <2>1, <4>1
        <4> QED
          BY <4>1, <4>3, <4>4
      <3>2. sent' \in [Streams -> Nat]
        <4>1. sent \in [Streams -> Nat] /\ sent[s] + 1 \in Nat
          <5>1. sent \in [Streams -> Nat] /\ sent[s] \in Nat
            BY DEF TypeOK
          <5> QED
            BY <5>1
        <4> QED
          BY <2>1, <4>1
      <3>3. pipe' \in [Streams -> Seq(Nat)]
        <4>1. pipe' = [pipe EXCEPT ![s] = pipe'[s]] /\ pipe \in [Streams -> Seq(Nat)]
          BY <2>1 DEF TypeOK
        <4> QED
          BY <2>3, <4>1
      <3> QED
        BY <1>1, <2>1, <3>1, <3>2, <3>3 DEF TypeOK, mainVars, copyVars
    <2>5. ASSUME copier[s] \in {"read", "lock", "write"} PROVE InSequence(s)'
      <3>1. /\ Written(s) + Held(s) + Len(pipe[s]) = sent[s]
            /\ \A i \in 1..Len(pipe[s]) : pipe[s][i] = Written(s) + Held(s) + i
            /\ Held(s) = 1 => hand[s] = Written(s) + 1
        BY <2>5 DEF Ordered, InSequence
      <3>2. \A i \in 1..Len(pipe'[s]) : pipe'[s][i] = Written(s) + Held(s) + i
        <4> TAKE i \in 1..Len(pipe'[s])
        <4>1. CASE i \in 1..Len(pipe[s])
          BY <2>3, <3>1, <4>1
        <4>2. CASE i = Len(pipe[s]) + 1
          <5> DEFINE l == Len(pipe[s])
                     w == Written(s)
                     h == Held(s)
          <5>1. /\ l \in Nat /\ w \in Nat /\ h \in Nat /\ w + h + l = sent[s] /\ i = l + 1
                /\ pipe'[s][i] = sent[s] + 1
            BY <2>2, <2>3, <3>1, <4>2
          <5> HIDE DEF l, w, h
          <5>2. pipe'[s][i] = w + h + i
            BY <5>1
          <5> QED
            BY <5>2 DEF w, h
        <4> QED
          BY <2>3, <4>1, <4>2
      <3>3. Written(s) + Held(s) + Len(pipe'[s]) = sent'[s]
        <4> DEFINE l == Len(pipe[s])
                   w == Written(s)
                   h == Held(s)
        <4>1. /\ l \in Nat /\ w \in Nat /\ h \in Nat /\ w + h + l = sent[s]
              /\ sent'[s] = sent[s] + 1 /\ Len(pipe'[s]) = l + 1
          BY <2>2, <2>3, <3>1
        <4> HIDE DEF l, w, h
        <4>2. w + h + Len(pipe'[s]) = sent'[s]
          BY <4>1
        <4> QED
          BY <4>2 DEF w, h
      <3> QED
        BY <1>1, <2>2, <3>1, <3>2, <3>3 DEF InSequence, copyVars
    <2>6. Ordered'
      <3>1. ASSUME NEW t \in Streams, copier'[t] \in {"read", "lock", "write"}
            PROVE  InSequence(t)'
        <4>1. CASE t = s
          BY <1>1, <2>5, <3>1, <4>1 DEF copyVars
        <4>2. CASE t # s
          <5>1. pipe'[t] = pipe[t] /\ sent'[t] = sent[t]
            BY <2>1, <4>2 DEF TypeOK
          <5> QED
            BY <1>1, <3>1, <5>1, SequenceKept DEF Held, copyVars
        <4> QED
          BY <4>1, <4>2
      <3>2. \A t \in Streams : out[t] = Chunks(Written(t)) /\ Written(t) <= sent[t]
                               /\ Written(t) \in Nat /\ sent[t] \in Nat
        <4> TAKE t \in Streams
        <4>1. out[t] \in Seq(Nat) /\ sent[t] \in Nat
          BY DEF TypeOK
        <4> QED
          BY <4>1 DEF Ordered, Written
      <3>3. \A t \in Streams : sent'[t] \in Nat /\ sent[t] <= sent'[t]
        <4> TAKE t \in Streams
        <4>1. sent \in [Streams -> Nat] /\ sent[t] \in Nat
          BY DEF TypeOK
        <4>2. sent'[t] = sent[t] \/ sent'[t] = sent[t] + 1
          BY <2>1, <4>1
        <4> QED
          BY <4>1, <4>2
      <3>4. \A t \in Streams : out'[t] = Chunks(Written(t)') /\ Written(t)' <= sent'[t]
        <4> TAKE t \in Streams
        <4>1. Written(t)' = Written(t) /\ out'[t] = out[t]
          BY <1>1 DEF Written
        <4>2. Written(t) \in Nat /\ sent[t] \in Nat /\ sent'[t] \in Nat
              /\ Written(t) <= sent[t] /\ sent[t] <= sent'[t]
          BY <3>2, <3>3
        <4>3. Written(t) <= sent'[t]
          BY <4>2
        <4> QED
          BY <3>2, <4>1, <4>3
      <3> QED
        BY <3>1, <3>4 DEF Ordered
    <2> QED
      BY <2>4, <2>6
  <1>7. ASSUME ProcessExits(q) \/ ProcessKilled(q)
        PROVE  TypeOK' /\ Ordered'
    <2>1. UNCHANGED <<pipe, sent>> /\ alive' \subseteq Processes /\ exit' \in {0, 1}
      BY <1>7 DEF ProcessExits, ProcessKilled, TypeOK
    <2>2. todo' \in [Processes -> [Streams -> Nat]]
      <3>1. todo' = todo \/ todo' = [todo EXCEPT ![q] = Zero]
        BY <1>7 DEF ProcessExits, ProcessKilled
      <3>2. Zero \in [Streams -> Nat] /\ todo \in [Processes -> [Streams -> Nat]]
        BY DEF Zero, TypeOK
      <3> QED
        BY <3>1, <3>2
    <2>3. Ordered'
      BY <1>1, <2>1 DEF Ordered, InSequence, Held, Written, copyVars
    <2> QED
      BY <1>1, <2>1, <2>2, <2>3 DEF TypeOK, mainVars, copyVars
  <1> QED
    BY <1>3, <1>4, <1>5, <1>6, <1>7

\* The writer may fail at any time: nothing but the failure depends on it.
LEMMA WriterFailsKeeps ==
    ASSUME HooksInv, WriterFails
    PROVE  HooksInv'
  <1> USE DEF HooksInv
  <1>1. writerOK' = FALSE /\ UNCHANGED <<mainVars, copyVars, childVars, out>>
    BY DEF WriterFails
  <1>2. UNCHANGED <<main, hook, received, copier, hand, mutex, done, pipe, alive, todo,
                    sent, exit, out>>
    BY <1>1 DEF mainVars, copyVars, childVars
  <1>3. TypeOK' /\ MutexHeld' /\ QuietOutside' /\ ResultsCounted'
    BY <1>1, <1>2 DEF TypeOK, MutexHeld, QuietOutside, Quiet, ResultsCounted, Sent
  <1>4. Ordered'
    BY <1>2 DEF Ordered, InSequence, Held, Written
  <1>5. FailuresSeen' /\ CompleteAfter'
    BY <1>1, <1>2 DEF FailuresSeen, FailureSent, CompleteAfter, Complete, Written, Sent
  <1> QED
    BY <1>3, <1>4, <1>5

\* Before the first hook nothing has been started.
LEMMA HooksStart == ASSUME HooksAssumption, Init PROVE HooksInv
  <1>1. /\ main = "announce" /\ hook = 1 /\ received = 0 /\ done = <<>> /\ mutex = "free"
        /\ copier = [s \in Streams |-> "off"] /\ hand = Zero /\ alive = {}
        /\ todo = NoOutput /\ sent = Zero /\ exit = 0 /\ writerOK = TRUE
        /\ pipe = Nothing /\ out = Nothing
    BY DEF Init
  <1>2. hook \in 1..Len(HookTypes)
    BY <1>1 DEF HooksAssumption
  <1>3. received \in 0..Cardinality(Streams)
    BY <1>1, SentFinite
  <1>4. TypeOK
    BY <1>1, <1>2, <1>3 DEF TypeOK, Zero, Nothing, NoOutput
  <1>5. Sent = {} /\ MutexHeld /\ QuietOutside
    BY <1>1 DEF Sent, MutexHeld, QuietOutside, Quiet, HooksAssumption
  <1>6. ResultsCounted /\ FailuresSeen /\ CompleteAfter
    BY <1>1 DEF ResultsCounted, FailuresSeen, CompleteAfter
  <1>7. Ordered
    <2> SUFFICES ASSUME NEW s \in Streams
                 PROVE  /\ out[s] = Chunks(Written(s)) /\ Written(s) <= sent[s]
                        /\ copier[s] \notin {"read", "lock", "write"}
      BY DEF Ordered
    <2>1. out[s] = <<>> /\ sent[s] = 0 /\ copier[s] = "off"
      BY <1>1 DEF Nothing, Zero
    <2> QED
      BY <2>1 DEF Written, Chunks
  <1> QED
    BY <1>4, <1>5, <1>6, <1>7 DEF HooksInv

\* Every step of the hooks keeps the invariant.
LEMMA HooksStep == ASSUME HooksAssumption, HooksInv, [Next]_vars PROVE HooksInv'
  <1>1. CASE MainStep
    BY <1>1, MainMoves, StartKeeps, ReceiveKeeps DEF MainStep
  <1>2. ASSUME NEW s \in Streams, CopyStep(s) PROVE HooksInv'
    BY <1>2, CopyReadKeeps, CopyLockKeeps, CopyWriteKeeps DEF CopyStep
  <1>3. ASSUME NEW q \in Processes, ProcessStep(q) \/ ProcessKilled(q) PROVE HooksInv'
    BY <1>3, ProcessKeeps DEF ProcessStep
  <1>4. CASE WriterFails
    BY <1>4, WriterFailsKeeps
  <1>5. CASE UNCHANGED vars
    <2>1. UNCHANGED <<copyVars, childVars, out, writerOK>> /\ UNCHANGED mainVars
      BY <1>5 DEF vars
    <2>2. UNCHANGED <<main, hook, received, copier, hand, mutex, done, pipe, alive, todo,
                      sent, exit, out, writerOK>>
      BY <2>1 DEF mainVars, copyVars, childVars
    <2>3. MutexHeld' /\ Ordered' /\ Sent' = Sent /\ (Quiet' <=> Quiet)
      BY <2>1, MainAlone
    <2> QED
      BY <2>2, <2>3 DEF HooksInv, TypeOK, QuietOutside, ResultsCounted, FailuresSeen,
         FailureSent, CompleteAfter, Complete, Written
  <1> QED
    BY <1>1, <1>2, <1>3, <1>4, <1>5 DEF Next, Ended

-----------------------------------------------------------------------------
(* The theorems.                                                            *)

\* The invariant holds in every behaviour of the hooks.
THEOREM HooksInvHolds == Spec => []HooksInv
  <1>1. Init => HooksInv
    BY HooksAssumption, HooksStart
  <1>2. HooksInv /\ [Next]_vars => HooksInv'
    BY HooksAssumption, HooksStep
  <1> QED
    BY <1>1, <1>2, PTL DEF Spec

\* The variables of executeCommandHookWithWriter and of its goroutines keep their types.
THEOREM HooksTypeCorrect == Spec => []TypeOK
  <1>1. HooksInv => TypeOK
    BY DEF HooksInv
  <1> QED
    BY <1>1, HooksInvHolds, PTL

\* However many hooks run and whatever they write, no two streams are inside the
\* bufio.Writer of the command, and the main goroutine is there with a stream only
\* to warn after a failed write.
THEOREM OneWriterHolds == Spec => []OneWriter
  <1>1. ASSUME HooksInv PROVE OneWriter
    <2>1. ASSUME NEW s \in Streams, NEW t \in Streams,
                 copier[s] = "write", copier[t] = "write"
          PROVE  s = t
      BY <1>1, <2>1 DEF HooksInv, MutexHeld
    <2>2. ASSUME main \in MainWrites, NEW s \in Streams, copier[s] = "write"
          PROVE  main = "warn" /\ ~writerOK
      BY <1>1, <2>2 DEF HooksInv, QuietOutside, Quiet, MainWrites, TypeOK
    <2> QED
      BY <2>1, <2>2 DEF OneWriter
  <1> QED
    BY <1>1, HooksInvHolds, PTL

\* For every amount of output and every size of the pipes, what the goroutine of a
\* stream has written is the beginning of what the processes sent.
THEOREM InOrderHolds == Spec => []InOrder
  <1>1. ASSUME HooksInv PROVE InOrder
    <2> SUFFICES ASSUME NEW s \in Streams PROVE \E n \in 0..sent[s] : out[s] = Chunks(n)
      BY DEF InOrder
    <2>1. out[s] \in Seq(Nat) /\ sent[s] \in Nat
      BY <1>1 DEF HooksInv, TypeOK
    <2>2. Written(s) \in 0..sent[s] /\ out[s] = Chunks(Written(s))
      BY <1>1, <2>1 DEF HooksInv, Ordered, Written
    <2> QED
      BY <2>2
  <1> QED
    BY <1>1, HooksInvHolds, PTL

\* A command hook that is confirmed has been written completely, with the output of its
\* background jobs, and its shell ended with status 0.
THEOREM ConfirmedComplete == Spec => []ConfirmedIsComplete
  <1>1. ASSUME HooksInv PROVE ConfirmedIsComplete
    <2> SUFFICES ASSUME main = "confirm", HookTypes[hook] = "command"
                 PROVE  exit = 0 /\ alive = {} /\ \A s \in Streams : out[s] = Chunks(sent[s])
      BY DEF ConfirmedIsComplete
    <2>1. exit = 0 /\ \A s \in Streams : Complete(s)
      BY <1>1 DEF HooksInv, CompleteAfter
    <2>2. \A s \in Streams : out[s] = Chunks(sent[s])
      BY <1>1, <2>1 DEF HooksInv, Ordered, Complete
    <2>3. Streams # {}
      BY HooksAssumption DEF HooksAssumption
    <2> QED
      BY <2>1, <2>2, <2>3 DEF Complete
  <1> QED
    BY <1>1, HooksInvHolds, PTL
=============================================================================
