--------------------------- MODULE SSHServerProofs --------------------------
(***************************************************************************)
(* The drain of the SSH server, for any number of sessions.                *)
(***************************************************************************)
EXTENDS SSHServer, TLAPS

\* The session row follows its goroutine: there is none before StartUpload, it
\* is active while Receive runs or has to record a failure, and it is complete
\* before the reply.
RowFollows(c) ==
    /\ pc[c] \in {"away", "connected", "command", "header"} => sess[c] = "none"
    /\ pc[c] \in {"read", "put"} => sess[c] = "uploading"
    /\ pc[c] = "finish" => sess[c] = "committing"
    /\ pc[c] = "fail" => sess[c] \in {"uploading", "committing"}
    /\ pc[c] = "reply" => sess[c] = "complete"

\* What was active when draining began has a row.
DrainKnown == \A c \in atDrain : sess[c] # "none"

\* A poll that finds no upload is the last one.
DrainedLast == drained => main \in {"leave", "exited"}

IndInv ==
    /\ TypeOK
    /\ \A c \in Sessions : RowFollows(c)
    /\ DrainKnown /\ DrainedLast
    /\ DrainFinishesUploads

LEMMA InitEstablishes == Init => IndInv
BY DEF Init, IndInv, TypeOK, RowFollows, DrainKnown, DrainedLast, DrainFinishesUploads, ReceivePc, EndPc

\* A step of session c: its own row follows, and a row that has ended stays so.
LEMMA SessionKeeps ==
    ASSUME IndInv, NEW c \in Sessions, Session(c)
    PROVE  IndInv'
<1> USE DEF IndInv, TypeOK, Goto, ReceivePc, EndPc, server
<1>1. UNCHANGED server
  BY DEF Session, Receive, Accept, Shell, Exec, CommandEnds, StartUpload, RejectUpload, ReadChunk,
         ChunkStored, EndOfStream, CommitUpload, Reply, StepFails, ReadStalled, FailUpload,
         FailureNotRecorded, FallSilent, Freeze, StallTimerFires
<1>2. CASE Accept(c) \/ Shell(c) \/ Exec(c) \/ CommandEnds(c) \/ RejectUpload(c)
  BY <1>1, <1>2 DEF Accept, Shell, Exec, CommandEnds, RejectUpload, RowFollows, DrainKnown, DrainedLast,
                    DrainFinishesUploads
<1>3. CASE StartUpload(c)
  BY <1>1, <1>3 DEF StartUpload, RowFollows, DrainKnown, DrainedLast, DrainFinishesUploads
<1>4. CASE ReadChunk(c) \/ ChunkStored(c) \/ Reply(c)
  BY <1>1, <1>4 DEF ReadChunk, ChunkStored, Reply, RowFollows, DrainKnown, DrainedLast, DrainFinishesUploads
<1>5. CASE EndOfStream(c) \/ CommitUpload(c)
  BY <1>1, <1>5 DEF EndOfStream, CommitUpload, RowFollows, DrainKnown, DrainedLast, DrainFinishesUploads
<1>6. CASE StepFails(c) \/ ReadStalled(c)
  BY <1>1, <1>6 DEF StepFails, ReadStalled, RowFollows, DrainKnown, DrainedLast, DrainFinishesUploads
<1>7. CASE FailUpload(c) \/ FailureNotRecorded(c)
  BY <1>1, <1>7 DEF FailUpload, FailureNotRecorded, RowFollows, DrainKnown, DrainedLast, DrainFinishesUploads
<1>8. CASE FallSilent(c) \/ Freeze(c) \/ StallTimerFires(c)
  BY <1>1, <1>8 DEF FallSilent, Freeze, StallTimerFires, RowFollows, DrainKnown, DrainedLast, DrainFinishesUploads
<1> QED BY <1>2, <1>3, <1>4, <1>5, <1>6, <1>7, <1>8 DEF Session, Receive

\* A step of main changes no row.
LEMMA MainKeeps ==
    ASSUME IndInv, Signal \/ GraceEnds \/ Shutdown \/ Fatal
    PROVE  IndInv'
<1> USE DEF IndInv, TypeOK, ReceivePc, EndPc, session
<1>1. CASE Signal \/ GraceEnds \/ PollAgain
  <2>1. CASE Signal
    BY <2>1 DEF Signal, RowFollows, DrainKnown, DrainedLast, DrainFinishesUploads
  <2>2. CASE GraceEnds
    BY <2>2 DEF GraceEnds, RowFollows, DrainKnown, DrainedLast, DrainFinishesUploads
  <2>3. CASE PollAgain
    BY <2>3 DEF PollAgain, RowFollows, DrainKnown, DrainedLast, DrainFinishesUploads
  <2> QED BY <1>1, <2>1, <2>2, <2>3
<1>2. CASE BeginDrain
  BY <1>2 DEF BeginDrain, RowFollows, DrainKnown, DrainedLast, DrainFinishesUploads
<1>3. CASE Poll
  BY <1>3 DEF Poll, ActiveUploads, RowFollows, DrainKnown, DrainedLast, DrainFinishesUploads
<1>4. CASE Exit
  BY <1>4 DEF Exit, RowFollows, DrainKnown, DrainedLast, DrainFinishesUploads
<1> QED BY <1>1, <1>2, <1>3, <1>4 DEF Shutdown, Leave, GraceRunsOut, Fatal

LEMMA Inductive == IndInv /\ [Next]_vars => IndInv'
<1> SUFFICES ASSUME IndInv, [Next]_vars PROVE IndInv'
  OBVIOUS
<1>1. CASE UNCHANGED vars
  BY <1>1 DEF vars, session, server, IndInv, TypeOK, RowFollows, DrainKnown, DrainedLast, DrainFinishesUploads
<1> QED BY <1>1, SessionKeeps, MainKeeps DEF Next

\* Every variable of the sessions, the rows and the shutdown keeps its type.
THEOREM ServerTypeCorrect == Spec => []TypeOK
<1>1. IndInv => TypeOK
  BY DEF IndInv
<1> QED BY InitEstablishes, Inductive, <1>1, PTL DEF Spec

\* Server.Shutdown reports that no upload is left only when each upload it
\* found when it began has been committed or failed.
THEOREM DrainWaits == Spec => []DrainFinishesUploads
<1>1. IndInv => DrainFinishesUploads
  BY DEF IndInv
<1> QED BY InitEstablishes, Inductive, <1>1, PTL DEF Spec
=============================================================================
