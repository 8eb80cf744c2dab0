------------------------------ MODULE SSHServer -----------------------------
(***************************************************************************)
(* The SSH server around Receive: admission of sessions, the stall timer,  *)
(* the commands, and the shutdown in main, which drains HTTP first, then   *)
(* SSH, within one grace period.  What Receive does to the catalog is cut  *)
(* down to the status of its upload session; Ingest has the rest.          *)
(***************************************************************************)
EXTENDS Integers, FiniteSets

CONSTANT Sessions   \* SSH sessions, each used once

VARIABLES
    \* the goroutine of a session
    pc,         \* where handleSession, runAutoReceive, Receive are
    client,     \* sending; silent: sends no further bytes, but still answers a
                \* close or drops the connection; frozen: does neither
    timedOut,   \* stallTimeoutReader.timedOut; the channel is closed
    \* the catalog
    sess,       \* upload_sessions.status
    \* main and the server
    main, draining, listening, graceOver,
    \* history
    drained,    \* Shutdown ended because no active upload was left
    atDrain     \* the uploads that were active when draining began

session == <<pc, client, timedOut>>
server  == <<main, draining, listening, graceOver, drained, atDrain>>
vars    == <<session, sess, server>>

ReceivePc == {"read", "put", "finish"}
EndPc     == {"ok", "error", "cut"}

\* One type for the module.
TypeOK ==
    /\ pc \in [Sessions -> ReceivePc \cup EndPc
                           \cup {"away", "connected", "command", "header", "fail", "reply"}]
    /\ client \in [Sessions -> {"sending", "silent", "frozen"}] /\ timedOut \in [Sessions -> BOOLEAN]
    /\ sess \in [Sessions -> {"none", "uploading", "committing", "complete", "failed"}]
    /\ main \in {"serving", "http", "poll", "wait", "leave", "exited"}
    /\ draining \in BOOLEAN /\ listening \in BOOLEAN
    /\ graceOver \in BOOLEAN /\ drained \in BOOLEAN
    /\ atDrain \in SUBSET Sessions

Init ==
    /\ pc = [c \in Sessions |-> "away"]
    /\ client = [c \in Sessions |-> "sending"]
    /\ timedOut = [c \in Sessions |-> FALSE]
    /\ sess = [c \in Sessions |-> "none"]
    /\ main = "serving" /\ listening = TRUE /\ draining = FALSE
    /\ graceOver = FALSE /\ drained = FALSE /\ atDrain = {}

Running == main # "exited"

\* Goroutine c goes on to p.
Goto(c, p) == Running /\ pc' = [pc EXCEPT ![c] = p]

-----------------------------------------------------------------------------
(* Sessions.                                                               *)

\* Accept, the handshake and a session channel.
Accept(c) ==
    /\ pc[c] = "away" /\ listening
    /\ Goto(c, "connected")
    /\ UNCHANGED <<client, timedOut, sess, server>>

\* handleSession, "shell": draining is looked at here, and never again.
Shell(c) ==
    /\ pc[c] = "connected"
    /\ Goto(c, IF draining THEN "error" ELSE "header")
    /\ UNCHANGED <<client, timedOut, sess, server>>

\* handleSession, "exec": state and restore-stream.
Exec(c) ==
    /\ pc[c] = "connected"
    /\ Goto(c, IF draining THEN "error" ELSE "command")
    /\ UNCHANGED <<client, timedOut, sess, server>>

\* runCommand ends, or the connection and with it the command's context.
CommandEnds(c) ==
    /\ pc[c] = "command"
    /\ \E p \in {"ok", "error"} : Goto(c, p)
    /\ UNCHANGED <<client, timedOut, sess, server>>

\* runAutoReceive has the BEGIN record; StartUpload creates the rows.
StartUpload(c) ==
    /\ pc[c] = "header" /\ ~timedOut[c]
    /\ sess' = [sess EXCEPT ![c] = "uploading"]
    /\ Goto(c, "read")
    /\ UNCHANGED <<client, timedOut, server>>

\* The header cannot be read, or header, names, base or StartUpload are refused.
RejectUpload(c) ==
    /\ pc[c] = "header"
    /\ Goto(c, "error")
    /\ UNCHANGED <<client, timedOut, sess, server>>

\* Bytes of a chunk; the timer starts again.  From now on nothing is read
\* until the chunk is stored and recorded.
ReadChunk(c) ==
    /\ pc[c] = "read" /\ client[c] = "sending" /\ ~timedOut[c]
    /\ Goto(c, "put")
    /\ UNCHANGED <<client, timedOut, sess, server>>

ChunkStored(c) ==
    /\ pc[c] = "put"
    /\ Goto(c, "read")
    /\ UNCHANGED <<client, timedOut, sess, server>>

\* EOF, found by the next read or, under a last chunk that is not full, with
\* it; committing_manifest, the manifest's put and its retries.
EndOfStream(c) ==
    /\ \/ pc[c] = "read" /\ ~timedOut[c]
       \/ pc[c] = "put"
    /\ client[c] = "sending"
    /\ sess' = [sess EXCEPT ![c] = "committing"]
    /\ Goto(c, "finish")
    /\ UNCHANGED <<client, timedOut, server>>

\* Mutant of CommitUpload: a status the table does not know.
CommitUploadWrongStatus(c) ==
    /\ pc[c] = "finish"
    /\ sess' = [sess EXCEPT ![c] = "committed"]
    /\ Goto(c, "reply")
    /\ UNCHANGED <<client, timedOut, server>>

CommitUpload(c) ==
    /\ pc[c] = "finish"
    /\ sess' = [sess EXCEPT ![c] = "complete"]
    /\ Goto(c, "reply")
    /\ UNCHANGED <<client, timedOut, server>>

\* "ok" and exit status 0, if the channel is still open.
Reply(c) ==
    /\ pc[c] = "reply"
    /\ Goto(c, IF timedOut[c] THEN "cut" ELSE "ok")
    /\ UNCHANGED <<client, timedOut, sess, server>>

\* A read fails because the client is gone, or a put or a statement fails.
StepFails(c) ==
    /\ pc[c] \in ReceivePc
    /\ Goto(c, "fail")
    /\ UNCHANGED <<client, timedOut, sess, server>>

\* Mutant of ReadStalled: timedOut is not looked at after the read.
ReadStalledIgnored(c) == FALSE /\ UNCHANGED vars

\* errReceiveStalled, of the header's read or of Receive's.  The timer only
\* calls channel.Close and timedOut is looked at after the read: a read that is
\* blocked returns when the client answers the close or the connection ends.
ReadStalled(c) ==
    /\ timedOut[c] /\ client[c] # "frozen"
    /\ \/ pc[c] = "header" /\ Goto(c, "error")
       \/ pc[c] = "read" /\ Goto(c, "fail")
    /\ UNCHANGED <<client, timedOut, sess, server>>

FailUpload(c) ==
    /\ pc[c] = "fail"
    /\ sess' = [sess EXCEPT ![c] = "failed"]
    /\ Goto(c, "error")
    /\ UNCHANGED <<client, timedOut, server>>

\* FailUpload fails too: an active session that no goroutine will end.
FailureNotRecorded(c) ==
    /\ pc[c] = "fail"
    /\ Goto(c, "error")
    /\ UNCHANGED <<client, timedOut, sess, server>>

\* The client stops sending.
FallSilent(c) ==
    /\ pc[c] \in {"header", "read", "put"} /\ client[c] = "sending" /\ Running
    /\ client' = [client EXCEPT ![c] = "silent"]
    /\ UNCHANGED <<pc, timedOut, sess, server>>

\* The client's host stops without a word, and TCP does not notice.
Freeze(c) ==
    /\ pc[c] \in {"header", "read", "put"} /\ client[c] # "frozen" /\ Running
    /\ client' = [client EXCEPT ![c] = "frozen"]
    /\ UNCHANGED <<pc, timedOut, sess, server>>

\* Five minutes since the last read that returned bytes: the client is quiet,
\* or the server is still busy with a put and its retries.
StallTimerFires(c) ==
    /\ Running /\ ~timedOut[c]
    /\ \/ pc[c] \in {"header", "read"} /\ client[c] # "sending"
       \/ pc[c] \in {"put", "finish"}
    /\ timedOut' = [timedOut EXCEPT ![c] = TRUE]
    /\ UNCHANGED <<pc, client, sess, server>>

-----------------------------------------------------------------------------
(* Shutdown.                                                               *)

\* SIGTERM: stopBackground, the grace period starts, HTTP is drained first;
\* SSH still accepts.
Signal ==
    /\ main = "serving"
    /\ main' = "http"
    /\ UNCHANGED <<session, sess, draining, listening, graceOver, drained, atDrain>>

\* http.Server.Shutdown returns: its handlers have ended or the grace is over.
\* Server.Shutdown: draining, and the listener is closed.
BeginDrain ==
    /\ main = "http"
    /\ draining' = TRUE /\ listening' = FALSE
    /\ main' = "poll"
    /\ atDrain' = {c \in Sessions : sess[c] \in {"uploading", "committing"}}
    /\ UNCHANGED <<session, sess, graceOver, drained>>

GraceEnds ==
    /\ main \in {"http", "poll", "wait", "leave"} /\ ~graceOver
    /\ graceOver' = TRUE
    /\ UNCHANGED <<session, sess, main, draining, listening, drained, atDrain>>

\* Mutant of ActiveUploads: an upload that is committing does not count.
ActiveUploadsUploadingOnly == {c \in Sessions : sess[c] = "uploading"}

\* ListActiveUploads: every session row in a working state, stale ones too.
ActiveUploads == {c \in Sessions : sess[c] \in {"uploading", "committing"}}

Poll ==
    /\ main = "poll" /\ ~graceOver
    /\ main' = IF ActiveUploads = {} THEN "leave" ELSE "wait"
    /\ drained' = (ActiveUploads = {})
    /\ UNCHANGED <<session, sess, draining, listening, graceOver, atDrain>>

PollAgain ==
    /\ main = "wait"
    /\ main' = "poll"
    /\ UNCHANGED <<session, sess, draining, listening, graceOver, drained, atDrain>>

\* Whatever a goroutine is doing when main returns, its client is cut off.
Exit ==
    /\ main' = "exited"
    /\ pc' = [c \in Sessions |-> IF pc[c] \in EndPc \cup {"away"} THEN pc[c] ELSE "cut"]
    /\ UNCHANGED <<client, timedOut, sess, draining, listening, graceOver, drained, atDrain>>

Leave == main = "leave" /\ Exit

\* Mutant of GraceRunsOut: the wait does not select on ctx.Done.
GraceRunsOutIgnored == main = "poll" /\ graceOver /\ FALSE /\ Exit

\* The select on ctx.Done, or a query with an expired context.
GraceRunsOut == main \in {"poll", "wait"} /\ graceOver /\ Exit

\* A listener fails, the list of uploads cannot be read, or the process
\* crashes.
Fatal == main # "exited" /\ Exit

-----------------------------------------------------------------------------

Receive(c) ==
    \/ StartUpload(c) \/ ReadChunk(c) \/ ChunkStored(c) \/ EndOfStream(c)
    \/ CommitUpload(c) \/ Reply(c)

Session(c) ==
    \/ Accept(c) \/ Shell(c) \/ Exec(c) \/ CommandEnds(c)
    \/ Receive(c) \/ RejectUpload(c)
    \/ StepFails(c) \/ ReadStalled(c) \/ FailUpload(c) \/ FailureNotRecorded(c)
    \/ FallSilent(c) \/ Freeze(c) \/ StallTimerFires(c)

Shutdown == BeginDrain \/ Poll \/ PollAgain \/ Leave \/ GraceRunsOut

Next == (\E c \in Sessions : Session(c)) \/ Signal \/ GraceEnds \/ Shutdown \/ Fatal

Spec == Init /\ [][Next]_vars

\* Timers fire; main goes on; a put ends; Receive records a failure or gives
\* up.  Of clients only this: one that is not frozen answers a channel close or
\* drops its connection, so ReadStalled happens.
FairSpec ==
    /\ Spec
    /\ WF_vars(GraceEnds) /\ WF_vars(Shutdown)
    /\ \A c \in Sessions :
        /\ WF_vars(StallTimerFires(c)) /\ WF_vars(ReadStalled(c)) /\ WF_vars(ChunkStored(c))
        /\ WF_vars(FailUpload(c) \/ FailureNotRecorded(c))

-----------------------------------------------------------------------------
(* Properties.                                                             *)

\* Shutdown says that no upload is left only when all those that were active
\* when draining began are committed or failed, none cut off.
DrainFinishesUploads ==
    drained => \A c \in atDrain : sess[c] \in {"complete", "failed"}

\* After SIGTERM the process ends, whatever hangs: frozen clients, uploads, or a
\* session row of an upload that died.
ShutdownEnds == (main = "http") ~> (main = "exited")

\* A client that goes silent before its stream has ended loses its session, at
\* whatever step the stall timer finds it, unless it freezes.  (A frozen one
\* keeps the goroutine blocked in its read until the connection is lost.)
StalledSessionsEnd ==
    \A c \in Sessions :
        (client[c] = "silent" /\ pc[c] \in {"header", "read", "put"})
            ~> (pc[c] \in EndPc \/ client[c] = "frozen")

=============================================================================
