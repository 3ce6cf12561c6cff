-------------------------------- MODULE Worker --------------------------------
(***************************************************************************)
(* The workers: each one's asynchronous gRPC server (MapReduceServiceImpl, *)
(* one thread and one completion queue), the map and reduce tasks it runs, *)
(* and the blobs they write.                                               *)
(*                                                                         *)
(* The server holds one CallData per kind of call that waits for a         *)
(* request.  A second call of that kind stays outside the completion queue *)
(* until the first one is taken off it and the CallData replaced, so calls *)
(* of one kind keep their order and calls of different kinds do not.  A    *)
(* handler never looks whether its call is still wanted; but the answer to *)
(* one that is over comes back with ok == false, and the first such        *)
(* completion ends the server's loop and with it the process.              *)
(***************************************************************************)
EXTENDS Lists, SequencesExt

CONSTANTS
    Workers,
    MaxJobs,        \* bound: jobs posted one after the other
    Container,      \* [1..MaxJobs -> input container of the job]
    NShards, NPieces, NReducers,
    FailAfter,      \* [Workers -> argument of the program, 0 for none]
    StorageFails    \* downloads and scripts may fail

ASSUME WorkerAssumption ==
    /\ IsFiniteSet(Workers)
    /\ {MaxJobs, NShards, NPieces, NReducers} \subseteq Nat \ {0}
    /\ DOMAIN Container = 1..MaxJobs
    /\ FailAfter \in [Workers -> Nat]
    /\ StorageFails \in BOOLEAN

VARIABLES
    up,         \* the process runs and serves
    armed,      \* kinds of call a CallData waits for
    pending,    \* calls of each kind not yet given to a CallData
    cq,         \* the completion queue: calls given to a CallData
    running,    \* the call being handled, or NoCall
    local,      \* the handler's local files
    conn,       \* container of m_dbConnection, or NoConnection
    until_fail, \* m_until_fail
    doomed,     \* a completion with ok == false is in the queue, or will be
    storage     \* the int and out blobs: name |-> the input pieces it covers

workerVars == <<up, armed, pending, cq, running, local, conn, until_fail, doomed, storage>>

Kinds == {"exchange", "map", "reduce"}
NoCall == [kind |-> "none", live |-> FALSE]
NoConnection == "no connection"

IntBlob(c, w, sid, spid, r) == <<"int", c, w, sid, spid, r>>
OutBlob(c, r) == <<"out", c, r>>

\* What the handler has on disk: the piece it is at, the next file to upload, the
\* pieces read, and whether it is done.
NoFiles == [piece |-> 1, file |-> 0, data |-> {}, done |-> FALSE]

\* These workers serve from the start.
Init(serving) ==
    /\ up = [w \in Workers |-> w \in serving]
    /\ armed = [w \in Workers |-> IF w \in serving THEN Kinds ELSE {}]
    /\ pending = [w \in Workers |-> [k \in Kinds |-> <<>>]]
    /\ cq = [w \in Workers |-> <<>>]
    /\ running = [w \in Workers |-> NoCall]
    /\ local = [w \in Workers |-> NoFiles]
    /\ conn = [w \in Workers |-> NoConnection]
    /\ until_fail = FailAfter
    /\ doomed = [w \in Workers |-> FALSE]
    /\ storage = <<>>

-------------------------------------------------------------------------------
\* A call reaches the server: gRPC hands it to the CallData that waits for one of
\* its kind, or keeps it until there is one.
Arrive(w, call) ==
    /\ IF call.kind \in armed[w]
       THEN /\ cq' = [cq EXCEPT ![w] = Append(@, call)]
            /\ armed' = [armed EXCEPT ![w] = @ \ {call.kind}]
            /\ UNCHANGED pending
       ELSE /\ pending' = [pending EXCEPT ![w][call.kind] = Append(@, call)]
            /\ UNCHANGED <<cq, armed>>
    /\ UNCHANGED <<up, running, local, conn, until_fail, doomed, storage>>

\* Mutant: no new CallData takes the place of this one.
ForgetNext(w, k) ==
    /\ cq' = [cq EXCEPT ![w] = Tail(@)]
    /\ UNCHANGED <<armed, pending>>

\* AddNextToCompletionQueue, as the first call leaves the queue and before it is
\* handled: the new CallData gets the oldest call of its kind, or waits for one.
AddNextToCompletionQueue(w, k) ==
    IF pending[w][k] = <<>>
    THEN /\ cq' = [cq EXCEPT ![w] = Tail(@)]
         /\ armed' = [armed EXCEPT ![w] = @ \cup {k}]
         /\ UNCHANGED pending
    ELSE /\ cq' = [cq EXCEPT ![w] = Append(Tail(@), Head(pending[w][k]))]
         /\ pending' = [pending EXCEPT ![w][k] = Tail(@)]
         /\ UNCHANGED armed

\* The process is gone, or sleeps for ever with its server shut down; a new one would
\* have the same arguments.
Stop(w) ==
    /\ up' = [up EXCEPT ![w] = FALSE]
    /\ armed' = [armed EXCEPT ![w] = {}]
    /\ pending' = [pending EXCEPT ![w] = [k \in Kinds |-> <<>>]]
    /\ cq' = [cq EXCEPT ![w] = <<>>]
    /\ running' = [running EXCEPT ![w] = NoCall]
    /\ local' = [local EXCEPT ![w] = NoFiles]
    /\ conn' = [conn EXCEPT ![w] = NoConnection]
    /\ until_fail' = [until_fail EXCEPT ![w] = FailAfter[w]]
    /\ doomed' = [doomed EXCEPT ![w] = FALSE]
    /\ UNCHANGED storage

\* The server's thread takes the next call and starts to handle it.
Take(w) ==
    /\ running[w] = NoCall
    /\ cq[w] # <<>>
    /\ AddNextToCompletionQueue(w, Head(cq[w]).kind)
    /\ running' = [running EXCEPT ![w] = Head(cq[w])]
    /\ local' = [local EXCEPT ![w] = NoFiles]
    /\ UNCHANGED <<up, conn, doomed, storage>>

\* This task uses up the countdown of a worker told to fail.
LastTask(w) == cq[w] # <<>> /\ Head(cq[w]).kind # "exchange" /\ until_fail[w] = 1

\* task_assigned_check_fail leaves the worker working.
TakeCall(w) ==
    /\ ~LastTask(w)
    /\ Take(w)
    /\ until_fail' = [until_fail EXCEPT ![w] =
           IF Head(cq[w]).kind # "exchange" /\ @ > 0 THEN @ - 1 ELSE @]

\* ... or enters the fail state with the task in its hands.
EnterFailState(w) ==
    /\ running[w] = NoCall
    /\ LastTask(w)
    /\ Stop(w)

\* Mutant: a worker that has a connection keeps it.
KeepConnection(w) == IF conn[w] = NoConnection THEN running[w].cont ELSE conn[w]

\* create_connection
NewConnection(w) == running[w].cont

\* ExchangeInfo: a new connection replaces the one of the job before.
CreateConnection(w) ==
    /\ running[w].kind = "exchange"
    /\ ~local[w].done
    /\ conn' = [conn EXCEPT ![w] = NewConnection(w)]
    /\ local' = [local EXCEPT ![w].done = TRUE]
    /\ UNCHANGED <<up, armed, pending, cq, running, until_fail, doomed, storage>>

\* The task dereferences an m_dbConnection that is still null.
UseNoConnection(w) ==
    /\ running[w].kind \in {"map", "reduce"}
    /\ conn[w] = NoConnection
    /\ Stop(w)

\* create_r_intermediate_files opens the files of this piece empty.
FreshFiles(w, read) == read

\* What the Python function makes of a piece.  The blob is looked up in the container
\* of the connection, and an error there or in Python leaves the files empty.
Mapped(w) ==
    LET piece == {<<running[w].job, running[w].task, local[w].piece>>} IN
    IF conn[w] # Container[running[w].job] THEN {{}}
    ELSE IF StorageFails THEN {piece, {}} ELSE {piece}

\* The first half of map_shard: the piece is downloaded and the Python function
\* run over it.
MapPiece(w) ==
    /\ running[w].kind = "map"
    /\ conn[w] # NoConnection
    /\ ~local[w].done /\ local[w].file = 0
    /\ \E read \in Mapped(w) :
           local' = [local EXCEPT ![w].file = 1, ![w].data = FreshFiles(w, read)]
    /\ UNCHANGED <<up, armed, pending, cq, running, conn, until_fail, doomed, storage>>

Put(name, data) ==
    storage' = [n \in DOMAIN storage \cup {name} |-> IF n = name THEN data ELSE storage[n]]

\* Mutant: one reducer's file is not uploaded.
FilesLeft(w) == local[w].file < NReducers - 1

\* Another reducer's file of this piece follows.
MoreFiles(w) == local[w].file < NReducers

\* The second half: one intermediate file becomes a blob.
AddIntermediateBlob(w) ==
    /\ running[w].kind = "map"
    /\ local[w].file > 0
    /\ Put(IntBlob(conn[w], w, running[w].task, local[w].piece, local[w].file), local[w].data)
    /\ LET l == local[w] IN
         local' = [local EXCEPT ![w] =
             IF MoreFiles(w) THEN [l EXCEPT !.file = l.file + 1]
             ELSE IF l.piece < NPieces THEN [l EXCEPT !.file = 0, !.piece = l.piece + 1]
             ELSE [l EXCEPT !.file = 0, !.done = TRUE]]
    /\ UNCHANGED <<up, armed, pending, cq, running, conn, until_fail, doomed>>

\* What is downloaded of a blob; nothing if it cannot be read, and nobody is told.
Downloaded(name) ==
    IF name \notin DOMAIN storage THEN {{}}
    ELSE IF StorageFails THEN {storage[name], {}} ELSE {storage[name]}

\* prepare_data: one intermediate blob is added to the local file.
PrepareData(w) ==
    /\ running[w].kind = "reduce"
    /\ conn[w] # NoConnection
    /\ ~local[w].done
    /\ local[w].piece <= Len(running[w].blobs)
    /\ \E read \in Downloaded(running[w].blobs[local[w].piece]) :
           local' = [local EXCEPT ![w].piece = @ + 1, ![w].data = @ \cup read]
    /\ UNCHANGED <<up, armed, pending, cq, running, conn, until_fail, doomed, storage>>

\* What the Python function makes of the local file; nothing if it raises.
Reduced(w) == IF StorageFails THEN {local[w].data, {}} ELSE {local[w].data}

\* reduce: the Python function and the upload of its output, into the out
\* container that belongs to the current connection.
AddOutBlob(w) ==
    /\ running[w].kind = "reduce"
    /\ conn[w] # NoConnection
    /\ ~local[w].done
    /\ local[w].piece > Len(running[w].blobs)
    /\ \E data \in Reduced(w) : Put(OutBlob(conn[w], running[w].task), data)
    /\ local' = [local EXCEPT ![w].done = TRUE]
    /\ UNCHANGED <<up, armed, pending, cq, running, conn, until_fail, doomed>>

WorkDone(w) == local[w].done

\* Finish sends nothing for a call that is over, and says so with ok == false; one
\* whose caller merely gave up its place as the leader is still sent.
FinishOutcomes(w) ==
    {doomed} \cup IF running[w].live THEN {} ELSE {[doomed EXCEPT ![w] = TRUE]}

\* responder_.Finish: every call that was handled is answered OK.
Answer(w) ==
    /\ running[w] # NoCall
    /\ WorkDone(w)
    /\ running' = [running EXCEPT ![w] = NoCall]
    /\ local' = [local EXCEPT ![w] = NoFiles]
    /\ doomed' \in FinishOutcomes(w)
    /\ UNCHANGED <<up, armed, pending, cq, conn, until_fail, storage>>

\* A ping that waits behind a task runs past its deadline.  It is dropped, or
\* answered after the task, and then its completion has ok == false.
PingExpires(w) ==
    /\ running[w] # NoCall
    /\ doomed' \in {doomed, [doomed EXCEPT ![w] = TRUE]}
    /\ UNCHANGED <<up, armed, pending, cq, running, local, conn, until_fail, storage>>

\* A completion with ok == false comes off the queue: handleRpcs returns, and so do
\* RunServer, Worker::run and main.  Calls may have come off the queue before it.
LeaveLoop(w) ==
    /\ running[w] = NoCall
    /\ doomed[w]
    /\ Stop(w)

\* The server thread's steps that say nothing to the master.
Work(w) ==
    \/ TakeCall(w)
    \/ CreateConnection(w)
    \/ MapPiece(w) \/ AddIntermediateBlob(w)
    \/ PrepareData(w) \/ AddOutBlob(w)
===============================================================================
