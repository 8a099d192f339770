------------------------------ MODULE WebServer ------------------------------
(***************************************************************************)
(* The HTTP side of the web explorer (src/src/web/http.rs): connections,   *)
(* the permits of the requests that read the savepoint, and downloads      *)
(* streamed by a producer thread through a bounded channel to a client     *)
(* that may be slow, stop reading or go away.                              *)
(*                                                                         *)
(* A client has one connection at a time. What a request asks for is       *)
(* chosen when it has been handled: a page, a failure, or a download. hyper*)
(* and tokio are modelled by what http.rs relies on: dropping a connection *)
(* drops its request and its body's receiver; the permits of a semaphore   *)
(* are given in the order they were asked for; hyper asks the body for a   *)
(* frame once it could write the one before.                               *)
(***************************************************************************)
EXTENDS Integers, Sequences, FiniteSets, SequencesExt, Kept

CONSTANTS Clients,
          MaxConnections,   \* MAX_CONNECTIONS
          MaxReads,         \* max_concurrent_reads()
          MaxDownloads,     \* WebOptions.max_downloads
          InFlight,         \* CHUNKS_IN_FLIGHT
          Chunks            \* bound: chunks of a download

ASSUME WebServerAssumption ==
    /\ MaxConnections \in Nat \ {0}
    /\ MaxReads \in Nat \ {0}
    /\ MaxDownloads \in Nat
    /\ InFlight \in Nat \ {0}
    /\ Chunks \in Nat
    /\ IsFiniteSet(Clients)

VARIABLES
    stopped,   \* the server was told to stop
    conn,      \* what a client's connection is doing
    waiting,   \* requests waiting for a read permit, in order
    read,      \* a blocking task handles the client's request, with its permit
    prod,      \* the producer of the client's download
    leaving,   \* producers that have said their last word and still hold a slot
    chan,      \* the chunks in flight
    made,      \* chunks the producer has sent
    ended,     \* ghost: how the last producer ended
    first,     \* ChannelBody.first is Some
    handed,    \* a chunk is with hyper that the client has not taken
    due,       \* hyper is able to ask for the next frame
    asked,     \* it has asked, and waits for the producer
    armed,     \* the connection's StallWatch
    ans,       \* what the client got for its last request
    got        \* chunks the client has taken

link == <<conn, waiting>>
body == <<first, handed, due, asked, armed>>
seen == <<ans, got>>
vars == <<stopped, link, read, prod, leaving, chan, made, ended, body, seen>>

Data(i) == [kind |-> "data", n |-> i]
DoneMsg == [kind |-> "done", n |-> 0]
FailMsg == [kind |-> "fail", n |-> 0]

ConnSteps == {"closed", "refused", "idle", "queued", "handling",
              "page", "failed", "download", "opening", "body"}

\* max_downloads.max(1).
Slots == Max({MaxDownloads, 1})

TypeOK ==
    /\ stopped \in BOOLEAN
    /\ conn \in [Clients -> ConnSteps]
    /\ \A c \in Range(waiting) : conn[c] = "queued"
    /\ prod \in [Clients -> {"none", "run", "send", "done", "fail"}]
    /\ leaving \in 0 .. Slots
    /\ \A f \in {read, first, handed, due, asked, armed} : f \in [Clients -> BOOLEAN]
    /\ \A c \in Clients : Len(chan[c]) <= InFlight
    /\ made \in [Clients -> 0 .. Chunks]
    /\ ended \in [Clients -> {"none", "done", "fail"}]
    /\ got \in [Clients -> 0 .. Chunks]
    /\ ans \in [Clients -> {"none", "busy", "page", "error", "whole", "aborted"}]

Init ==
    /\ stopped = FALSE
    /\ conn = [c \in Clients |-> "closed"]
    /\ waiting = <<>>
    /\ prod = [c \in Clients |-> "none"]
    /\ read = [c \in Clients |-> FALSE]
    /\ leaving = 0
    /\ chan = [c \in Clients |-> <<>>]
    /\ made = [c \in Clients |-> 0]
    /\ ended = [c \in Clients |-> "none"]
    /\ first = [c \in Clients |-> FALSE]
    /\ handed = [c \in Clients |-> FALSE]
    /\ due = [c \in Clients |-> FALSE]
    /\ asked = [c \in Clients |-> FALSE]
    /\ armed = [c \in Clients |-> FALSE]
    /\ ans = [c \in Clients |-> "none"]
    /\ got = [c \in Clients |-> 0]

Goto(c, step) == conn' = [conn EXCEPT ![c] = step]
Answer(c, a)  == ans' = [ans EXCEPT ![c] = a]

\* A receiver is there while the response opens or its body streams.
Receiving(c) == conn[c] \in {"opening", "body"}

-----------------------------------------------------------------------------
(***************************************************************************)
(* Connections (accept_loop).                                              *)
(***************************************************************************)

Served == {c \in Clients : conn[c] \notin {"closed", "refused"}}

\* A connection permit, or one 503. (The client's earlier producer and task are
\* over: another client stands for one that reconnects before.)
Connect(c) ==
    /\ ~stopped
    /\ conn[c] = "closed"
    /\ prod[c] = "none" /\ ~read[c]
    /\ Goto(c, IF Cardinality(Served) < MaxConnections THEN "idle" ELSE "refused")
    /\ Answer(c, "none")
    /\ UNCHANGED <<stopped, waiting, read, prod, leaving, chan, made, ended, body, got>>

\* Over the limit: `busy`, then the connection is closed.
Refuse(c) ==
    /\ conn[c] = "refused"
    /\ Goto(c, "closed")
    /\ Answer(c, "busy")
    /\ UNCHANGED <<stopped, waiting, read, prod, leaving, chan, made, ended, body, got>>

\* Mutant: the connection goes but its body's receiver stays.
DroppedKeepsBody(cs) ==
    /\ waiting' = Keep(waiting, Clients \ cs)
    /\ conn' = [c \in Clients |-> IF c \in cs /\ ~Receiving(c) THEN "closed" ELSE conn[c]]
    /\ UNCHANGED <<chan, body>>

\* The connections of cs are dropped: their request if it still waits, their
\* receiver and what was in it (Drop for ChannelBody disarms the watch). A
\* blocking task and a producer go on.
Dropped(cs) ==
    /\ conn' = [c \in Clients |-> IF c \in cs THEN "closed" ELSE conn[c]]
    /\ waiting' = Keep(waiting, Clients \ cs)
    /\ chan' = [c \in Clients |-> IF c \in cs THEN <<>> ELSE chan[c]]
    /\ first' = [c \in Clients |-> c \notin cs /\ first[c]]
    /\ handed' = [c \in Clients |-> c \notin cs /\ handed[c]]
    /\ due' = [c \in Clients |-> c \notin cs /\ due[c]]
    /\ asked' = [c \in Clients |-> c \notin cs /\ asked[c]]
    /\ armed' = [c \in Clients |-> c \notin cs /\ armed[c]]

\* The body failed, the client went away or the server dropped it: a client in
\* the middle of a body sees an aborted transfer.
CutOff(cs) ==
    /\ Dropped(cs)
    /\ ans' = [c \in Clients |-> IF c \in cs /\ conn[c] = "body" THEN "aborted" ELSE ans[c]]

ClientLeaves(c) ==
    /\ conn[c] # "closed"
    /\ CutOff({c})
    /\ UNCHANGED <<stopped, read, prod, leaving, made, ended, got>>

\* shutdown: the runtime and all its connections are dropped.
Stop ==
    /\ ~stopped
    /\ stopped' = TRUE
    /\ CutOff({c \in Clients : conn[c] # "closed"})
    /\ UNCHANGED <<read, prod, leaving, made, ended, got>>

-----------------------------------------------------------------------------
(***************************************************************************)
(* Requests (respond).                                                     *)
(***************************************************************************)

Request(c) ==
    /\ conn[c] = "idle"
    /\ Goto(c, "queued")
    /\ waiting' = Append(waiting, c)
    /\ Answer(c, "none")
    /\ got' = [got EXCEPT ![c] = 0]
    /\ made' = [made EXCEPT ![c] = 0]
    /\ ended' = [ended EXCEPT ![c] = "none"]
    /\ UNCHANGED <<stopped, read, prod, leaving, chan, body>>

\* Mutant: the permit goes with the connection, not with the task.
ReadingConnected == {c \in Clients : read[c] /\ conn[c] = "handling"}

Reading == {c \in Clients : read[c]}

\* A read permit, in the order of the requests.
Admit(c) ==
    /\ waiting # <<>> /\ c = Head(waiting)
    /\ Cardinality(Reading) < MaxReads
    /\ waiting' = Tail(waiting)
    /\ Goto(c, "handling")
    /\ read' = [read EXCEPT ![c] = TRUE]
    /\ UNCHANGED <<stopped, prod, leaving, chan, made, ended, body, seen>>

\* Mutant: the permit of a client that went away is never given back.
HandledForgets(c, what) ==
    /\ read[c] /\ conn[c] = "handling"
    /\ read' = [read EXCEPT ![c] = FALSE]
    /\ Goto(c, what)
    /\ UNCHANGED <<stopped, waiting, prod, leaving, chan, made, ended, body, seen>>

\* The blocking task ends, and with it the permit; the result is lost if the
\* connection is.
Handled(c, what) ==
    /\ read[c]
    /\ read' = [read EXCEPT ![c] = FALSE]
    /\ Goto(c, IF conn[c] = "handling" THEN what ELSE conn[c])
    /\ UNCHANGED <<stopped, waiting, prod, leaving, chan, made, ended, body, seen>>

\* A page, or the answer to a handler that panicked.
RespondPage(c) ==
    /\ conn[c] \in {"page", "failed"}
    /\ Answer(c, IF conn[c] = "page" THEN "page" ELSE "error")
    /\ Goto(c, "idle")
    /\ UNCHANGED <<stopped, waiting, read, prod, leaving, chan, made, ended, body, got>>

\* try_acquire: a slot, and a producer; or a 503 at once.
Taken == Cardinality({c \in Clients : prod[c] # "none"}) + leaving

RespondDownload(c) ==
    /\ conn[c] = "download"
    /\ \/ /\ Taken < Slots
          /\ prod' = [prod EXCEPT ![c] = "run"]
          /\ Goto(c, "opening")
          /\ UNCHANGED ans
       \/ /\ Taken >= Slots
          /\ Answer(c, "busy")
          /\ Goto(c, "idle")
          /\ UNCHANGED prod
    /\ UNCHANGED <<stopped, waiting, read, leaving, chan, made, ended, body, got>>

-----------------------------------------------------------------------------
(***************************************************************************)
(* The producer (streamed, ChannelWriter).                                 *)
(***************************************************************************)

\* blocking_send waits for room.
Room(c) == Len(chan[c]) < InFlight

\* The buffer holds a chunk, or everything was written, or a read failed or
\* `produce` panicked.
Produce(c, how) ==
    /\ prod[c] = "run"
    /\ how = "send" => made[c] < Chunks
    /\ prod' = [prod EXCEPT ![c] = how]
    /\ ended' = [ended EXCEPT ![c] = IF how = "send" THEN @ ELSE how]
    /\ UNCHANGED <<stopped, link, read, leaving, chan, made, body, seen>>

\* send_buffered: the chunk is sent, or the client went away.
SendBuffered(c) ==
    /\ prod[c] = "send"
    /\ \/ /\ Receiving(c)
          /\ Room(c)
          /\ made' = [made EXCEPT ![c] = @ + 1]
          /\ chan' = [chan EXCEPT ![c] = Append(@, Data(made[c] + 1))]
          /\ prod' = [prod EXCEPT ![c] = "run"]
          /\ UNCHANGED ended
       \/ /\ ~Receiving(c)
          /\ prod' = [prod EXCEPT ![c] = "fail"]
          /\ ended' = [ended EXCEPT ![c] = "fail"]
          /\ UNCHANGED <<made, chan>>
    /\ UNCHANGED <<stopped, link, read, leaving, body, seen>>

\* Mutant: a failed producer also says Done.
ProduceSaysDone(c) ==
    /\ prod[c] \in {"done", "fail"}
    /\ Receiving(c) => Room(c)
    /\ chan' = [chan EXCEPT ![c] = IF Receiving(c) THEN Append(@, DoneMsg) ELSE @]
    /\ prod' = [prod EXCEPT ![c] = "none"]
    /\ leaving' = leaving + 1
    /\ UNCHANGED <<stopped, link, read, made, ended, body, seen>>

\* The last message, if anyone listens; the slot is still held.
ProduceSays(c) ==
    /\ prod[c] \in {"done", "fail"}
    /\ Receiving(c) => Room(c)
    /\ chan' = [chan EXCEPT ![c] =
          IF Receiving(c) THEN Append(@, IF prod[c] = "done" THEN DoneMsg ELSE FailMsg) ELSE @]
    /\ prod' = [prod EXCEPT ![c] = "none"]
    /\ leaving' = leaving + 1
    /\ UNCHANGED <<stopped, link, read, made, ended, body, seen>>

\* drop(slot): a client told that its download is complete may come back before.
DropSlot ==
    /\ leaving > 0
    /\ leaving' = leaving - 1
    /\ UNCHANGED <<stopped, link, read, prod, chan, made, ended, body, seen>>

-----------------------------------------------------------------------------
(***************************************************************************)
(* The body (streamed, ChannelBody, StallWatch).                           *)
(***************************************************************************)

\* The first message decides what is answered.
First(c) ==
    /\ conn[c] = "opening"
    /\ chan[c] # <<>>
    /\ \/ /\ Head(chan[c]).kind = "data"
          /\ Goto(c, "body")
          /\ chan' = [chan EXCEPT ![c] = Tail(@)]
          /\ first' = [first EXCEPT ![c] = TRUE]
          /\ due' = [due EXCEPT ![c] = TRUE]
          /\ UNCHANGED ans
       \/ /\ Head(chan[c]).kind # "data"
          /\ Goto(c, "idle")
          /\ Answer(c, IF Head(chan[c]).kind = "done" THEN "whole" ELSE "error")
          /\ chan' = [chan EXCEPT ![c] = <<>>]
          /\ UNCHANGED <<first, due>>
    /\ UNCHANGED <<stopped, waiting, read, prod, leaving, made, ended, handed, asked, armed, got>>

\* Mutant: once armed, never disarmed.
WatchArms(c, on) == armed' = [armed EXCEPT ![c] = @ \/ on]

\* poll_frame: the watch is disarmed, and
Asks(c) == conn[c] = "body" /\ due[c]
Watch(c, on) == armed' = [armed EXCEPT ![c] = on]

\* a chunk is handed over, which arms it again;
HandOver(c) ==
    /\ Asks(c)
    /\ \/ first[c] /\ UNCHANGED chan
       \/ /\ ~first[c] /\ chan[c] # <<>> /\ Head(chan[c]).kind = "data"
          /\ chan' = [chan EXCEPT ![c] = Tail(@)]
    /\ first' = [first EXCEPT ![c] = FALSE]
    /\ Watch(c, TRUE)
    /\ handed' = [handed EXCEPT ![c] = TRUE]
    /\ due' = [due EXCEPT ![c] = FALSE]
    /\ asked' = [asked EXCEPT ![c] = FALSE]
    /\ UNCHANGED <<stopped, link, read, prod, leaving, made, ended, seen>>

\* or the producer is waited for (asking again changes nothing);
Pending(c) ==
    /\ Asks(c)
    /\ ~asked[c]
    /\ ~first[c] /\ chan[c] = <<>>
    /\ Watch(c, FALSE)
    /\ asked' = [asked EXCEPT ![c] = TRUE]
    /\ UNCHANGED <<stopped, link, read, prod, leaving, chan, made, ended, first, handed, due, seen>>

\* or the body ends: cleanly on Done, aborting the connection on Fail.
BodyEnds(c) ==
    /\ Asks(c)
    /\ ~first[c] /\ chan[c] # <<>>
    /\ \/ /\ Head(chan[c]).kind = "done"
          /\ Goto(c, "idle")
          /\ Answer(c, "whole")
          /\ chan' = [chan EXCEPT ![c] = <<>>]
          /\ Watch(c, FALSE)
          /\ due' = [due EXCEPT ![c] = FALSE]
          /\ asked' = [asked EXCEPT ![c] = FALSE]
          /\ UNCHANGED <<waiting, first, handed>>
       \/ /\ Head(chan[c]).kind = "fail"
          /\ CutOff({c})
    /\ UNCHANGED <<stopped, read, prod, leaving, made, ended, got>>

\* The client takes what was written for it.
Take(c) ==
    /\ handed[c]
    /\ handed' = [handed EXCEPT ![c] = FALSE]
    /\ due' = [due EXCEPT ![c] = TRUE]
    /\ got' = [got EXCEPT ![c] = @ + 1]
    /\ UNCHANGED <<stopped, link, read, prod, leaving, chan, made, ended, first, asked, armed, ans>>

\* serve_watched: at a tick after a poll that left the connection pending, whatever
\* it waits for, it is dropped when its watch has been armed for too long. (Since
\* that poll the client may have taken its chunk, or the producer sent one.)
Stalled(c) ==
    /\ armed[c]
    /\ CutOff({c})
    /\ UNCHANGED <<stopped, read, prod, leaving, made, ended, got>>

Server(c) ==
    \/ Refuse(c) \/ Admit(c) \/ RespondPage(c) \/ RespondDownload(c)
    \/ First(c) \/ HandOver(c) \/ Pending(c) \/ BodyEnds(c)

Task(c) == \E what \in {"page", "failed", "download"} : Handled(c, what)

Producer(c) ==
    SendBuffered(c) \/ ProduceSays(c) \/ \E how \in {"send", "done", "fail"} : Produce(c, how)

Next ==
    \/ \E c \in Clients : Server(c) \/ Task(c) \/ Producer(c) \/ Stalled(c)
    \/ \E c \in Clients : Connect(c) \/ Request(c) \/ Take(c) \/ ClientLeaves(c)
    \/ DropSlot
    \/ Stop

Spec == Init /\ [][Next]_vars

\* The server's task, its blocking threads and its clock go on; a client need
\* not send, take or close anything.
FairSpec ==
    /\ Spec
    /\ WF_vars(DropSlot)
    /\ \A c \in Clients :
          WF_vars(Server(c)) /\ WF_vars(Task(c)) /\ WF_vars(Producer(c)) /\ WF_vars(Stalled(c))

-----------------------------------------------------------------------------
(***************************************************************************)
(* Properties.                                                             *)
(***************************************************************************)

\* ChannelBody: a transfer that ended cleanly is the whole download: its producer
\* wrote everything and the client took every chunk. A failed or abandoned
\* download never looks like a short file: it is an aborted transfer, or, when it
\* fails before its first chunk, an error with nothing sent.
CleanIsWhole ==
    \A c \in Clients :
       /\ ans[c] = "whole" => ended[c] = "done" /\ got[c] = made[c]
       /\ ans[c] = "error" => got[c] = 0 /\ made[c] = 0

\* The savepoint is read by no more requests and producers than there are
\* permits and slots, though clients leave while they are read for.
ReadersBounded ==
    /\ Cardinality({c \in Clients : read[c]}) <= MaxReads
    /\ Cardinality({c \in Clients : prod[c] # "none"}) <= Slots

\* The stall watch, which may drop a connection whenever it is armed, blames
\* clients and only clients: it is armed while a chunk was handed over and not taken,
\* and never while the connection waits for the producer's next chunk, opens its
\* response, or goes on with another request after its download.
StallIsTheClients ==
    \A c \in Clients :
       /\ handed[c] => armed[c]
       /\ armed[c] => conn[c] = "body" /\ ~first[c] /\ ~asked[c]

\* A request is answered whatever other clients do, stalled downloads included.
RequestsAnswered ==
    \A c \in Clients : conn[c] = "queued" ~> conn[c] \in {"closed", "idle", "body"}

\* Every producer ends though its client takes nothing, and again and again a
\* download slot is free; after a stop nothing reads the savepoint any more, in the
\* end (streamed, RunningServer::stop).
ProducersEnd ==
    /\ \A c \in Clients : prod[c] # "none" ~> prod[c] = "none"
    /\ []<>(Taken < Slots)
    /\ stopped ~> \A c \in Clients : prod[c] = "none" /\ ~read[c]
=============================================================================
