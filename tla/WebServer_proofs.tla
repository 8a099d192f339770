--------------------------- MODULE WebServer_proofs ---------------------------
(***************************************************************************)
(* Proofs about WebServer, for any number of clients, permits, slots and   *)
(* chunks in flight, and downloads of any length.                          *)
(***************************************************************************)
EXTENDS WebServer, Kept_proofs, SequenceTheorems

Msgs == [kind : {"data", "done", "fail"}, n : Nat]

\* The variables hold what their declarations say.
Typed ==
    /\ stopped \in BOOLEAN
    /\ conn \in [Clients -> ConnSteps]
    /\ waiting \in Seq(Clients)
    /\ read \in [Clients -> BOOLEAN]
    /\ prod \in [Clients -> {"none", "run", "send", "done", "fail"}]
    /\ leaving \in Nat
    /\ chan \in [Clients -> Seq(Msgs)]
    /\ made \in [Clients -> 0 .. Chunks]
    /\ ended \in [Clients -> {"none", "done", "fail"}]
    /\ first \in [Clients -> BOOLEAN]
    /\ handed \in [Clients -> BOOLEAN]
    /\ due \in [Clients -> BOOLEAN]
    /\ asked \in [Clients -> BOOLEAN]
    /\ armed \in [Clients -> BOOLEAN]
    /\ ans \in [Clients -> {"none", "busy", "page", "error", "whole", "aborted"}]
    /\ got \in [Clients -> Nat]

\* The read permits and the download slots that are out.
Permits ==
    /\ Cardinality(Reading) <= MaxReads
    /\ Taken <= Slots

\* A client waits once, and only while its request is queued.
Queue ==
    /\ IsInjective(waiting)
    /\ \A c \in Range(waiting) : conn[c] = "queued"

Fresh == {"queued", "handling", "page", "failed", "download"}

\* A connection has a producer only for a download that is answered or was left.
ConnInv(c) ==
    /\ prod[c] # "none" => conn[c] \in {"closed", "opening", "body"}
    /\ conn[c] \in Fresh => made[c] = 0 /\ got[c] = 0 /\ ended[c] = "none"
    /\ conn[c] \notin {"opening", "body"} => chan[c] = <<>>
    /\ Len(chan[c]) <= InFlight
    /\ got[c] <= made[c]

\* The frame that is handed over and the frame that is due exclude each other, a
\* frame is asked for when it is due, and the watch goes with the chunk handed over
\* last until hyper has asked for the next.
BodyInv(c) ==
    /\ conn[c] # "body" => ~first[c] /\ ~handed[c] /\ ~due[c] /\ ~asked[c] /\ ~armed[c]
    /\ conn[c] = "body" => (due[c] <=> ~handed[c])
    /\ asked[c] => due[c]
    /\ handed[c] => armed[c]
    /\ armed[c] => ~first[c] /\ ~asked[c]

ProdInv(c) ==
    /\ prod[c] \in {"done", "fail"} => ended[c] = prod[c]
    /\ prod[c] \in {"run", "send"} => ended[c] = "none"
    /\ prod[c] = "send" => made[c] < Chunks

\* Chunks taken from the channel that the client has not taken; the last word.
Carried(c) == (IF handed[c] THEN 1 ELSE 0) + (IF first[c] THEN 1 ELSE 0)
Said(c)    == IF prod[c] = "none" THEN 1 ELSE 0

\* Every chunk made is taken, with hyper, the first, or in the channel; a producer
\* that is gone has left its last word there, and nothing after it.
Flow(c) ==
    conn[c] \in {"opening", "body"} =>
       LET n == Len(chan[c])
       IN  /\ made[c] = got[c] + Carried(c) + n - Said(c)
           /\ \A i \in 1 .. n - Said(c) : chan[c][i].kind = "data"
           /\ prod[c] = "none" => n > 0 /\ chan[c][n].kind = ended[c] /\ ended[c] # "none"
           /\ conn[c] = "opening" => got[c] = 0

AnsInv(c) ==
    /\ conn[c] \notin {"idle", "closed"} => ans[c] = "none"
    /\ ans[c] \in {"whole", "error"} => prod[c] = "none"
    /\ ans[c] = "whole" => ended[c] = "done" /\ got[c] = made[c]
    /\ ans[c] = "error" => got[c] = 0 /\ made[c] = 0

ClientInv(c) == ConnInv(c) /\ BodyInv(c) /\ ProdInv(c) /\ Flow(c) /\ AnsInv(c)

IInv ==
    /\ Typed
    /\ Permits
    /\ Queue
    /\ \A c \in Clients : ClientInv(c)

-----------------------------------------------------------------------------
(***************************************************************************)
(* Lemmas the actions share.                                               *)
(***************************************************************************)

\* There is at least one download slot.
LEMMA SlotsNat == Slots \in Nat \ {0}
BY WebServerAssumption, MaxOfTwo DEF Slots

\* Sets of clients are finite and counted.
LEMMA ClientSets ==
  ASSUME NEW S, S \subseteq Clients
  PROVE  IsFiniteSet(S) /\ Cardinality(S) \in Nat
<1>1. S \in SUBSET Clients
  OBVIOUS
<1> QED
  BY <1>1, WebServerAssumption, FS_Subset, FS_CardinalityType

\* The terms of the flow are numbers.
LEMMA FlowNumbers ==
  ASSUME Typed, NEW c \in Clients
  PROVE  /\ Carried(c) \in Nat /\ Said(c) \in 0 .. 1
         /\ got[c] \in Nat /\ made[c] \in Nat
         /\ chan[c] \in Seq(Msgs) /\ Len(chan[c]) \in Nat
<1>1. Carried(c) \in Nat /\ Said(c) \in 0 .. 1
  BY DEF Carried, Said
<1>2. got[c] \in Nat /\ made[c] \in Nat /\ chan[c] \in Seq(Msgs)
  BY WebServerAssumption DEF Typed
<1> QED
  BY <1>1, <1>2

\* A step leaves a client alone whose values it leaves alone.
LEMMA OthersKeep ==
  ASSUME NEW c \in Clients, ClientInv(c),
         conn'[c] = conn[c], prod'[c] = prod[c], chan'[c] = chan[c],
         made'[c] = made[c], ended'[c] = ended[c], first'[c] = first[c],
         handed'[c] = handed[c], due'[c] = due[c], asked'[c] = asked[c], armed'[c] = armed[c],
         ans'[c] = ans[c], got'[c] = got[c]
  PROVE  ClientInv(c)'
<1>1. ConnInv(c)' /\ BodyInv(c)' /\ ProdInv(c)' /\ AnsInv(c)'
  BY DEF ClientInv, ConnInv, BodyInv, ProdInv, AnsInv
<1>2. Flow(c)'
  BY DEF ClientInv, Flow, Said, Carried
<1> QED
  BY <1>1, <1>2 DEF ClientInv

\* Permits and slots stay within their bounds where nothing takes one.
LEMMA PermitsKept ==
  ASSUME Typed, Permits, leaving' = leaving,
         \A c \in Clients : read'[c] => read[c],
         \A c \in Clients : prod'[c] # "none" => prod[c] # "none"
  PROVE  Permits'
<1>1. Reading' \in SUBSET Reading
  BY DEF Reading
<1> DEFINE P == {c \in Clients : prod[c] # "none"}
           Q == {c \in Clients : prod'[c] # "none"}
<1>2. Q \in SUBSET P
  OBVIOUS
<1>3. IsFiniteSet(Reading) /\ IsFiniteSet(P) /\ Cardinality(Reading) \in Nat
      /\ Cardinality(P) \in Nat /\ Cardinality(Q) \in Nat /\ Cardinality(Reading') \in Nat
  <2>1. P \subseteq Clients /\ Q \subseteq Clients /\ Reading \subseteq Clients /\ Reading' \subseteq Clients
    BY DEF Reading
  <2> HIDE DEF P, Q
  <2> QED
    BY <2>1, ClientSets
<1>4. Taken = Cardinality(P) + leaving /\ Taken' = Cardinality(Q) + leaving'
  BY DEF Taken
<1> HIDE DEF P, Q
<1>5. Cardinality(Reading') <= Cardinality(Reading)
  BY <1>1, <1>3, FS_Subset
<1>6. Cardinality(Q) <= Cardinality(P)
  BY <1>2, <1>3, FS_Subset
<1> QED
  BY <1>3, <1>4, <1>5, <1>6, SlotsNat, WebServerAssumption DEF Permits, Typed

\* What the queue says, place by place.
LEMMA QueuePlaces ==
  ASSUME NEW s \in Seq(Clients), NEW f
  PROVE  /\ (\A c \in Range(s) : f[c] = "queued") <=> (\A i \in 1 .. Len(s) : f[s[i]] = "queued")
         /\ IsInjective(s) <=> \A i, j \in 1 .. Len(s) : s[i] = s[j] => i = j
         /\ \A i \in 1 .. Len(s) : s[i] \in Clients
<1>1. DOMAIN s = 1 .. Len(s) /\ \A i \in 1 .. Len(s) : s[i] \in Clients
  OBVIOUS
<1>2. (\A c \in Range(s) : f[c] = "queued") <=> (\A i \in 1 .. Len(s) : f[s[i]] = "queued")
  BY <1>1, Zenon DEF Range
<1>3. IsInjective(s) <=> \A i, j \in 1 .. Len(s) : s[i] = s[j] => i = j
  BY <1>1, Zenon DEF IsInjective
<1> QED
  BY <1>1, <1>2, <1>3

\* The queue stands where a step changes no connection that is in it.
LEMMA QueueKept ==
  ASSUME Queue, waiting' = waiting,
         \A c \in Clients : conn[c] = "queued" => conn'[c] = "queued",
         waiting \in Seq(Clients)
  PROVE  Queue'
<1>1. Range(waiting) \subseteq Clients /\ Range(waiting)' = Range(waiting)
  BY RangeAt DEF Range
<1> QED
  BY <1>1 DEF Queue, IsInjective

-----------------------------------------------------------------------------
(***************************************************************************)
(* One lemma per action.                                                   *)
(***************************************************************************)

LEMMA InitInv == Init => IInv
<1> SUFFICES ASSUME Init PROVE IInv
  OBVIOUS
<1>1. Typed
  <2>1. 0 \in 0 .. Chunks /\ <<>> \in Seq(Clients) /\ <<>> \in Seq(Msgs)
    BY WebServerAssumption
  <2> QED
    BY <2>1 DEF Init, Typed, ConnSteps
<1>2. Permits
  <2>1. Reading = {} /\ {c \in Clients : prod[c] # "none"} = {} /\ leaving = 0
    BY DEF Init, Reading
  <2> QED
    BY <2>1, FS_EmptySet, SlotsNat, WebServerAssumption DEF Permits, Taken
<1>3. Queue
  BY DEF Init, Queue, IsInjective, Range
<1>4. ASSUME NEW c \in Clients
      PROVE  ClientInv(c)
  BY WebServerAssumption DEF Init, ClientInv, ConnInv, BodyInv, ProdInv, Flow, AnsInv, Fresh
<1> QED
  BY <1>1, <1>2, <1>3, <1>4 DEF IInv

\* A connection is admitted or refused.
LEMMA ConnectInv ==
  ASSUME IInv, NEW c \in Clients, Connect(c)
  PROVE  IInv'
<1>1. PICK step \in {"idle", "refused"} : conn' = [conn EXCEPT ![c] = step]
  BY DEF Connect, Goto
<1>2. ans' = [ans EXCEPT ![c] = "none"]
  BY DEF Connect, Answer
<1>3. /\ conn[c] = "closed" /\ prod[c] = "none"
      /\ UNCHANGED <<stopped, waiting, read, prod, leaving, chan, made, ended,
                     first, handed, due, asked, armed, got>>
  BY DEF Connect, body
<1>4. Typed /\ Typed'
  BY <1>1, <1>2, <1>3 DEF IInv, Typed, ConnSteps
<1>5. Permits' /\ Queue'
  <2>1. \A d \in Clients : conn[d] = "queued" => conn'[d] = "queued"
    BY <1>1, <1>3, <1>4 DEF Typed
  <2> QED
    BY <1>3, <1>4, <2>1, PermitsKept, QueueKept DEF IInv, Typed
<1>6. ClientInv(c)'
  <2>1. conn'[c] \in {"idle", "refused"} /\ ans'[c] = "none"
    BY <1>1, <1>2, <1>4 DEF Typed
  <2>2. ConnInv(c)' /\ BodyInv(c)' /\ ProdInv(c)'
    BY <1>3, <2>1 DEF IInv, ClientInv, ConnInv, BodyInv, ProdInv, Fresh
  <2>3. Flow(c)' /\ AnsInv(c)'
    BY <1>3, <2>1 DEF Flow, AnsInv
  <2> QED
    BY <2>2, <2>3 DEF ClientInv
<1>7. ASSUME NEW d \in Clients, d # c
      PROVE  ClientInv(d)'
  <2>1. conn'[d] = conn[d] /\ ans'[d] = ans[d]
    BY <1>1, <1>2, <1>4, <1>7 DEF Typed
  <2> QED
    BY <1>3, <2>1, OthersKeep DEF IInv
<1> QED
  BY <1>4, <1>5, <1>6, <1>7 DEF IInv

\* A refused connection is answered and closed.
LEMMA RefuseInv ==
  ASSUME IInv, NEW c \in Clients, Refuse(c)
  PROVE  IInv'
<1>1. /\ conn' = [conn EXCEPT ![c] = "closed"] /\ ans' = [ans EXCEPT ![c] = "busy"]
      /\ conn[c] = "refused"
      /\ UNCHANGED <<stopped, waiting, read, prod, leaving, chan, made, ended,
                     first, handed, due, asked, armed, got>>
  BY DEF Refuse, Goto, Answer, body
<1>2. Typed /\ Typed'
  BY <1>1 DEF IInv, Typed, ConnSteps
<1>3. conn'[c] = "closed" /\ ans'[c] = "busy"
  BY <1>1, <1>2 DEF Typed
<1>4. Permits' /\ Queue'
  <2>1. \A d \in Clients : conn[d] = "queued" => conn'[d] = "queued"
    BY <1>1, <1>2 DEF Typed
  <2> QED
    BY <1>1, <1>2, <2>1, PermitsKept, QueueKept DEF IInv, Typed
<1>5. ClientInv(c)'
  <2>1. ConnInv(c)' /\ BodyInv(c)' /\ ProdInv(c)'
    BY <1>1, <1>3 DEF IInv, ClientInv, ConnInv, BodyInv, ProdInv, Fresh
  <2>2. Flow(c)' /\ AnsInv(c)'
    BY <1>1, <1>3 DEF Flow, AnsInv
  <2> QED
    BY <2>1, <2>2 DEF ClientInv
<1>6. ASSUME NEW d \in Clients, d # c
      PROVE  ClientInv(d)'
  <2>1. conn'[d] = conn[d] /\ ans'[d] = ans[d]
    BY <1>1, <1>2, <1>6 DEF Typed
  <2> QED
    BY <1>1, <2>1, OthersKeep DEF IInv
<1> QED
  BY <1>2, <1>4, <1>5, <1>6 DEF IInv

\* Connections that are dropped lose their place in the queue and their body,
\* and the rest of the state stands.
LEMMA CutOffInv ==
  ASSUME IInv, NEW cs \in SUBSET Clients, CutOff(cs), stopped' \in BOOLEAN,
         UNCHANGED <<read, prod, leaving, made, ended, got>>
  PROVE  IInv'
<1>1. /\ conn' = [c \in Clients |-> IF c \in cs THEN "closed" ELSE conn[c]]
      /\ waiting' = Keep(waiting, Clients \ cs)
      /\ chan' = [c \in Clients |-> IF c \in cs THEN <<>> ELSE chan[c]]
      /\ first' = [c \in Clients |-> c \notin cs /\ first[c]]
      /\ handed' = [c \in Clients |-> c \notin cs /\ handed[c]]
      /\ due' = [c \in Clients |-> c \notin cs /\ due[c]]
      /\ asked' = [c \in Clients |-> c \notin cs /\ asked[c]]
      /\ armed' = [c \in Clients |-> c \notin cs /\ armed[c]]
      /\ ans' = [c \in Clients |-> IF c \in cs /\ conn[c] = "body" THEN "aborted" ELSE ans[c]]
  BY DEF CutOff, Dropped
<1>2. Typed
  BY DEF IInv
<1>3. /\ waiting' \in Seq(Clients)
      /\ Range(waiting') = Range(waiting) \cap (Clients \ cs)
      /\ IsInjective(waiting) => IsInjective(waiting')
  BY <1>1, <1>2, KeepElements DEF Typed
<1>4. Typed'
  <2>1. conn' \in [Clients -> ConnSteps] /\ chan' \in [Clients -> Seq(Msgs)]
    <3>1. <<>> \in Seq(Msgs)
      OBVIOUS
    <3> QED
      BY <1>1, <1>2, <3>1 DEF Typed, ConnSteps
  <2>2. /\ first' \in [Clients -> BOOLEAN] /\ handed' \in [Clients -> BOOLEAN]
        /\ due' \in [Clients -> BOOLEAN] /\ asked' \in [Clients -> BOOLEAN]
        /\ armed' \in [Clients -> BOOLEAN]
    BY <1>1
  <2>3. ans' \in [Clients -> {"none", "busy", "page", "error", "whole", "aborted"}]
    BY <1>1, <1>2 DEF Typed
  <2> QED
    BY <1>2, <1>3, <2>1, <2>2, <2>3 DEF Typed
<1>5. Permits'
  BY <1>2, PermitsKept DEF IInv
<1>6. Queue'
  <2>1. IsInjective(waiting) /\ \A c \in Range(waiting) : conn[c] = "queued"
    BY DEF IInv, Queue
  <2>2. \A c \in Range(waiting') : conn'[c] = "queued"
    BY <1>1, <1>3, <2>1
  <2>3. IsInjective(waiting')
    BY <1>3, <2>1
  <2> QED
    BY <2>2, <2>3 DEF Queue
<1>7. ASSUME NEW c \in Clients
      PROVE  ClientInv(c)'
  <2>1. CASE c \notin cs
    <3>1. /\ conn'[c] = conn[c] /\ chan'[c] = chan[c] /\ first'[c] = first[c]
          /\ handed'[c] = handed[c] /\ due'[c] = due[c] /\ asked'[c] = asked[c]
          /\ armed'[c] = armed[c] /\ ans'[c] = ans[c]
      BY <1>1, <1>2, <2>1 DEF Typed
    <3> QED
      BY <3>1, OthersKeep DEF IInv
  <2>2. CASE c \in cs
    <3>1. /\ conn'[c] = "closed" /\ chan'[c] = <<>>
          /\ ~first'[c] /\ ~handed'[c] /\ ~due'[c] /\ ~asked'[c] /\ ~armed'[c]
      BY <1>1, <2>2
    <3>2. ans'[c] = "aborted" \/ ans'[c] = ans[c]
      BY <1>1, <2>2
    <3>3. ConnInv(c)' /\ BodyInv(c)' /\ ProdInv(c)'
      <4>1. Len(<<>>) = 0 /\ 0 <= InFlight
        BY WebServerAssumption
      <4> QED
        BY <3>1, <4>1 DEF IInv, ClientInv, ConnInv, BodyInv, ProdInv, Fresh
    <3>4. Flow(c)'
      BY <3>1 DEF Flow
    <3>5. AnsInv(c)'
      BY <3>1, <3>2 DEF IInv, ClientInv, AnsInv
    <3> QED
      BY <3>3, <3>4, <3>5 DEF ClientInv
  <2> QED
    BY <2>1, <2>2
<1> QED
  BY <1>4, <1>5, <1>6, <1>7 DEF IInv

\* A request joins the queue behind those that wait.
LEMMA RequestInv ==
  ASSUME IInv, NEW c \in Clients, Request(c)
  PROVE  IInv'
<1>1. /\ conn[c] = "idle" /\ conn' = [conn EXCEPT ![c] = "queued"]
      /\ waiting' = Append(waiting, c)
      /\ ans' = [ans EXCEPT ![c] = "none"]
      /\ got' = [got EXCEPT ![c] = 0] /\ made' = [made EXCEPT ![c] = 0]
      /\ ended' = [ended EXCEPT ![c] = "none"]
      /\ UNCHANGED <<stopped, read, prod, leaving, chan, first, handed, due, asked, armed>>
  BY DEF Request, Goto, Answer, body
<1>2. Typed
  BY DEF IInv
<1>3. Typed'
  <2>1. 0 \in 0 .. Chunks /\ Append(waiting, c) \in Seq(Clients)
    BY <1>2, WebServerAssumption DEF Typed
  <2> QED
    BY <1>1, <1>2, <2>1 DEF Typed, ConnSteps
<1>4. Permits'
  BY <1>1, <1>2, PermitsKept DEF IInv
<1>5. Queue'
  <2>0. waiting \in Seq(Clients)
    BY <1>2 DEF Typed
  <2>1. /\ IsInjective(waiting)
        /\ \A i \in 1 .. Len(waiting) : waiting[i] \in Clients /\ conn[waiting[i]] = "queued"
    BY <2>0, QueuePlaces DEF IInv, Queue
  <2>2. waiting' \in Seq(Clients) /\ Len(waiting') = Len(waiting) + 1
    BY <1>1, <2>0
  <2>3. \A i \in 1 .. Len(waiting') :
           waiting'[i] = IF i = Len(waiting) + 1 THEN c ELSE waiting[i]
    BY <1>1, <2>0
  <2>4. \A i \in 1 .. Len(waiting') : conn'[waiting'[i]] = "queued"
    <3>1. conn'[c] = "queued" /\ \A d \in Clients : d # c => conn'[d] = conn[d]
      BY <1>1, <1>2 DEF Typed
    <3> QED
      BY <2>1, <2>2, <2>3, <3>1
  <2>5. IsInjective(waiting')
    <3>1. \A i, j \in 1 .. Len(waiting) : waiting[i] = waiting[j] => i = j
      BY <2>1 DEF IsInjective
    <3>2. \A i \in 1 .. Len(waiting) : waiting[i] # c
      BY <1>1, <2>1
    <3>3. \A i, j \in 1 .. Len(waiting') : waiting'[i] = waiting'[j] => i = j
      BY <2>0, <2>1, <2>2, <2>3, <3>1, <3>2
    <3> QED
      BY <2>2, <3>3 DEF IsInjective
  <2>6. \A d \in Range(waiting') : conn'[d] = "queued"
    BY <2>2, <2>4, QueuePlaces
  <2> QED
    BY <2>5, <2>6 DEF Queue
<1>6. ClientInv(c)'
  <2>1. /\ conn'[c] = "queued" /\ ans'[c] = "none" /\ got'[c] = 0 /\ made'[c] = 0
        /\ ended'[c] = "none"
    BY <1>1, <1>2 DEF Typed
  <2>2. ConnInv(c)' /\ BodyInv(c)' /\ ProdInv(c)'
    BY <1>1, <2>1 DEF IInv, ClientInv, ConnInv, BodyInv, ProdInv, Fresh
  <2>3. Flow(c)' /\ AnsInv(c)'
    BY <1>1, <2>1 DEF Flow, AnsInv
  <2> QED
    BY <2>2, <2>3 DEF ClientInv
<1>7. ASSUME NEW d \in Clients, d # c
      PROVE  ClientInv(d)'
  <2>1. /\ conn'[d] = conn[d] /\ ans'[d] = ans[d] /\ got'[d] = got[d]
        /\ made'[d] = made[d] /\ ended'[d] = ended[d]
    BY <1>1, <1>2, <1>7 DEF Typed
  <2> QED
    BY <1>1, <2>1, OthersKeep DEF IInv
<1> QED
  BY <1>3, <1>4, <1>5, <1>6, <1>7 DEF IInv

\* The first of the queue gets a permit that is free.
LEMMA AdmitInv ==
  ASSUME IInv, NEW c \in Clients, Admit(c)
  PROVE  IInv'
<1>1. /\ waiting # <<>> /\ c = Head(waiting) /\ Cardinality(Reading) < MaxReads
      /\ waiting' = Tail(waiting)
      /\ conn' = [conn EXCEPT ![c] = "handling"]
      /\ read' = [read EXCEPT ![c] = TRUE]
      /\ UNCHANGED <<stopped, prod, leaving, chan, made, ended, first, handed, due, asked, armed, ans, got>>
  BY DEF Admit, Goto, body, seen
<1>2. Typed
  BY DEF IInv
<1>3. Typed'
  <2>1. Tail(waiting) \in Seq(Clients)
    BY <1>1, <1>2 DEF Typed
  <2> QED
    BY <1>1, <1>2, <2>1 DEF Typed, ConnSteps
<1>0. waiting \in Seq(Clients)
  BY <1>2 DEF Typed
<1>4. /\ Len(waiting) >= 1 /\ Len(waiting) \in Nat /\ c = waiting[1]
  BY <1>0, <1>1
<1>4a. /\ \A i \in 1 .. Len(waiting) : waiting[i] \in Clients /\ conn[waiting[i]] = "queued"
       /\ \A i, j \in 1 .. Len(waiting) : waiting[i] = waiting[j] => i = j
  BY <1>0, QueuePlaces DEF IInv, Queue
<1>5. /\ waiting' \in Seq(Clients) /\ Len(waiting') = Len(waiting) - 1
      /\ \A i \in 1 .. Len(waiting') : waiting'[i] = waiting[i + 1]
  BY <1>1, <1>2, HeadTailProperties DEF Typed
<1>6. Queue'
  <2>1. IsInjective(waiting')
    BY <1>4, <1>4a, <1>5, QueuePlaces
  <2>2. \A i \in 1 .. Len(waiting') : conn'[waiting'[i]] = "queued"
    BY <1>1, <1>2, <1>4, <1>4a, <1>5 DEF Typed
  <2>3. \A d \in Range(waiting') : conn'[d] = "queued"
    BY <1>5, <2>2, QueuePlaces
  <2> QED
    BY <2>1, <2>3 DEF Queue
<1>7. Permits'
  <2>1. Reading' = Reading \cup {c}
    BY <1>1, <1>2 DEF Reading, Typed
  <2>2. IsFiniteSet(Reading) /\ Cardinality(Reading) \in Nat
    BY ClientSets DEF Reading
  <2>3. Cardinality(Reading') <= Cardinality(Reading) + 1
    <3> DEFINE R == Reading
               R2 == Reading'
    <3>1. R2 = R \cup {c} /\ IsFiniteSet(R) /\ Cardinality(R) \in Nat
      BY <2>1, <2>2
    <3> HIDE DEF R, R2
    <3>2. Cardinality(R2) <= Cardinality(R) + 1
      BY <3>1, FS_AddElement
    <3> QED
      BY <3>2 DEF R, R2
  <2>4. Taken' = Taken
    BY <1>1 DEF Taken
  <2>5. Cardinality(Reading') \in Nat
    BY ClientSets DEF Reading
  <2>6. Slots' = Slots
    BY DEF Slots
  <2> QED
    BY <1>1, <2>2, <2>3, <2>4, <2>5, <2>6, WebServerAssumption DEF IInv, Permits
<1>8. ClientInv(c)'
  <2>1. conn[c] = "queued" /\ conn'[c] = "handling"
    BY <1>1, <1>2, <1>4, <1>4a DEF Typed
  <2>2. ConnInv(c)' /\ BodyInv(c)' /\ ProdInv(c)'
    BY <1>1, <2>1 DEF IInv, ClientInv, ConnInv, BodyInv, ProdInv, Fresh
  <2>3. Flow(c)' /\ AnsInv(c)'
    BY <1>1, <2>1 DEF IInv, ClientInv, Flow, AnsInv
  <2> QED
    BY <2>2, <2>3 DEF ClientInv
<1>9. ASSUME NEW d \in Clients, d # c
      PROVE  ClientInv(d)'
  <2>1. conn'[d] = conn[d]
    BY <1>1, <1>2, <1>9 DEF Typed
  <2> QED
    BY <1>1, <2>1, OthersKeep DEF IInv
<1> QED
  BY <1>3, <1>6, <1>7, <1>8, <1>9 DEF IInv

\* A blocking task ends: its answer reaches a connection that is still there.
LEMMA HandledInv ==
  ASSUME IInv, NEW c \in Clients, NEW what \in {"page", "failed", "download"}, Handled(c, what)
  PROVE  IInv'
<1>1. /\ read' = [read EXCEPT ![c] = FALSE]
      /\ conn' = [conn EXCEPT ![c] = IF conn[c] = "handling" THEN what ELSE conn[c]]
      /\ UNCHANGED <<stopped, waiting, prod, leaving, chan, made, ended,
                     first, handed, due, asked, armed, ans, got>>
  BY DEF Handled, Goto, body, seen
<1>2. Typed /\ Typed'
  BY <1>1 DEF IInv, Typed, ConnSteps
<1>3. \/ conn[c] = "handling" /\ conn'[c] \in {"page", "failed", "download"}
      \/ conn[c] # "handling" /\ conn'[c] = conn[c]
  BY <1>1, <1>2 DEF Typed
<1>4. \A d \in Clients : d # c => conn'[d] = conn[d]
  BY <1>1, <1>2 DEF Typed
<1>5. Permits' /\ Queue'
  <2>1. \A d \in Clients : (read'[d] => read[d]) /\ (conn[d] = "queued" => conn'[d] = "queued")
    BY <1>1, <1>2, <1>3, <1>4 DEF Typed
  <2> QED
    BY <1>1, <1>2, <2>1, PermitsKept, QueueKept DEF IInv, Typed
<1>6. ClientInv(c)'
  <2>1. CASE conn[c] = "handling" /\ conn'[c] \in {"page", "failed", "download"}
    <3>1. ConnInv(c)' /\ BodyInv(c)' /\ ProdInv(c)'
      BY <1>1, <2>1 DEF IInv, ClientInv, ConnInv, BodyInv, ProdInv, Fresh
    <3>2. Flow(c)' /\ AnsInv(c)'
      BY <1>1, <2>1 DEF IInv, ClientInv, Flow, AnsInv
    <3> QED
      BY <3>1, <3>2 DEF ClientInv
  <2>2. CASE conn'[c] = conn[c]
    BY <1>1, <2>2, OthersKeep DEF IInv
  <2> QED
    BY <1>3, <2>1, <2>2
<1>7. ASSUME NEW d \in Clients, d # c
      PROVE  ClientInv(d)'
  BY <1>1, <1>4, <1>7, OthersKeep DEF IInv
<1> QED
  BY <1>2, <1>5, <1>6, <1>7 DEF IInv

\* A page, or the answer to a handler that panicked: with no download behind it.
LEMMA RespondPageInv ==
  ASSUME IInv, NEW c \in Clients, RespondPage(c)
  PROVE  IInv'
<1>1. /\ conn[c] \in {"page", "failed"}
      /\ conn' = [conn EXCEPT ![c] = "idle"]
      /\ ans' = [ans EXCEPT ![c] = IF conn[c] = "page" THEN "page" ELSE "error"]
      /\ UNCHANGED <<stopped, waiting, read, prod, leaving, chan, made, ended,
                     first, handed, due, asked, armed, got>>
  BY DEF RespondPage, Goto, Answer, body
<1>2. Typed /\ Typed'
  BY <1>1 DEF IInv, Typed, ConnSteps
<1>3. conn'[c] = "idle" /\ ans'[c] \in {"page", "error"}
  BY <1>1, <1>2 DEF Typed
<1>4. \A d \in Clients : d # c => conn'[d] = conn[d] /\ ans'[d] = ans[d]
  BY <1>1, <1>2 DEF Typed
<1>5. Permits' /\ Queue'
  <2>1. \A d \in Clients : conn[d] = "queued" => conn'[d] = "queued"
    BY <1>1, <1>4
  <2> QED
    BY <1>1, <1>2, <2>1, PermitsKept, QueueKept DEF IInv, Typed
<1>6. ClientInv(c)'
  <2>1. ConnInv(c)' /\ BodyInv(c)' /\ ProdInv(c)'
    BY <1>1, <1>3 DEF IInv, ClientInv, ConnInv, BodyInv, ProdInv, Fresh
  <2>2. Flow(c)' /\ AnsInv(c)'
    BY <1>1, <1>3 DEF IInv, ClientInv, ConnInv, Flow, AnsInv, Fresh
  <2> QED
    BY <2>1, <2>2 DEF ClientInv
<1>7. ASSUME NEW d \in Clients, d # c
      PROVE  ClientInv(d)'
  BY <1>1, <1>4, <1>7, OthersKeep DEF IInv
<1> QED
  BY <1>2, <1>5, <1>6, <1>7 DEF IInv

\* A download takes a slot that is free, or is refused.
LEMMA RespondDownloadInv ==
  ASSUME IInv, NEW c \in Clients, RespondDownload(c)
  PROVE  IInv'
<1>1. /\ conn[c] = "download"
      /\ UNCHANGED <<stopped, waiting, read, leaving, chan, made, ended,
                     first, handed, due, asked, armed, got>>
  BY DEF RespondDownload, body
<1>2. Typed
  BY DEF IInv
<1>3. prod[c] = "none" /\ chan[c] = <<>> /\ made[c] = 0 /\ got[c] = 0 /\ ended[c] = "none"
      /\ ans[c] = "none" /\ ~first[c] /\ ~handed[c] /\ ~due[c] /\ ~asked[c] /\ ~armed[c]
  BY <1>1 DEF IInv, ClientInv, ConnInv, BodyInv, AnsInv, Fresh
<1>4. CASE /\ Taken < Slots /\ prod' = [prod EXCEPT ![c] = "run"]
           /\ conn' = [conn EXCEPT ![c] = "opening"] /\ ans' = ans
  <2>1. Typed'
    BY <1>1, <1>2, <1>4 DEF Typed, ConnSteps
  <2>2. conn'[c] = "opening" /\ prod'[c] = "run" /\ ans'[c] = "none"
    BY <1>2, <1>3, <1>4 DEF Typed
  <2>3. \A d \in Clients : d # c => conn'[d] = conn[d] /\ prod'[d] = prod[d]
    BY <1>2, <1>4 DEF Typed
  <2>4. Queue'
    <3>1. \A d \in Clients : conn[d] = "queued" => conn'[d] = "queued"
      BY <1>1, <2>3
    <3> QED
      BY <1>1, <1>2, <3>1, QueueKept DEF IInv, Typed
  <2>5. Permits'
    <3> DEFINE P == {d \in Clients : prod[d] # "none"}
               Q == {d \in Clients : prod'[d] # "none"}
    <3>1. Q = P \cup {c}
      BY <2>2, <2>3
    <3>2. IsFiniteSet(P) /\ Cardinality(P) \in Nat /\ Cardinality(Q) \in Nat
      <4>1. P \subseteq Clients /\ Q \subseteq Clients
        OBVIOUS
      <4> HIDE DEF P, Q
      <4> QED
        BY <4>1, ClientSets
    <3>3. /\ Taken = Cardinality(P) + leaving /\ Taken' = Cardinality(Q) + leaving'
          /\ Slots' = Slots /\ Reading' = Reading
      BY <1>1 DEF Taken, Slots, Reading
    <3> HIDE DEF P, Q
    <3>4. Cardinality(Q) <= Cardinality(P) + 1
      BY <3>1, <3>2, FS_AddElement
    <3> QED
      BY <1>1, <1>2, <1>4, <3>2, <3>3, <3>4, SlotsNat DEF IInv, Permits, Typed
  <2>6. ClientInv(c)'
    <3>1. ConnInv(c)' /\ BodyInv(c)' /\ ProdInv(c)'
      BY <1>1, <1>3, <2>2, WebServerAssumption DEF ConnInv, BodyInv, ProdInv, Fresh
    <3>2. Flow(c)'
      BY <1>1, <1>3, <2>2 DEF Flow, Said, Carried
    <3>3. AnsInv(c)'
      BY <2>2 DEF AnsInv
    <3> QED
      BY <3>1, <3>2, <3>3 DEF ClientInv
  <2>7. ASSUME NEW d \in Clients, d # c
        PROVE  ClientInv(d)'
    BY <1>1, <1>4, <2>3, <2>7, OthersKeep DEF IInv
  <2> QED
    BY <2>1, <2>4, <2>5, <2>6, <2>7 DEF IInv
<1>5. CASE /\ ans' = [ans EXCEPT ![c] = "busy"] /\ conn' = [conn EXCEPT ![c] = "idle"]
           /\ prod' = prod
  <2>1. Typed'
    BY <1>1, <1>2, <1>5 DEF Typed, ConnSteps
  <2>2. conn'[c] = "idle" /\ ans'[c] = "busy"
    BY <1>2, <1>5 DEF Typed
  <2>3. \A d \in Clients : d # c => conn'[d] = conn[d] /\ ans'[d] = ans[d]
    BY <1>2, <1>5 DEF Typed
  <2>4. Permits' /\ Queue'
    <3>1. \A d \in Clients : conn[d] = "queued" => conn'[d] = "queued"
      BY <1>1, <2>3
    <3> QED
      BY <1>1, <1>2, <1>5, <3>1, PermitsKept, QueueKept DEF IInv, Typed
  <2>5. ClientInv(c)'
    <3>1. ConnInv(c)' /\ BodyInv(c)' /\ ProdInv(c)'
      BY <1>1, <1>3, <1>5, <2>2, WebServerAssumption DEF ConnInv, BodyInv, ProdInv, Fresh
    <3>2. Flow(c)' /\ AnsInv(c)'
      BY <2>2 DEF Flow, AnsInv
    <3> QED
      BY <3>1, <3>2 DEF ClientInv
  <2>6. ASSUME NEW d \in Clients, d # c
        PROVE  ClientInv(d)'
    BY <1>1, <1>5, <2>3, <2>6, OthersKeep DEF IInv
  <2> QED
    BY <2>1, <2>4, <2>5, <2>6 DEF IInv
<1> QED
  BY <1>4, <1>5 DEF RespondDownload, Goto, Answer

\* The producer has a chunk to send, or ends.
LEMMA ProduceInv ==
  ASSUME IInv, NEW c \in Clients, NEW how \in {"send", "done", "fail"}, Produce(c, how)
  PROVE  IInv'
<1>1. /\ prod[c] = "run" /\ (how = "send" => made[c] < Chunks)
      /\ prod' = [prod EXCEPT ![c] = how]
      /\ ended' = [ended EXCEPT ![c] = IF how = "send" THEN ended[c] ELSE how]
      /\ UNCHANGED <<stopped, conn, waiting, read, leaving, chan, made,
                     first, handed, due, asked, armed, ans, got>>
  BY DEF Produce, link, body, seen
<1>2. Typed /\ Typed'
  BY <1>1 DEF IInv, Typed
<1>3. prod'[c] = how /\ ended'[c] = IF how = "send" THEN ended[c] ELSE how
  BY <1>1, <1>2 DEF Typed
<1>4. \A d \in Clients : d # c => prod'[d] = prod[d] /\ ended'[d] = ended[d]
  BY <1>1, <1>2 DEF Typed
<1>5. Permits' /\ Queue'
  <2>1. \A d \in Clients : prod'[d] # "none" => prod[d] # "none"
    BY <1>1, <1>4
  <2> QED
    BY <1>1, <1>2, <2>1, PermitsKept, QueueKept DEF IInv, Typed
<1>6. ClientInv(c)'
  <2>1. ConnInv(c)' /\ BodyInv(c)' /\ ProdInv(c)'
    BY <1>1, <1>3 DEF IInv, ClientInv, ConnInv, BodyInv, ProdInv, Fresh
  <2>2. Flow(c)'
    <3>1. prod'[c] # "none" /\ prod[c] # "none" /\ Said(c)' = Said(c)
          /\ Carried(c)' = Carried(c)
      BY <1>1, <1>3 DEF Said, Carried
    <3> QED
      BY <1>1, <3>1 DEF IInv, ClientInv, Flow
  <2>3. AnsInv(c)'
    BY <1>1, <1>3 DEF IInv, ClientInv, AnsInv
  <2> QED
    BY <2>1, <2>2, <2>3 DEF ClientInv
<1>7. ASSUME NEW d \in Clients, d # c
      PROVE  ClientInv(d)'
  BY <1>1, <1>4, <1>7, OthersKeep DEF IInv
<1> QED
  BY <1>2, <1>5, <1>6, <1>7 DEF IInv

\* A slot is given back.
LEMMA DropSlotInv == IInv /\ DropSlot => IInv'
<1> SUFFICES ASSUME IInv, DropSlot PROVE IInv'
  OBVIOUS
<1>1. leaving > 0 /\ leaving' = leaving - 1
      /\ UNCHANGED <<stopped, conn, waiting, read, prod, chan, made, ended,
                     first, handed, due, asked, armed, ans, got>>
  BY DEF DropSlot, link, body, seen
<1>2. Typed /\ Typed'
  BY <1>1 DEF IInv, Typed
<1>3. Queue'
  BY <1>1, <1>2, QueueKept DEF IInv, Typed
<1>4. Permits'
  <2> DEFINE P == {d \in Clients : prod[d] # "none"}
  <2>1. Cardinality(P) \in Nat
    BY ClientSets
  <2>2. Taken = Cardinality(P) + leaving /\ Taken' = Cardinality(P) + leaving'
        /\ Slots' = Slots /\ Reading' = Reading
    BY <1>1 DEF Taken, Slots, Reading
  <2> HIDE DEF P
  <2> QED
    BY <1>1, <1>2, <2>1, <2>2, SlotsNat DEF IInv, Permits, Typed
<1>5. ASSUME NEW d \in Clients
      PROVE  ClientInv(d)'
  BY <1>1, OthersKeep DEF IInv
<1> QED
  BY <1>2, <1>3, <1>4, <1>5 DEF IInv

\* A channel of chunks that gets one more.
LEMMA MoreData ==
  ASSUME NEW c \in Clients, Len(chan[c]) \in Nat,
         Len(chan'[c]) = Len(chan[c]) + 1,
         \A i \in 1 .. Len(chan[c]) : chan'[c][i] = chan[c][i],
         \A i \in 1 .. Len(chan[c]) : chan[c][i].kind = "data",
         chan'[c][Len(chan[c]) + 1].kind = "data"
  PROVE  \A i \in 1 .. Len(chan'[c]) : chan'[c][i].kind = "data"
<1> DEFINE n == Len(chan[c])
           m == Len(chan'[c])
<1>1. n \in Nat /\ m = n + 1 /\ chan'[c][n + 1].kind = "data"
  OBVIOUS
<1>2. \A i \in 1 .. n : chan'[c][i].kind = "data"
  OBVIOUS
<1> HIDE DEF n, m
<1>3. \A i \in 1 .. m : i \in 1 .. n \/ i = n + 1
  BY <1>1
<1>4. \A i \in 1 .. m : chan'[c][i].kind = "data"
  BY <1>1, <1>2, <1>3
<1> QED
  BY <1>4 DEF m

\* A chunk is sent to a receiver with room, or the producer finds it gone.
LEMMA SendBufferedInv ==
  ASSUME IInv, NEW c \in Clients, SendBuffered(c)
  PROVE  IInv'
<1>1. /\ prod[c] = "send"
      /\ UNCHANGED <<stopped, conn, waiting, read, leaving,
                     first, handed, due, asked, armed, ans, got>>
  BY DEF SendBuffered, link, body, seen
<1>2. Typed
  BY DEF IInv
<1>3. made[c] < Chunks /\ made[c] \in Nat /\ chan[c] \in Seq(Msgs)
  BY <1>1, <1>2, WebServerAssumption DEF IInv, ClientInv, ProdInv, Typed
<1>4. CASE /\ Receiving(c) /\ Room(c) /\ made' = [made EXCEPT ![c] = made[c] + 1]
           /\ chan' = [chan EXCEPT ![c] = Append(chan[c], Data(made[c] + 1))]
           /\ prod' = [prod EXCEPT ![c] = "run"] /\ ended' = ended
  <2>1. Data(made[c] + 1) \in Msgs /\ Data(made[c] + 1).kind = "data"
    BY <1>3 DEF Data, Msgs
  <2>2. Typed'
    <3>1. made[c] + 1 \in 0 .. Chunks /\ Append(chan[c], Data(made[c] + 1)) \in Seq(Msgs)
      BY <1>3, <2>1, WebServerAssumption
    <3> HIDE DEF Msgs
    <3> QED
      BY <1>1, <1>2, <1>4, <3>1 DEF Typed
  <2>3. /\ made'[c] = made[c] + 1 /\ chan'[c] = Append(chan[c], Data(made[c] + 1))
        /\ prod'[c] = "run"
    BY <1>2, <1>4 DEF Typed
  <2>4. \A d \in Clients : d # c => prod'[d] = prod[d] /\ made'[d] = made[d] /\ chan'[d] = chan[d]
    BY <1>2, <1>4 DEF Typed
  <2>5. Permits' /\ Queue'
    <3>1. \A d \in Clients : prod'[d] # "none" => prod[d] # "none"
      BY <1>1, <2>4
    <3> QED
      BY <1>1, <1>2, <3>1, PermitsKept, QueueKept DEF IInv, Typed
  <2>6. /\ Len(chan'[c]) = Len(chan[c]) + 1 /\ Len(chan[c]) \in Nat /\ Len(chan[c]) < InFlight
        /\ \A i \in 1 .. Len(chan[c]) : chan'[c][i] = chan[c][i]
        /\ chan'[c][Len(chan[c]) + 1].kind = "data"
    BY <1>3, <1>4, <2>1, <2>3 DEF Room
  <2>7. ClientInv(c)'
    <3>1. ConnInv(c)' /\ BodyInv(c)' /\ ProdInv(c)'
      <4>1. got'[c] <= made'[c]
        BY <1>1, <1>2, <1>3, <2>3, FlowNumbers DEF IInv, ClientInv, ConnInv
      <4> QED
        BY <1>1, <1>4, <2>3, <2>6, <4>1, WebServerAssumption
           DEF IInv, ClientInv, ConnInv, BodyInv, ProdInv, Fresh, Receiving
    <3>2. Flow(c)'
      <4>1. Said(c) = 0 /\ Said(c)' = 0
        BY <1>1, <2>3 DEF Said
      <4>2. /\ made[c] = got[c] + Carried(c) + Len(chan[c])
            /\ \A i \in 1 .. Len(chan[c]) : chan[c][i].kind = "data"
            /\ conn[c] = "opening" => got[c] = 0
        BY <1>2, <1>4, <2>6, <4>1 DEF IInv, ClientInv, Flow, Receiving, Typed
      <4>3. made'[c] = got'[c] + Carried(c)' + Len(chan'[c])
        <5>1. Carried(c)' = Carried(c) /\ got'[c] = got[c]
          BY <1>1 DEF Carried
        <5>2. /\ Carried(c) \in Nat
              /\ got[c] \in Nat /\ made[c] \in Nat /\ Len(chan[c]) \in Nat
          BY <1>2, FlowNumbers
        <5> DEFINE n == Len(chan[c])
                   m == Len(chan'[c])
        <5>3. /\ made'[c] = made[c] + 1 /\ m = n + 1 /\ n \in Nat
              /\ made[c] = got[c] + Carried(c) + n
          BY <2>3, <2>6, <4>2
        <5> HIDE DEF n, m
        <5>4. made'[c] = got'[c] + Carried(c)' + m
          BY <5>1, <5>2, <5>3
        <5> QED
          BY <5>4 DEF m
      <4>4. \A i \in 1 .. Len(chan'[c]) : chan'[c][i].kind = "data"
        BY <2>6, <4>2, MoreData
      <4> QED
        BY <1>1, <1>2, <2>3, <2>6, <4>1, <4>2, <4>3, <4>4 DEF Flow, Typed
    <3>3. AnsInv(c)'
      BY <1>1, <1>4, <2>3 DEF IInv, ClientInv, AnsInv, Receiving
    <3> QED
      BY <3>1, <3>2, <3>3 DEF ClientInv
  <2>8. ASSUME NEW d \in Clients, d # c
        PROVE  ClientInv(d)'
    BY <1>1, <1>4, <2>4, <2>8, OthersKeep DEF IInv
  <2> QED
    BY <2>2, <2>5, <2>7, <2>8 DEF IInv
<1>5. CASE /\ ~Receiving(c) /\ prod' = [prod EXCEPT ![c] = "fail"]
           /\ ended' = [ended EXCEPT ![c] = "fail"] /\ made' = made /\ chan' = chan
  <2>1. Typed'
    BY <1>1, <1>2, <1>5 DEF Typed
  <2>2. prod'[c] = "fail" /\ ended'[c] = "fail"
    BY <1>2, <1>5 DEF Typed
  <2>3. \A d \in Clients : d # c => prod'[d] = prod[d] /\ ended'[d] = ended[d]
    BY <1>2, <1>5 DEF Typed
  <2>4. Permits' /\ Queue'
    <3>1. \A d \in Clients : prod'[d] # "none" => prod[d] # "none"
      BY <1>1, <2>3
    <3> QED
      BY <1>1, <1>2, <3>1, PermitsKept, QueueKept DEF IInv, Typed
  <2>5. ClientInv(c)'
    <3>1. ConnInv(c)' /\ BodyInv(c)' /\ ProdInv(c)'
      BY <1>1, <1>5, <2>2 DEF IInv, ClientInv, ConnInv, BodyInv, ProdInv, Fresh
    <3>2. Flow(c)' /\ AnsInv(c)'
      BY <1>1, <1>5, <2>2 DEF IInv, ClientInv, Flow, AnsInv, Receiving
    <3> QED
      BY <3>1, <3>2 DEF ClientInv
  <2>6. ASSUME NEW d \in Clients, d # c
        PROVE  ClientInv(d)'
    BY <1>1, <1>5, <2>3, <2>6, OthersKeep DEF IInv
  <2> QED
    BY <2>1, <2>4, <2>5, <2>6 DEF IInv
<1> QED
  BY <1>4, <1>5 DEF SendBuffered

\* The last word of a producer goes behind its chunks, and its slot is still held.
LEMMA ProduceSaysInv ==
  ASSUME IInv, NEW c \in Clients, ProduceSays(c)
  PROVE  IInv'
<1> DEFINE word == IF prod[c] = "done" THEN DoneMsg ELSE FailMsg
           left == IF Receiving(c) THEN Append(chan[c], word) ELSE chan[c]
<1>1. /\ prod[c] \in {"done", "fail"} /\ (Receiving(c) => Room(c))
      /\ chan' = [chan EXCEPT ![c] = left]
      /\ prod' = [prod EXCEPT ![c] = "none"]
      /\ leaving' = leaving + 1
      /\ UNCHANGED <<stopped, conn, waiting, read, made, ended,
                     first, handed, due, asked, armed, ans, got>>
  BY DEF ProduceSays, link, body, seen
<1>2. Typed
  BY DEF IInv
<1>3. word \in Msgs /\ word.kind = prod[c] /\ prod[c] = ended[c]
  BY <1>1 DEF DoneMsg, FailMsg, Msgs, IInv, ClientInv, ProdInv
<1>4. chan[c] \in Seq(Msgs) /\ left \in Seq(Msgs)
  BY <1>2, <1>3 DEF Typed
<1> HIDE DEF left
<1>5. Typed'
  BY <1>1, <1>2, <1>4 DEF Typed
<1>6. chan'[c] = left /\ prod'[c] = "none"
  BY <1>1, <1>2 DEF Typed
<1>7. \A d \in Clients : d # c => chan'[d] = chan[d] /\ prod'[d] = prod[d]
  BY <1>1, <1>2 DEF Typed
<1>8. Queue'
  BY <1>1, <1>2, QueueKept DEF IInv, Typed
<1>9. Permits'
  <2> DEFINE P == {d \in Clients : prod[d] # "none"}
             Q == {d \in Clients : prod'[d] # "none"}
  <2>1. Q = P \ {c} /\ c \in P
    BY <1>1, <1>6, <1>7
  <2>2. IsFiniteSet(P) /\ Cardinality(P) \in Nat
    <3>1. P \subseteq Clients
      OBVIOUS
    <3> HIDE DEF P
    <3> QED
      BY <3>1, ClientSets
  <2>3. /\ Taken = Cardinality(P) + leaving /\ Taken' = Cardinality(Q) + leaving'
        /\ Slots' = Slots /\ Reading' = Reading
    BY <1>1 DEF Taken, Slots, Reading
  <2> HIDE DEF P, Q
  <2>4. Cardinality(Q) = Cardinality(P) - 1
    BY <2>1, <2>2, FS_RemoveElement
  <2> QED
    BY <1>1, <1>2, <2>2, <2>3, <2>4, SlotsNat DEF IInv, Permits, Typed
<1>10. ClientInv(c)'
  <2>1. CASE Receiving(c)
    <3>1. left = Append(chan[c], word)
      BY <2>1 DEF left
    <3> HIDE DEF word
    <3>2. /\ Len(chan'[c]) = Len(chan[c]) + 1 /\ Len(chan[c]) \in Nat /\ Len(chan[c]) < InFlight
          /\ \A i \in 1 .. Len(chan[c]) : chan'[c][i] = chan[c][i]
          /\ chan'[c][Len(chan[c]) + 1] = word
      BY <1>1, <1>3, <1>4, <1>6, <2>1, <3>1 DEF Room
    <3>3. ConnInv(c)' /\ BodyInv(c)' /\ ProdInv(c)'
      BY <1>1, <1>6, <2>1, <3>2, WebServerAssumption
         DEF IInv, ClientInv, ConnInv, BodyInv, ProdInv, Fresh, Receiving
    <3>4. Flow(c)'
      <4>1. Said(c) = 0 /\ Said(c)' = 1
        BY <1>1, <1>6 DEF Said
      <4>2. /\ made[c] = got[c] + Carried(c) + Len(chan[c])
            /\ \A i \in 1 .. Len(chan[c]) : chan[c][i].kind = "data"
            /\ conn[c] = "opening" => got[c] = 0
        BY <1>2, <2>1, <3>2, <4>1 DEF IInv, ClientInv, Flow, Receiving, Typed
      <4>3. /\ made'[c] = got'[c] + Carried(c)' + Len(chan'[c]) - 1
            /\ \A i \in 1 .. Len(chan'[c]) - 1 : chan'[c][i].kind = "data"
        <5>1. Carried(c)' = Carried(c) /\ got'[c] = got[c] /\ made'[c] = made[c]
          BY <1>1 DEF Carried
        <5>2. Carried(c) \in Nat /\ got[c] \in Nat /\ made[c] \in Nat
          BY <1>2, FlowNumbers
        <5> DEFINE n == Len(chan[c])
                   m == Len(chan'[c])
        <5>3. n \in Nat /\ m = n + 1 /\ made[c] = got[c] + Carried(c) + n
          BY <3>2, <4>2
        <5>4. \A i \in 1 .. n : chan'[c][i].kind = "data"
          BY <3>2, <4>2
        <5> HIDE DEF n, m
        <5>5. m - 1 = n
          BY <5>3
        <5>6. made'[c] = got'[c] + Carried(c)' + m - 1
          BY <5>1, <5>2, <5>3
        <5>7. \A i \in 1 .. m - 1 : chan'[c][i].kind = "data"
          BY <5>4, <5>5
        <5> QED
          BY <5>6, <5>7 DEF m
      <4>4. /\ Len(chan'[c]) > 0 /\ chan'[c][Len(chan'[c])].kind = ended'[c]
            /\ ended'[c] # "none"
        BY <1>1, <1>3, <3>2
      <4> QED
        BY <1>1, <4>1, <4>2, <4>3, <4>4 DEF Flow
    <3>5. AnsInv(c)'
      BY <1>1, <1>6, <2>1 DEF IInv, ClientInv, AnsInv, Receiving
    <3> QED
      BY <3>3, <3>4, <3>5 DEF ClientInv
  <2>2. CASE ~Receiving(c)
    <3>1. left = chan[c]
      BY <2>2 DEF left
    <3>2. ConnInv(c)' /\ BodyInv(c)' /\ ProdInv(c)'
      BY <1>1, <1>6, <3>1 DEF IInv, ClientInv, ConnInv, BodyInv, ProdInv, Fresh
    <3>3. Flow(c)' /\ AnsInv(c)'
      BY <1>1, <1>6, <2>2 DEF IInv, ClientInv, Flow, AnsInv, Receiving
    <3> QED
      BY <3>2, <3>3 DEF ClientInv
  <2> QED
    BY <2>1, <2>2
<1>11. ASSUME NEW d \in Clients, d # c
       PROVE  ClientInv(d)'
  BY <1>1, <1>7, <1>11, OthersKeep DEF IInv
<1> QED
  BY <1>5, <1>8, <1>9, <1>10, <1>11 DEF IInv

\* The first message opens the body, or is the whole answer.
LEMMA FirstInv ==
  ASSUME IInv, NEW c \in Clients, First(c)
  PROVE  IInv'
<1>1. /\ conn[c] = "opening" /\ chan[c] # <<>>
      /\ UNCHANGED <<stopped, waiting, read, prod, leaving, made, ended, handed, asked, armed, got>>
  BY DEF First
<1>2. Typed
  BY DEF IInv
<1>3. /\ chan[c] \in Seq(Msgs) /\ Len(chan[c]) \in Nat /\ Len(chan[c]) > 0
      /\ Head(chan[c]) = chan[c][1]
      /\ Tail(chan[c]) \in Seq(Msgs) /\ Len(Tail(chan[c])) = Len(chan[c]) - 1
      /\ \A i \in 1 .. Len(chan[c]) - 1 : Tail(chan[c])[i] = chan[c][i + 1]
  BY <1>1, <1>2, FlowNumbers, HeadTailProperties
<1>4. ans[c] = "none" /\ ~first[c] /\ ~handed[c] /\ ~due[c] /\ ~asked[c] /\ ~armed[c] /\ got[c] = 0
      /\ Len(chan[c]) <= InFlight
  BY <1>1 DEF IInv, ClientInv, ConnInv, BodyInv, AnsInv, Flow
<1>5. CASE /\ Head(chan[c]).kind = "data" /\ conn' = [conn EXCEPT ![c] = "body"]
           /\ chan' = [chan EXCEPT ![c] = Tail(chan[c])]
           /\ first' = [first EXCEPT ![c] = TRUE] /\ due' = [due EXCEPT ![c] = TRUE]
           /\ ans' = ans
  <2>1. Typed'
    <3> HIDE DEF Msgs
    <3> QED
      BY <1>1, <1>2, <1>3, <1>5 DEF Typed, ConnSteps
  <2>2. conn'[c] = "body" /\ chan'[c] = Tail(chan[c]) /\ first'[c] /\ due'[c]
    BY <1>2, <1>5 DEF Typed
  <2>3. \A d \in Clients : d # c => /\ conn'[d] = conn[d] /\ chan'[d] = chan[d]
                                    /\ first'[d] = first[d] /\ due'[d] = due[d]
    BY <1>2, <1>5 DEF Typed
  <2>4. Permits' /\ Queue'
    <3>1. \A d \in Clients : conn[d] = "queued" => conn'[d] = "queued"
      BY <1>1, <2>3
    <3> QED
      BY <1>1, <1>2, <3>1, PermitsKept, QueueKept DEF IInv, Typed
  <2>5. ClientInv(c)'
    <3>1. ConnInv(c)' /\ BodyInv(c)' /\ ProdInv(c)'
      BY <1>1, <1>3, <1>4, <2>2, WebServerAssumption
         DEF IInv, ClientInv, ConnInv, BodyInv, ProdInv, Fresh
    <3>2. Flow(c)'
      <4>1. Carried(c)' = 1 /\ Carried(c) = 0 /\ Said(c)' = Said(c)
        BY <1>1, <1>4, <2>2 DEF Carried, Said
      <4>2. /\ made[c] = Len(chan[c]) - Said(c)
            /\ \A i \in 1 .. Len(chan[c]) - Said(c) : chan[c][i].kind = "data"
            /\ prod[c] = "none" => chan[c][Len(chan[c])].kind = ended[c] /\ ended[c] # "none"
        BY <1>1, <1>2, <1>3, <1>4, <4>1, FlowNumbers DEF IInv, ClientInv, Flow
      <4>3. prod[c] = "none" => Len(chan[c]) > 1
        <5>1. prod[c] = "none" => ended[c] \in {"done", "fail"}
          BY <1>2, <4>2 DEF Typed
        <5> QED
          BY <1>3, <1>5, <4>2, <5>1
      <4>4. \A i \in 1 .. Len(chan'[c]) - Said(c) : chan'[c][i].kind = "data"
        BY <1>2, <1>3, <2>2, <4>2, FlowNumbers
      <4>5. made'[c] = got'[c] + Carried(c)' + Len(chan'[c]) - Said(c)
        BY <1>1, <1>2, <1>3, <1>4, <2>2, <4>1, <4>2, FlowNumbers
      <4>6. prod'[c] = "none" => /\ Len(chan'[c]) > 0
                                 /\ chan'[c][Len(chan'[c])].kind = ended'[c]
                                 /\ ended'[c] # "none"
        BY <1>1, <1>3, <2>2, <4>2, <4>3
      <4> QED
        BY <1>4, <1>1, <2>2, <4>1, <4>4, <4>5, <4>6 DEF Flow
    <3>3. AnsInv(c)'
      BY <1>1, <1>4, <1>5, <2>2 DEF AnsInv
    <3> QED
      BY <3>1, <3>2, <3>3 DEF ClientInv
  <2>6. ASSUME NEW d \in Clients, d # c
        PROVE  ClientInv(d)'
    BY <1>1, <1>5, <2>3, <2>6, OthersKeep DEF IInv
  <2> QED
    BY <2>1, <2>4, <2>5, <2>6 DEF IInv
<1>6. CASE /\ Head(chan[c]).kind # "data" /\ conn' = [conn EXCEPT ![c] = "idle"]
           /\ ans' = [ans EXCEPT ![c] = IF Head(chan[c]).kind = "done" THEN "whole" ELSE "error"]
           /\ chan' = [chan EXCEPT ![c] = <<>>] /\ first' = first /\ due' = due
  <2>1. Typed'
    BY <1>1, <1>2, <1>6 DEF Typed, ConnSteps
  <2>2. /\ conn'[c] = "idle" /\ chan'[c] = <<>>
        /\ ans'[c] = IF Head(chan[c]).kind = "done" THEN "whole" ELSE "error"
    BY <1>2, <1>6 DEF Typed
  <2>3. \A d \in Clients : d # c => conn'[d] = conn[d] /\ chan'[d] = chan[d] /\ ans'[d] = ans[d]
    BY <1>2, <1>6 DEF Typed
  <2>4. Permits' /\ Queue'
    <3>1. \A d \in Clients : conn[d] = "queued" => conn'[d] = "queued"
      BY <1>1, <2>3
    <3> QED
      BY <1>1, <1>2, <3>1, PermitsKept, QueueKept DEF IInv, Typed
  <2>5. prod[c] = "none" /\ Len(chan[c]) = 1 /\ made[c] = 0 /\ ended[c] = Head(chan[c]).kind
    <3>1. Carried(c) = 0
      BY <1>4 DEF Carried
    <3>2. /\ made[c] = Len(chan[c]) - Said(c)
          /\ \A i \in 1 .. Len(chan[c]) - Said(c) : chan[c][i].kind = "data"
          /\ prod[c] = "none" => chan[c][Len(chan[c])].kind = ended[c]
      BY <1>1, <1>2, <1>3, <1>4, <3>1, FlowNumbers DEF IInv, ClientInv, Flow
    <3>3. Said(c) = 1 /\ Len(chan[c]) = 1
      <4>1. Said(c) \in 0 .. 1 /\ Len(chan[c]) \in Nat /\ Len(chan[c]) > 0
        BY <1>2, <1>3, FlowNumbers
      <4>2. ~(1 <= Len(chan[c]) - Said(c))
        <5>1. chan[c][1].kind # "data"
          BY <1>3, <1>6
        <5>2. 1 \in 1 .. Len(chan[c]) - Said(c) => chan[c][1].kind = "data"
          BY <3>2
        <5> QED
          BY <4>1, <5>1, <5>2
      <4> DEFINE n == Len(chan[c])
      <4>3. n \in Nat /\ n > 0 /\ Said(c) \in 0 .. 1 /\ ~(1 <= n - Said(c))
        BY <4>1, <4>2
      <4> HIDE DEF n
      <4>4. n = 1 /\ Said(c) = 1
        BY <4>3
      <4> QED
        BY <4>4 DEF n
    <3>4. prod[c] = "none"
      BY <3>3 DEF Said
    <3> QED
      BY <1>3, <3>2, <3>3, <3>4
  <2>6. ClientInv(c)'
    <3>1. ConnInv(c)' /\ BodyInv(c)' /\ ProdInv(c)'
      BY <1>1, <1>4, <1>6, <2>2, <2>5, WebServerAssumption
         DEF IInv, ClientInv, ConnInv, BodyInv, ProdInv, Fresh
    <3>2. Flow(c)' /\ AnsInv(c)'
      BY <1>1, <1>4, <2>2, <2>5 DEF Flow, AnsInv
    <3> QED
      BY <3>1, <3>2 DEF ClientInv
  <2>7. ASSUME NEW d \in Clients, d # c
        PROVE  ClientInv(d)'
    BY <1>1, <1>6, <2>3, <2>7, OthersKeep DEF IInv
  <2> QED
    BY <2>1, <2>4, <2>6, <2>7 DEF IInv
<1> QED
  BY <1>5, <1>6 DEF First, Goto, Answer

\* A chunk, the first or the next of the channel, is handed over.
LEMMA HandOverInv ==
  ASSUME IInv, NEW c \in Clients, HandOver(c)
  PROVE  IInv'
<1>1. /\ conn[c] = "body" /\ due[c]
      /\ first' = [first EXCEPT ![c] = FALSE]
      /\ armed' = [armed EXCEPT ![c] = TRUE]
      /\ handed' = [handed EXCEPT ![c] = TRUE]
      /\ due' = [due EXCEPT ![c] = FALSE]
      /\ asked' = [asked EXCEPT ![c] = FALSE]
      /\ UNCHANGED <<stopped, conn, waiting, read, prod, leaving, made, ended, ans, got>>
  BY DEF HandOver, Asks, Watch, link, seen
<1>2. Typed
  BY DEF IInv
<1>3. ~handed[c] /\ chan[c] \in Seq(Msgs) /\ Len(chan[c]) \in Nat
  BY <1>1, <1>2, FlowNumbers DEF IInv, ClientInv, BodyInv
<1>4. \/ first[c] /\ chan' = chan
      \/ /\ ~first[c] /\ chan[c] # <<>> /\ Head(chan[c]).kind = "data"
         /\ chan' = [chan EXCEPT ![c] = Tail(chan[c])]
  BY DEF HandOver
<1>5. Typed'
  <2>1. chan[c] # <<>> => Tail(chan[c]) \in Seq(Msgs)
    BY <1>3, HeadTailProperties
  <2> HIDE DEF Msgs
  <2>2. chan' \in [Clients -> Seq(Msgs)]
    BY <1>2, <1>4, <2>1 DEF Typed
  <2> QED
    BY <1>1, <1>2, <2>2 DEF Typed
<1>6. ~first'[c] /\ armed'[c] /\ handed'[c] /\ ~due'[c] /\ ~asked'[c]
  BY <1>1, <1>2 DEF Typed
<1>7. \A d \in Clients : d # c => /\ first'[d] = first[d] /\ armed'[d] = armed[d]
                                  /\ handed'[d] = handed[d] /\ due'[d] = due[d]
                                  /\ asked'[d] = asked[d] /\ chan'[d] = chan[d]
  BY <1>1, <1>2, <1>4 DEF Typed
<1>8. Permits' /\ Queue'
  BY <1>1, <1>2, PermitsKept, QueueKept DEF IInv, Typed
<1>9. Carried(c)' = 1 /\ Said(c)' = Said(c) /\ Said(c) \in 0 .. 1
  BY <1>1, <1>6 DEF Carried, Said
<1>10. BodyInv(c)' /\ ProdInv(c)' /\ AnsInv(c)'
  BY <1>1, <1>6 DEF IInv, ClientInv, BodyInv, ProdInv, AnsInv
<1>11. ConnInv(c)' /\ Flow(c)'
  <2>1. CASE first[c] /\ chan' = chan
    <3>1. Carried(c) = 1
      BY <1>3, <2>1 DEF Carried
    <3> QED
      BY <1>1, <1>9, <2>1, <3>1 DEF IInv, ClientInv, ConnInv, Flow, Fresh
  <2>2. CASE /\ ~first[c] /\ chan[c] # <<>> /\ Head(chan[c]).kind = "data"
             /\ chan' = [chan EXCEPT ![c] = Tail(chan[c])]
    <3> DEFINE n == Len(chan[c])
               m == Len(chan'[c])
    <3>1. chan'[c] = Tail(chan[c])
      BY <1>2, <2>2 DEF Typed
    <3>2. /\ n \in Nat /\ n > 0 /\ m = n - 1 /\ chan[c][1].kind = "data"
          /\ \A i \in 1 .. n - 1 : chan'[c][i] = chan[c][i + 1]
      <4>1. Head(chan[c]) = chan[c][1] /\ Len(chan[c]) > 0
        BY <1>3, <2>2
      <4>2. /\ Len(Tail(chan[c])) = Len(chan[c]) - 1
            /\ \A i \in 1 .. Len(chan[c]) - 1 : Tail(chan[c])[i] = chan[c][i + 1]
        BY <1>3, <2>2, HeadTailProperties
      <4> QED
        BY <1>3, <2>2, <3>1, <4>1, <4>2
    <3>3. n <= InFlight /\ InFlight \in Nat
      BY WebServerAssumption DEF IInv, ClientInv, ConnInv
    <3>4. Carried(c) = 0
      BY <1>3, <2>2 DEF Carried
    <3>5. /\ made[c] = got[c] + 0 + n - Said(c)
          /\ \A i \in 1 .. n - Said(c) : chan[c][i].kind = "data"
          /\ prod[c] = "none" => chan[c][n].kind = ended[c] /\ ended[c] # "none"
          /\ made[c] \in Nat /\ got[c] \in Nat
      BY <1>1, <1>2, <3>4, FlowNumbers DEF IInv, ClientInv, Flow
    <3> HIDE DEF n, m
    <3>6. ConnInv(c)'
      BY <1>1, <3>2, <3>3 DEF IInv, ClientInv, ConnInv, Fresh, m
    <3>7. prod[c] = "none" => n > 1
      <4>1. prod[c] = "none" => ended[c] \in {"done", "fail"}
        BY <1>2, <3>5 DEF Typed
      <4> QED
        BY <3>2, <3>5, <4>1
    <3>8. made'[c] = got'[c] + Carried(c)' + m - Said(c)'
      BY <1>1, <1>9, <3>2, <3>5
    <3>9. \A i \in 1 .. m - Said(c)' : chan'[c][i].kind = "data"
      BY <1>9, <3>2, <3>5
    <3>10. prod'[c] = "none" => m > 0 /\ chan'[c][m].kind = ended'[c] /\ ended'[c] # "none"
      BY <1>1, <3>2, <3>5, <3>7
    <3>11. Flow(c)'
      BY <1>1, <3>8, <3>9, <3>10 DEF Flow, m
    <3> QED
      BY <3>6, <3>11
  <2> QED
    BY <1>4, <2>1, <2>2
<1>12. ASSUME NEW d \in Clients, d # c
       PROVE  ClientInv(d)'
  BY <1>1, <1>7, <1>12, OthersKeep DEF IInv
<1>13. ClientInv(c)'
  BY <1>10, <1>11 DEF ClientInv
<1> QED
  BY <1>5, <1>8, <1>12, <1>13 DEF IInv

\* The body waits for its producer, disarmed.
LEMMA PendingInv ==
  ASSUME IInv, NEW c \in Clients, Pending(c)
  PROVE  IInv'
<1>1. /\ conn[c] = "body" /\ due[c]
      /\ armed' = [armed EXCEPT ![c] = FALSE]
      /\ asked' = [asked EXCEPT ![c] = TRUE]
      /\ UNCHANGED <<stopped, conn, waiting, read, prod, leaving, chan, made, ended,
                     first, handed, due, ans, got>>
  BY DEF Pending, Asks, Watch, link, seen
<1>2. Typed /\ Typed'
  BY <1>1 DEF IInv, Typed
<1>3. ~handed[c] /\ ~armed'[c] /\ asked'[c] /\ \A d \in Clients :
         d # c => asked'[d] = asked[d] /\ armed'[d] = armed[d]
  <2>1. ~handed[c]
    BY <1>1 DEF IInv, ClientInv, BodyInv
  <2> QED
    BY <1>1, <1>2, <2>1 DEF Typed
<1>4. Permits' /\ Queue'
  BY <1>1, <1>2, PermitsKept, QueueKept DEF IInv, Typed
<1>5. ClientInv(c)'
  <2>1. ConnInv(c)' /\ BodyInv(c)' /\ ProdInv(c)' /\ AnsInv(c)'
    BY <1>1, <1>3 DEF IInv, ClientInv, ConnInv, BodyInv, ProdInv, AnsInv
  <2>2. Flow(c)'
    BY <1>1 DEF IInv, ClientInv, Flow, Said, Carried
  <2> QED
    BY <2>1, <2>2 DEF ClientInv
<1>6. ASSUME NEW d \in Clients, d # c
      PROVE  ClientInv(d)'
  BY <1>1, <1>3, <1>6, OthersKeep DEF IInv
<1> QED
  BY <1>2, <1>4, <1>5, <1>6 DEF IInv

\* A body whose last word is Done ends as a whole download; Fail drops the
\* connection.
LEMMA BodyEndsInv ==
  ASSUME IInv, NEW c \in Clients, BodyEnds(c)
  PROVE  IInv'
<1>1. /\ conn[c] = "body" /\ due[c] /\ ~first[c] /\ chan[c] # <<>>
      /\ UNCHANGED <<stopped, read, prod, leaving, made, ended, got>>
  BY DEF BodyEnds, Asks
<1>2. Typed
  BY DEF IInv
<1>3. CASE CutOff({c})
  BY <1>1, <1>2, <1>3, CutOffInv DEF Typed
<1>4. CASE /\ Head(chan[c]).kind = "done" /\ conn' = [conn EXCEPT ![c] = "idle"]
           /\ ans' = [ans EXCEPT ![c] = "whole"] /\ chan' = [chan EXCEPT ![c] = <<>>]
           /\ armed' = [armed EXCEPT ![c] = FALSE] /\ due' = [due EXCEPT ![c] = FALSE]
           /\ asked' = [asked EXCEPT ![c] = FALSE]
           /\ UNCHANGED <<waiting, first, handed>>
  <2>1. Typed'
    BY <1>1, <1>2, <1>4 DEF Typed, ConnSteps
  <2>2. /\ conn'[c] = "idle" /\ ans'[c] = "whole" /\ chan'[c] = <<>>
        /\ ~armed'[c] /\ ~due'[c] /\ ~asked'[c]
    BY <1>2, <1>4 DEF Typed
  <2>3. \A d \in Clients : d # c => /\ conn'[d] = conn[d] /\ ans'[d] = ans[d]
                                    /\ chan'[d] = chan[d] /\ armed'[d] = armed[d]
                                    /\ due'[d] = due[d] /\ asked'[d] = asked[d]
    BY <1>2, <1>4 DEF Typed
  <2>4. Permits' /\ Queue'
    <3>1. \A d \in Clients : conn[d] = "queued" => conn'[d] = "queued"
      BY <1>1, <2>3
    <3> QED
      BY <1>1, <1>2, <1>4, <3>1, PermitsKept, QueueKept DEF IInv, Typed
  <2>5. prod[c] = "none" /\ made[c] = got[c] /\ ended[c] = "done" /\ ~handed[c]
    <3> DEFINE n == Len(chan[c])
    <3>1. ~handed[c] /\ Carried(c) = 0
      BY <1>1 DEF IInv, ClientInv, BodyInv, Carried
    <3>2. n \in Nat /\ n > 0 /\ chan[c][1].kind = "done"
      BY <1>1, <1>2, <1>4, FlowNumbers
    <3>3. /\ made[c] = got[c] + 0 + n - Said(c)
          /\ \A i \in 1 .. n - Said(c) : chan[c][i].kind = "data"
          /\ prod[c] = "none" => chan[c][n].kind = ended[c]
          /\ made[c] \in Nat /\ got[c] \in Nat /\ Said(c) \in 0 .. 1
      BY <1>1, <1>2, <3>1, FlowNumbers DEF IInv, ClientInv, Flow
    <3> HIDE DEF n
    <3>4. ~(1 \in 1 .. n - Said(c))
      BY <3>2, <3>3
    <3>5. n = 1 /\ Said(c) = 1
      BY <3>2, <3>3, <3>4
    <3>6. prod[c] = "none"
      BY <3>5 DEF Said
    <3> QED
      BY <3>1, <3>2, <3>3, <3>5, <3>6
  <2>6. ClientInv(c)'
    <3>1. ConnInv(c)' /\ BodyInv(c)' /\ ProdInv(c)'
      BY <1>1, <1>4, <2>2, <2>5, WebServerAssumption
         DEF IInv, ClientInv, ConnInv, BodyInv, ProdInv, Fresh
    <3>2. Flow(c)' /\ AnsInv(c)'
      BY <1>1, <2>2, <2>5 DEF Flow, AnsInv
    <3> QED
      BY <3>1, <3>2 DEF ClientInv
  <2>7. ASSUME NEW d \in Clients, d # c
        PROVE  ClientInv(d)'
    BY <1>1, <1>4, <2>3, <2>7, OthersKeep DEF IInv
  <2> QED
    BY <2>1, <2>4, <2>6, <2>7 DEF IInv
<1> QED
  BY <1>3, <1>4 DEF BodyEnds, Goto, Answer, Watch

\* The client takes what was handed over.
LEMMA TakeInv ==
  ASSUME IInv, NEW c \in Clients, Take(c)
  PROVE  IInv'
<1>1. /\ handed[c] /\ handed' = [handed EXCEPT ![c] = FALSE]
      /\ due' = [due EXCEPT ![c] = TRUE]
      /\ got' = [got EXCEPT ![c] = got[c] + 1]
      /\ UNCHANGED <<stopped, conn, waiting, read, prod, leaving, chan, made, ended,
                     first, asked, armed, ans>>
  BY DEF Take, link
<1>2. Typed /\ Typed'
  <2>1. Typed
    BY DEF IInv
  <2>2. got[c] + 1 \in Nat
    BY <2>1 DEF Typed
  <2>3. /\ handed' \in [Clients -> BOOLEAN] /\ due' \in [Clients -> BOOLEAN]
        /\ got' \in [Clients -> Nat]
    BY <1>1, <2>1, <2>2 DEF Typed
  <2> QED
    BY <1>1, <2>1, <2>3 DEF Typed
<1>3. conn[c] = "body"
  BY <1>1 DEF IInv, ClientInv, BodyInv
<1>4. ~handed'[c] /\ due'[c] /\ got'[c] = got[c] + 1
  BY <1>1, <1>2 DEF Typed
<1>5. \A d \in Clients : d # c => handed'[d] = handed[d] /\ due'[d] = due[d] /\ got'[d] = got[d]
  BY <1>1, <1>2 DEF Typed
<1>6. Permits' /\ Queue'
  BY <1>1, <1>2, PermitsKept, QueueKept DEF IInv, Typed
<1>7. BodyInv(c)' /\ ProdInv(c)' /\ AnsInv(c)'
  BY <1>1, <1>3, <1>4 DEF IInv, ClientInv, BodyInv, ProdInv, AnsInv
<1>8. ConnInv(c)' /\ Flow(c)'
  <2> DEFINE n == Len(chan[c])
  <2>1. /\ Said(c)' = Said(c) /\ Said(c) \in 0 .. 1
        /\ Carried(c) = Carried(c)' + 1 /\ Carried(c)' \in Nat
        /\ prod[c] # "none" => Said(c) = 0
    BY <1>1, <1>4 DEF Said, Carried
  <2>2. /\ made[c] = got[c] + Carried(c) + n - Said(c)
        /\ \A i \in 1 .. n - Said(c) : chan[c][i].kind = "data"
        /\ prod[c] = "none" => n > 0 /\ chan[c][n].kind = ended[c] /\ ended[c] # "none"
        /\ n \in Nat /\ got[c] \in Nat /\ made[c] \in Nat
    BY <1>2, <1>3, FlowNumbers DEF IInv, ClientInv, Flow
  <2> HIDE DEF n
  <2>3. made[c] = got'[c] + Carried(c)' + n - Said(c)
    BY <1>4, <2>1, <2>2
  <2>4. got'[c] <= made[c]
    BY <1>4, <2>1, <2>2
  <2>5. Flow(c)'
    BY <1>1, <1>3, <2>1, <2>2, <2>3 DEF Flow, n
  <2>6. ConnInv(c)'
    BY <1>1, <1>3, <2>4 DEF IInv, ClientInv, ConnInv, Fresh
  <2> QED
    BY <2>5, <2>6
<1>9. ASSUME NEW d \in Clients, d # c
      PROVE  ClientInv(d)'
  BY <1>1, <1>5, <1>9, OthersKeep DEF IInv
<1>10. ClientInv(c)'
  BY <1>7, <1>8 DEF ClientInv
<1> QED
  BY <1>2, <1>6, <1>9, <1>10 DEF IInv

\* Every step keeps the invariant.
LEMMA NextInv == IInv /\ [Next]_vars => IInv'
<1> SUFFICES ASSUME IInv, [Next]_vars
             PROVE  IInv'
  OBVIOUS
<1>1. ASSUME NEW c \in Clients, Server(c)
      PROVE  IInv'
  BY <1>1, RefuseInv, AdmitInv, RespondPageInv, RespondDownloadInv, FirstInv, HandOverInv,
     PendingInv, BodyEndsInv DEF Server
<1>2. ASSUME NEW c \in Clients, Task(c) \/ Producer(c)
      PROVE  IInv'
  BY <1>2, HandledInv, SendBufferedInv, ProduceSaysInv, ProduceInv DEF Task, Producer
<1>3. ASSUME NEW c \in Clients, Connect(c) \/ Request(c) \/ Take(c)
      PROVE  IInv'
  BY <1>3, ConnectInv, RequestInv, TakeInv
<1>4. ASSUME NEW c \in Clients, Stalled(c) \/ ClientLeaves(c)
      PROVE  IInv'
  BY <1>4, CutOffInv DEF Stalled, ClientLeaves, IInv, Typed
<1>5. CASE DropSlot
  BY <1>5, DropSlotInv
<1>6. CASE Stop
  <2>1. {c \in Clients : conn[c] # "closed"} \in SUBSET Clients
    OBVIOUS
  <2> QED
    BY <1>6, <2>1, CutOffInv DEF Stop
<1>7. CASE UNCHANGED vars
  <2>1. UNCHANGED <<stopped, conn, waiting, read, prod, leaving, chan, made, ended,
                    first, handed, due, asked, armed, ans, got>>
    BY <1>7 DEF vars, link, body, seen
  <2>2. Typed' /\ Permits' /\ Queue'
    BY <2>1, PermitsKept, QueueKept DEF IInv, Typed
  <2>3. \A c \in Clients : ClientInv(c)'
    BY <2>1, OthersKeep DEF IInv
  <2> QED
    BY <2>2, <2>3 DEF IInv
<1> QED
  BY <1>1, <1>2, <1>3, <1>4, <1>5, <1>6, <1>7 DEF Next

THEOREM Invariant == Spec => []IInv
BY InitInv, NextInv, PTL DEF Spec

-----------------------------------------------------------------------------
(***************************************************************************)
(* What the invariant says of the server.                                  *)
(***************************************************************************)

\* The declarations of the state, and the bounds of its counters: no more chunks in
\* flight than the channel holds, no more taken than were made.
THEOREM TypeCorrect == Spec => []TypeOK
<1>1. IInv => TypeOK
  <2> SUFFICES ASSUME IInv PROVE TypeOK
    OBVIOUS
  <2>1. Typed
    BY DEF IInv
  <2>2. \A c \in Range(waiting) : conn[c] = "queued"
    BY DEF IInv, Queue
  <2>3. leaving \in 0 .. Slots
    <3> DEFINE P == {d \in Clients : prod[d] # "none"}
    <3>1. Cardinality(P) \in Nat
      BY ClientSets
    <3> QED
      BY <2>1, <3>1, SlotsNat DEF IInv, Permits, Taken, Typed
  <2>4. \A f \in {read, first, handed, due, asked, armed} : f \in [Clients -> BOOLEAN]
    BY <2>1, Zenon DEF Typed
  <2>5. \A c \in Clients : Len(chan[c]) <= InFlight
    BY DEF IInv, ClientInv, ConnInv
  <2>6. got \in [Clients -> 0 .. Chunks]
    <3>1. ASSUME NEW c \in Clients
          PROVE  got[c] \in 0 .. Chunks
      BY <2>1, WebServerAssumption DEF IInv, ClientInv, ConnInv, Typed
    <3> QED
      BY <2>1, <3>1 DEF Typed
  <2> QED
    BY <2>1, <2>2, <2>3, <2>4, <2>5, <2>6 DEF Typed, TypeOK
<1> QED
  BY <1>1, Invariant, PTL

\* Downloads end cleanly only when they are whole (ChannelBody).
THEOREM DownloadsWhole == Spec => []CleanIsWhole
<1>1. IInv => CleanIsWhole
  BY DEF IInv, ClientInv, AnsInv, CleanIsWhole
<1> QED
  BY <1>1, Invariant, PTL

\* Requests read under permits and downloads under slots, whoever left
\* (AppState.reads, AppState.downloads).
THEOREM PermitsBound == Spec => []ReadersBounded
<1>1. IInv => ReadersBounded
  <2> SUFFICES ASSUME IInv PROVE ReadersBounded
    OBVIOUS
  <2> DEFINE P == {d \in Clients : prod[d] # "none"}
  <2>1. Cardinality(P) \in Nat
    BY ClientSets
  <2>2. Taken = Cardinality(P) + leaving /\ Taken <= Slots /\ leaving \in Nat
    BY DEF IInv, Permits, Taken, Typed
  <2>3. Cardinality(P) <= Slots
    <3> HIDE DEF P
    <3> QED
      BY <2>1, <2>2, SlotsNat
  <2> QED
    BY <2>3 DEF IInv, Permits, Reading, ReadersBounded
<1> QED
  BY <1>1, Invariant, PTL

\* The watch that drops connections is armed whenever a chunk waits for its client,
\* and never while the connection waits for the producer, opens its response or is
\* past its download: poll_frame disarms it when it asks (StallWatch).
THEOREM StallsBlameClients == Spec => []StallIsTheClients
<1>1. IInv => StallIsTheClients
  BY DEF IInv, ClientInv, BodyInv, StallIsTheClients
<1> QED
  BY <1>1, Invariant, PTL
=============================================================================
