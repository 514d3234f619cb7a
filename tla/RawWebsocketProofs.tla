-------------------------- MODULE RawWebsocketProofs --------------------------
(***************************************************************************)
(* RawWebsocket for any number of users and texts: no callback runs after  *)
(* close() has returned, texts go out once and in order, and onClose is    *)
(* called at most once.                                                    *)
(***************************************************************************)
EXTENDS RawWebsocket, SequenceTheorems, FiniteSetTheorems, TLAPS

PendingOps == {"setup", "setupTimer", "read", "closeTimer", "close"}
HandlerOps == PendingOps \cup {"send", "write", "beginClose"}
Handlers   == [op : HandlerOps, ok : BOOLEAN, text : Nat]
PCs == {"idle", "connecting", "fail_join", "failed", "send", "send_post",
        "close_open", "close_post", "join", "joining", "closed"}
IOs == {"run", "onMessage", "read", "error", "report", "onClose", "stopped", "crashed"}

Types ==
    /\ open \in BOOLEAN /\ connecting \in BOOLEAN /\ closeCalled \in BOOLEAN /\ closeReported \in BOOLEAN
    /\ setupError \in BOOLEAN /\ setupTimedOut \in BOOLEAN
    /\ stage \in {"resolve", "connect", "tls", "handshake", "done"}
    /\ socket \in BOOLEAN
    /\ pending \subseteq PendingOps
    /\ ready \in Seq(Handlers)
    /\ flight \in Seq(Nat) /\ writeQueue \in Seq(Nat) /\ wire \in Seq(Nat)
    /\ io \in IOs
    /\ pc \in [Users \cup {IO} -> PCs]
    /\ joinLock \in Users \cup {IO}
    /\ posted \in Nat /\ onCloses \in Nat

-----------------------------------------------------------------------------
(* What a sequence of handlers holds: operations, posted texts in their    *)
(* order, and the outcome of the write that is waiting, of which there is  *)
(* at most one.                                                            *)

Ops(s)        == {s[i].op : i \in DOMAIN s}
Texts(s)      == {s[i].text : i \in {j \in DOMAIN s : s[j].op = "send"}}
WriteOks(s)   == {s[i].ok : i \in {j \in DOMAIN s : s[j].op = "write"}}
Increasing(s) == \A i, j \in DOMAIN s : i < j /\ s[i].op = "send" /\ s[j].op = "send" => s[i].text < s[j].text
OneWrite(s)   == \A i, j \in DOMAIN s : s[i].op = "write" /\ s[j].op = "write" => i = j

-----------------------------------------------------------------------------
\* Until the setup is done there is nothing to read, to write or to report.
StageInv ==
    stage # "done" =>
        /\ ~open /\ ~closeReported /\ io \in {"run", "stopped"}
        /\ "read" \notin pending /\ Ops(ready) \cap {"read", "write", "send"} = {}
        /\ flight = <<>> /\ writeQueue = <<>> /\ wire = <<>> /\ posted = 0
        /\ \A u \in Users \cup {IO} : pc[u] \notin {"send", "send_post"}

\* The connection is down for good before it is reported.
ReportInv ==
    /\ io \in {"error", "report", "onClose"} => ~open
    /\ closeReported => ~open
    /\ onCloses = IF closeReported THEN 1 ELSE 0

\* A text is counted from the call on.
Sending == {u \in Users \cup {IO} : pc[u] \in {"send", "send_post"}}
PostedInv == posted + Cardinality(Sending) <= MaxTexts

\* The queue holds consecutive texts.
QueueInv ==
    \A i \in DOMAIN writeQueue : writeQueue[i] = writeQueue[1] + i - 1 /\ writeQueue[i] \in 1 .. posted

(***************************************************************************)
(* The write pipeline.  What has been written is 1, 2, ...; at most one    *)
(* write is outstanding or waits for its handler, it is that of the next   *)
(* text, and that text heads the queue unless an error has cleared it.     *)
(* While the connection is open, everything posted is written, queued or   *)
(* in a handler that will queue it.                                        *)
(***************************************************************************)
PipeInv ==
    /\ Len(wire) <= posted /\ \A i \in DOMAIN wire : wire[i] = i
    /\ flight # <<>> => flight = <<Len(wire) + 1>> /\ Len(wire) < posted /\ WriteOks(ready) = {}
    /\ OneWrite(ready) /\ Increasing(ready) /\ Texts(ready) \subseteq 1 .. posted
    /\ writeQueue # <<>> /\ flight # <<>> => writeQueue[1] = Len(wire) + 1
    /\ writeQueue # <<>> /\ TRUE \in WriteOks(ready) => writeQueue[1] = Len(wire)
    /\ open /\ writeQueue = <<>> =>
            flight = <<>> /\ WriteOks(ready) = {} /\ Texts(ready) = Len(wire) + 1 .. posted
    /\ open /\ writeQueue # <<>> => Texts(ready) = writeQueue[1] + Len(writeQueue) .. posted

SocketInv == Types /\ StageInv /\ ReportInv /\ PostedInv /\ QueueInv /\ PipeInv

-----------------------------------------------------------------------------
(* Putting a handler at the end and taking one from the front. *)

LEMMA AppendHandler ==
    ASSUME NEW s \in Seq(Handlers), NEW h \in Handlers
    PROVE  /\ Append(s, h) \in Seq(Handlers)
           /\ Ops(Append(s, h)) = Ops(s) \cup {h.op}
           /\ Texts(Append(s, h)) = IF h.op = "send" THEN Texts(s) \cup {h.text} ELSE Texts(s)
           /\ WriteOks(Append(s, h)) = IF h.op = "write" THEN WriteOks(s) \cup {h.ok} ELSE WriteOks(s)
<1> DEFINE t == Append(s, h)
           n == Len(s) + 1
<1>1. /\ t \in Seq(Handlers) /\ n \in Nat /\ DOMAIN s = 1 .. n - 1 /\ DOMAIN t = 1 .. n
      /\ t[n] = h /\ \A i \in 1 .. n - 1 : t[i] = s[i]
  OBVIOUS
<1> HIDE DEF t, n
<1>2. DOMAIN t = DOMAIN s \cup {n} /\ n \notin DOMAIN s /\ \A i \in DOMAIN s : t[i] = s[i]
  <2>1. n \in Nat /\ n >= 1
    BY DEF n
  <2>2. 1 .. n = (1 .. n - 1) \cup {n} /\ n \notin 1 .. n - 1
    BY <2>1
  <2> QED BY <1>1, <2>2
<1>3. Ops(t) = Ops(s) \cup {h.op}
  BY <1>1, <1>2 DEF Ops
<1>4. Texts(t) = IF h.op = "send" THEN Texts(s) \cup {h.text} ELSE Texts(s)
  BY <1>1, <1>2 DEF Texts
<1>5. WriteOks(t) = IF h.op = "write" THEN WriteOks(s) \cup {h.ok} ELSE WriteOks(s)
  BY <1>1, <1>2 DEF WriteOks
<1> QED BY <1>1, <1>3, <1>4, <1>5 DEF t

LEMMA AppendOrder ==
    ASSUME NEW s \in Seq(Handlers), NEW h \in Handlers, OneWrite(s), Increasing(s)
    PROVE  /\ (h.op = "write" => WriteOks(s) = {}) => OneWrite(Append(s, h))
           /\ (h.op = "send" => \A x \in Texts(s) : x < h.text) => Increasing(Append(s, h))
<1> DEFINE t == Append(s, h)
           n == Len(s) + 1
<1>1. /\ n \in Nat /\ DOMAIN s = 1 .. n - 1 /\ DOMAIN t = 1 .. n
      /\ t[n] = h /\ \A i \in 1 .. n - 1 : t[i] = s[i]
  OBVIOUS
<1> HIDE DEF t, n
<1>2. ASSUME h.op = "write" => WriteOks(s) = {}
      PROVE  OneWrite(t)
  <2>1. h.op = "write" => \A i \in DOMAIN s : s[i].op # "write"
    BY <1>2 DEF WriteOks
  <2> QED BY <1>1, <2>1 DEF OneWrite
<1>3. ASSUME h.op = "send" => \A x \in Texts(s) : x < h.text
      PROVE  Increasing(t)
  <2>1. h.op = "send" => \A i \in DOMAIN s : s[i].op = "send" => s[i].text < h.text
    BY <1>3 DEF Texts
  <2>2. ASSUME NEW i \in DOMAIN t, NEW j \in DOMAIN t, i < j, t[i].op = "send", t[j].op = "send"
        PROVE  t[i].text < t[j].text
    <3>1. i \in DOMAIN s /\ t[i] = s[i]
      BY <1>1, <2>2
    <3>2. CASE j = n
      BY <1>1, <2>1, <2>2, <3>1, <3>2
    <3>3. CASE j \in DOMAIN s
      BY <1>1, <2>2, <3>1, <3>3 DEF Increasing
    <3> QED BY <1>1, <3>2, <3>3
  <2> QED BY <2>2 DEF Increasing
<1> QED BY <1>2, <1>3 DEF t

LEMMA TailHandler ==
    ASSUME NEW s \in Seq(Handlers), s # <<>>, OneWrite(s), Increasing(s)
    PROVE  /\ Tail(s) \in Seq(Handlers) /\ Head(s) \in Handlers
           /\ Ops(s) = Ops(Tail(s)) \cup {Head(s).op}
           /\ Texts(s) = IF Head(s).op = "send" THEN Texts(Tail(s)) \cup {Head(s).text} ELSE Texts(Tail(s))
           /\ Head(s).op = "send" => \A x \in Texts(Tail(s)) : Head(s).text < x
           /\ WriteOks(s) = IF Head(s).op = "write" THEN {Head(s).ok} ELSE WriteOks(Tail(s))
           /\ Head(s).op = "write" => WriteOks(Tail(s)) = {}
           /\ OneWrite(Tail(s)) /\ Increasing(Tail(s))
<1> DEFINE t == Tail(s)
           h == Head(s)
           n == Len(s)
<1>1. /\ t \in Seq(Handlers) /\ h \in Handlers /\ n \in Nat /\ n > 0 /\ DOMAIN s = 1 .. n /\ DOMAIN t = 1 .. n - 1
      /\ s[1] = h /\ \A i \in 1 .. n - 1 : t[i] = s[i + 1]
  OBVIOUS
<1> HIDE DEF t, h, n
<1>2. ASSUME NEW i \in DOMAIN t
      PROVE  i + 1 \in DOMAIN s /\ i + 1 > 1 /\ i + 1 # 1 /\ s[i + 1] = t[i]
  BY <1>1
<1>3. ASSUME NEW i \in DOMAIN s
      PROVE  (i = 1 /\ s[i] = h) \/ \E j \in DOMAIN t : i = j + 1 /\ t[j] = s[i]
  <2>1. CASE i = 1
    BY <1>1, <2>1
  <2>2. CASE i # 1
    <3>1. i - 1 \in 1 .. n - 1 /\ i = (i - 1) + 1
      BY <1>1, <2>2
    <3> QED BY <1>1, <3>1
  <2> QED BY <2>1, <2>2
<1>4. 1 \in DOMAIN s /\ s[1] = h
  BY <1>1
<1>5. Ops(s) = Ops(t) \cup {h.op}
  <2>1. Ops(s) \subseteq Ops(t) \cup {h.op}
    BY <1>3 DEF Ops
  <2>2. Ops(t) \cup {h.op} \subseteq Ops(s)
    BY <1>2, <1>4 DEF Ops
  <2> QED BY <2>1, <2>2
<1>6. Texts(s) = IF h.op = "send" THEN Texts(t) \cup {h.text} ELSE Texts(t)
  <2>1. Texts(t) \subseteq Texts(s) /\ (h.op = "send" => h.text \in Texts(s))
    BY <1>2, <1>4 DEF Texts
  <2>2. Texts(s) \subseteq Texts(t) \cup {h.text} /\ (h.op # "send" => Texts(s) \subseteq Texts(t))
    BY <1>3 DEF Texts
  <2> QED BY <2>1, <2>2
<1>7. h.op = "send" => \A x \in Texts(t) : h.text < x
  BY <1>1, <1>2 DEF Texts, Increasing
<1>8. WriteOks(s) = IF h.op = "write" THEN WriteOks(t) \cup {h.ok} ELSE WriteOks(t)
  <2>1. WriteOks(t) \subseteq WriteOks(s) /\ (h.op = "write" => h.ok \in WriteOks(s))
    BY <1>2, <1>4 DEF WriteOks
  <2>2. WriteOks(s) \subseteq WriteOks(t) \cup {h.ok} /\ (h.op # "write" => WriteOks(s) \subseteq WriteOks(t))
    BY <1>3 DEF WriteOks
  <2> QED BY <2>1, <2>2
<1>9. h.op = "write" => WriteOks(t) = {}
  <2>1. h.op = "write" => \A i \in DOMAIN t : t[i].op # "write"
    BY <1>2, <1>4 DEF OneWrite
  <2> QED BY <2>1 DEF WriteOks
<1>10. OneWrite(t)
  BY <1>1, <1>2 DEF OneWrite
<1>11. Increasing(t)
  <2> SUFFICES ASSUME NEW i \in DOMAIN t, NEW j \in DOMAIN t, i < j, t[i].op = "send", t[j].op = "send"
               PROVE  t[i].text < t[j].text
    BY DEF Increasing
  <2>1. i + 1 < j + 1
    BY <1>1
  <2> QED BY <1>2, <2>1 DEF Increasing
<1> QED BY <1>1, <1>5, <1>6, <1>7, <1>8, <1>9, <1>10, <1>11 DEF t, h

-----------------------------------------------------------------------------
(* Steps that put no text and no write among the handlers. *)

\* Texts are run or kept, in their order, and no write is added.
Quiet ==
    /\ ready' \in Seq(Handlers) /\ OneWrite(ready') /\ Increasing(ready')
    /\ Texts(ready') \subseteq Texts(ready) /\ WriteOks(ready') \subseteq WriteOks(ready)

\* A handler is taken, added, or one is taken and its cancelled timer added.
LEMMA QuietReady ==
    ASSUME SocketInv, NEW h \in Handlers, h.op \notin {"send", "write"},
           \/ ready' = ready
           \/ ready' = Append(ready, h)
           \/ ready # <<>> /\ ready' = Tail(ready)
           \/ ready # <<>> /\ ready' = Append(Tail(ready), h)
    PROVE  /\ Quiet
           /\ Ops(ready') \subseteq Ops(ready) \cup {h.op}
           /\ ready = <<>> \/ Head(ready).op # "send" \/ ready' \in {ready, Append(ready, h)} => Texts(ready') = Texts(ready)
<1>1. ready \in Seq(Handlers) /\ OneWrite(ready) /\ Increasing(ready)
  BY DEF SocketInv, Types, PipeInv
<1>2. CASE ready' = ready
  BY <1>1, <1>2 DEF Quiet
<1>3. CASE ready' = Append(ready, h)
  BY <1>1, <1>3, AppendHandler, AppendOrder DEF Quiet
<1>4. CASE ready # <<>> /\ ready' = Tail(ready)
  BY <1>1, <1>4, TailHandler DEF Quiet
<1>5. CASE ready # <<>> /\ ready' = Append(Tail(ready), h)
  <2> DEFINE t == Tail(ready)
  <2>1. /\ t \in Seq(Handlers) /\ OneWrite(t) /\ Increasing(t)
        /\ Ops(t) \subseteq Ops(ready) /\ Texts(t) \subseteq Texts(ready) /\ WriteOks(t) \subseteq WriteOks(ready)
        /\ Head(ready).op # "send" => Texts(t) = Texts(ready)
    BY <1>1, <1>5, TailHandler
  <2> HIDE DEF t
  <2>2. ready' = Append(t, h)
    BY <1>5 DEF t
  <2>3. /\ Append(t, h) \in Seq(Handlers) /\ OneWrite(Append(t, h)) /\ Increasing(Append(t, h))
        /\ Ops(Append(t, h)) = Ops(t) \cup {h.op} /\ Texts(Append(t, h)) = Texts(t)
        /\ WriteOks(Append(t, h)) = WriteOks(t)
    BY <2>1, AppendHandler, AppendOrder
  <2>4. ready' = Append(ready, h) => Texts(ready') = Texts(ready)
    BY <1>1, AppendHandler
  <2> QED BY <2>1, <2>2, <2>3, <2>4, <1>5 DEF Quiet
<1> QED BY <1>2, <1>3, <1>4, <1>5

\* They leave the pipeline as it is, also when the connection goes down and the queue is cleared.
LEMMA QuietPipe ==
    ASSUME SocketInv, Quiet, UNCHANGED <<flight, wire, posted>>,
           writeQueue' = writeQueue \/ (writeQueue' = <<>> /\ open' = FALSE),
           open' => open /\ Texts(ready') = Texts(ready)
    PROVE  PipeInv' /\ QueueInv'
<1>1. QueueInv'
  BY DEF SocketInv, QueueInv
<1>2. PipeInv'
  <2> USE DEF SocketInv, PipeInv, Quiet
  <2>1. (Len(wire) <= posted /\ \A i \in DOMAIN wire : wire[i] = i)'
    OBVIOUS
  <2>2. (flight # <<>> => flight = <<Len(wire) + 1>> /\ Len(wire) < posted /\ WriteOks(ready) = {})'
    OBVIOUS
  <2>3. (OneWrite(ready) /\ Increasing(ready) /\ Texts(ready) \subseteq 1 .. posted)'
    OBVIOUS
  <2>4. (writeQueue # <<>> /\ flight # <<>> => writeQueue[1] = Len(wire) + 1)'
    OBVIOUS
  <2>5. (writeQueue # <<>> /\ TRUE \in WriteOks(ready) => writeQueue[1] = Len(wire))'
    OBVIOUS
  <2>6. (open /\ writeQueue = <<>> =>
            flight = <<>> /\ WriteOks(ready) = {} /\ Texts(ready) = Len(wire) + 1 .. posted)'
    OBVIOUS
  <2>7. (open /\ writeQueue # <<>> => Texts(ready) = writeQueue[1] + Len(writeQueue) .. posted)'
    OBVIOUS
  <2> QED BY <2>1, <2>2, <2>3, <2>4, <2>5, <2>6, <2>7
<1> QED BY <1>1, <1>2

\* Posted texts are counted from their call on; nobody else's are.
LEMMA PostedQuiet ==
    ASSUME SocketInv, UNCHANGED <<pc, posted>>
    PROVE  PostedInv'
BY DEF SocketInv, PostedInv, Sending

(***************************************************************************)
(* What the quiet steps of the I/O thread and of the network do: they take *)
(* or add a handler, but run no text while the connection is open; they    *)
(* may bring the connection down, for good, and clear the queue, read only *)
(* when the setup is done, and report the end once.                        *)
(***************************************************************************)
Takes(op, ok) ==
    \/ ready' = ready
    \/ ready' = Append(ready, Handler(op, ok))
    \/ ready # <<>> /\ ready' = Tail(ready) /\ (Head(ready).op = "send" => ~open)
    \/ ready # <<>> /\ ready' = Append(Tail(ready), Handler(op, ok)) /\ Head(ready).op # "send"
Lowers ==
    /\ open' = open \/ open' = FALSE
    /\ writeQueue' = writeQueue \/ (writeQueue' = <<>> /\ open' = FALSE)
Advances(op) ==
    /\ stage = "done" => stage' = "done"
    /\ stage' # "done" => "read" \notin pending' /\ op # "read" /\ io' \in {"run", "stopped"} /\ closeReported' = closeReported
Reports ==
    /\ io' \in {"error", "report", "onClose"} => ~open'
    /\ \/ UNCHANGED <<closeReported, onCloses>>
       \/ io = "report" /\ closeReported' = TRUE /\ onCloses' = IF closeReported THEN onCloses ELSE onCloses + 1
Typed ==
    /\ open' \in BOOLEAN /\ connecting' \in BOOLEAN /\ closeCalled' \in BOOLEAN /\ closeReported' \in BOOLEAN
    /\ setupError' \in BOOLEAN /\ setupTimedOut' \in BOOLEAN /\ socket' \in BOOLEAN
    /\ stage' \in {"resolve", "connect", "tls", "handshake", "done"}
    /\ pending' \subseteq PendingOps /\ io' \in IOs

LEMMA QuietHandler ==
    ASSUME SocketInv, NEW op \in HandlerOps \ {"send", "write"}, NEW ok \in BOOLEAN,
           Takes(op, ok), Lowers, Advances(op), Reports, Typed,
           UNCHANGED <<flight, wire, user>>
    PROVE  SocketInv'
<1> DEFINE h == Handler(op, ok)
<1>1. h \in Handlers /\ h.op = op
  BY DEF Handler, Handlers
<1> HIDE DEF h
<1>2. \/ ready' = ready
      \/ ready' = Append(ready, h)
      \/ ready # <<>> /\ ready' = Tail(ready) /\ (Head(ready).op = "send" => ~open)
      \/ ready # <<>> /\ ready' = Append(Tail(ready), h) /\ Head(ready).op # "send"
  BY DEF h, Takes
<1>3. /\ Quiet /\ Ops(ready') \subseteq Ops(ready) \cup {op}
      /\ ready = <<>> \/ Head(ready).op # "send" \/ ready' \in {ready, Append(ready, h)} => Texts(ready') = Texts(ready)
  BY <1>1, <1>2, QuietReady
<1>4. open' => open /\ Texts(ready') = Texts(ready)
  BY <1>2, <1>3 DEF Lowers
<1>5. PipeInv' /\ QueueInv'
  BY <1>3, <1>4, QuietPipe DEF user, Lowers
<1>6. PostedInv'
  BY PostedQuiet DEF user
<1>7. Types'
  <2>1. writeQueue' \in Seq(Nat)
    <3>1. writeQueue' = writeQueue \/ writeQueue' = <<>>
      BY DEF Lowers
    <3>2. writeQueue \in Seq(Nat) /\ <<>> \in Seq(Nat)
      BY DEF SocketInv, Types
    <3> QED BY <3>1, <3>2
  <2>2. onCloses' \in Nat
    BY DEF SocketInv, Types, Reports
  <2>3. ready' \in Seq(Handlers)
    BY <1>3 DEF Quiet
  <2> QED BY <2>1, <2>2, <2>3 DEF SocketInv, Types, Typed, user
<1>8. StageInv'
  BY <1>3 DEF SocketInv, StageInv, user, Types, Advances, Lowers
<1>9. ReportInv'
  BY DEF SocketInv, ReportInv, Types, Reports, Lowers
<1> QED BY <1>5, <1>6, <1>7, <1>8, <1>9 DEF SocketInv

\* The head of the handlers is one of them.
LEMMA RunsHead ==
    ASSUME SocketInv, NEW op, NEW ok, Runs(op, ok)
    PROVE  /\ io = "run" /\ ready # <<>> /\ op \in Ops(ready) /\ Head(ready).op = op /\ Head(ready).ok = ok
           /\ op \in {"read", "write", "send"} => stage = "done"
<1>1. ready # <<>> /\ Head(ready).op = op /\ Ops(ready) = Ops(Tail(ready)) \cup {Head(ready).op}
  BY TailHandler DEF SocketInv, Types, PipeInv, Runs
<1> QED BY <1>1 DEF Runs, SocketInv, StageInv

LEMMA CompletesInv ==
    ASSUME SocketInv, NEW op \in pending, NEW ok \in BOOLEAN, Completes(op, ok)
    PROVE  SocketInv'
<1>1. op \in HandlerOps \ {"send", "write"}
  BY DEF SocketInv, Types, PendingOps, HandlerOps
<1>2. Takes(op, ok) /\ Lowers
  BY DEF Completes, flags, Takes, Lowers
<1>3. Advances(op) /\ Reports
  BY DEF SocketInv, StageInv, ReportInv, Completes, flags, setup, Advances, Reports
<1>4. Typed
  BY DEF SocketInv, Types, Completes, flags, setup, Typed
<1> QED
  BY <1>1, <1>2, <1>3, <1>4, QuietHandler DEF Completes

LEMMA HandlerInv ==
    ASSUME SocketInv, HandlerStep \/ CallbackEnds,
           ~finishSetup, ~SendPosted, ~doWriteDone
    PROVE  SocketInv'
<1> DEFINE Does(op) == Takes(op, FALSE) /\ Lowers /\ Advances(op) /\ Reports /\ Typed /\ UNCHANGED <<flight, wire, user>>
<1> SUFFICES Does("setupTimer") \/ Does("closeTimer")
  BY QuietHandler DEF HandlerOps, PendingOps
<1> USE DEF SocketInv, Types, StageInv, ReportInv, flags, setup, Takes, Lowers, Advances, Reports, Typed
<1>1. CASE SetupDeadline
  BY <1>1, RunsHead DEF SetupDeadline, PendingOps, IOs
<1>2. CASE TimerCancelled
  BY <1>2, RunsHead DEF TimerCancelled, PendingOps, IOs
<1>3. CASE SetupContinues
  BY <1>3, RunsHead DEF SetupContinues, PendingOps, IOs
<1>4. CASE finishSetupFails
  BY <1>4, RunsHead DEF finishSetupFails, Cancel, PendingOps, IOs
<1>5. CASE ReadMessage
  BY <1>5, RunsHead DEF ReadMessage, PendingOps, IOs
<1>6. CASE ReadOther
  BY <1>6, RunsHead DEF ReadOther, PendingOps, IOs
<1>7. CASE startRead
  BY <1>7, RunsHead DEF startRead, PendingOps, IOs
<1>8. CASE SendDropped
  BY <1>8, RunsHead DEF SendDropped, PendingOps, IOs
<1>9. CASE doWritePopsEmpty
  BY <1>9, RunsHead DEF doWritePopsEmpty, PendingOps, IOs
<1>10. CASE onIoError
  BY <1>10, RunsHead DEF onIoError, PendingOps, IOs
<1>11. CASE ErrorExpected
  BY <1>11, RunsHead DEF ErrorExpected, PendingOps, IOs
<1>12. CASE ErrorDropsSocket
  BY <1>12, RunsHead DEF ErrorDropsSocket, PendingOps, IOs
<1>13. CASE reportClose
  BY <1>13, RunsHead DEF reportClose, PendingOps, IOs
<1>14. CASE beginCloseStops
  BY <1>14, RunsHead DEF beginCloseStops, PendingOps, IOs
<1>15. CASE beginClose
  BY <1>15, RunsHead DEF beginClose, PendingOps, IOs
<1>16. CASE CloseEnds
  BY <1>16, RunsHead DEF CloseEnds, Cancel, PendingOps, IOs
<1>17. CASE OutOfWork
  BY <1>17, RunsHead DEF OutOfWork, PendingOps, IOs
<1>18. CASE CallbackEnds
  BY <1>18, RunsHead DEF CallbackEnds, PendingOps, IOs
<1> QED BY <1>1, <1>2, <1>3, <1>4, <1>5, <1>6, <1>7, <1>8, <1>9, <1>10, <1>11, <1>12, <1>13, <1>14, <1>15, <1>16, <1>17, <1>18 DEF HandlerStep

-----------------------------------------------------------------------------
(* The steps that move a text. *)

\* What the other parts of the invariant need of a step that moves one.
LEMMA MovesText ==
    ASSUME SocketInv, stage = "done", UNCHANGED <<flags, setup, socket, pending, io, pc, joinLock, onCloses>>,
           ready' \in Seq(Handlers), flight' \in Seq(Nat), writeQueue' \in Seq(Nat), wire' \in Seq(Nat), posted' \in Nat
    PROVE  Types' /\ StageInv' /\ ReportInv'
<1>1. Types'
  BY DEF SocketInv, Types, flags, setup
<1>2. StageInv' /\ ReportInv'
  BY DEF SocketInv, StageInv, ReportInv, flags, setup
<1> QED BY <1>1, <1>2

\* The least text of an interval is taken: the rest is an interval.
LEMMA LeastText ==
    ASSUME NEW a \in Nat, NEW b \in Nat, NEW x, NEW R, {x} \cup R = a .. b, \A r \in R : x < r
    PROVE  x = a /\ x <= b /\ R = a + 1 .. b
<1>1. x \in a .. b
  OBVIOUS
<1>2. a \in a .. b
  BY <1>1
<1>3. x = a
  BY <1>1, <1>2
<1>4. R \subseteq a .. b /\ a \notin R
  BY <1>3
<1>5. ASSUME NEW r \in R
      PROVE  r \in a + 1 .. b
  <2>1. r \in a .. b /\ r # a
    BY <1>4
  <2> QED BY <2>1
<1>6. ASSUME NEW y \in a + 1 .. b
      PROVE  y \in R
  <2>1. y \in a .. b /\ y # x
    BY <1>3
  <2> QED BY <2>1
<1>7. R = a + 1 .. b
  BY <1>5, <1>6
<1> QED BY <1>1, <1>3, <1>7

LEMMA WriteCompletesInv ==
    ASSUME SocketInv, NEW ok \in BOOLEAN, WriteCompletes(ok)
    PROVE  SocketInv'
<1> DEFINE h == Handler("write", ok)
           n == Len(wire)
<1>1. h \in Handlers /\ h.op = "write" /\ h.ok = ok
  BY DEF Handler, Handlers, HandlerOps
<1>2. /\ flight = <<n + 1>> /\ n < posted /\ WriteOks(ready) = {} /\ n \in Nat /\ posted \in Nat
      /\ OneWrite(ready) /\ Increasing(ready) /\ ready \in Seq(Handlers) /\ wire \in Seq(Nat)
      /\ \A i \in DOMAIN wire : wire[i] = i
  BY DEF SocketInv, Types, PipeInv, WriteCompletes
<1>3. stage = "done"
  BY <1>2 DEF SocketInv, StageInv
<1>4. flight' = <<>> /\ ready' = Append(ready, h) /\ UNCHANGED <<writeQueue, posted, open>>
  BY <1>2 DEF WriteCompletes, user, flags
<1>5. wire' = IF ok THEN Append(wire, n + 1) ELSE wire
  BY <1>2 DEF WriteCompletes
<1> HIDE DEF h
<1>6. /\ ready' \in Seq(Handlers) /\ Texts(ready') = Texts(ready) /\ WriteOks(ready') = {ok}
      /\ OneWrite(ready') /\ Increasing(ready')
  BY <1>1, <1>2, <1>4, AppendHandler, AppendOrder
<1>7. /\ wire' \in Seq(Nat) /\ Len(wire') = (IF ok THEN n + 1 ELSE n)
      /\ \A i \in DOMAIN wire' : wire'[i] = i
  <2>1. CASE ok
    <3>1. wire' = Append(wire, n + 1) /\ n + 1 \in Nat
      BY <1>2, <1>5, <2>1
    <3>2. wire' \in Seq(Nat) /\ Len(wire') = n + 1 /\ DOMAIN wire' = 1 .. n + 1
      BY <1>2, <3>1
    <3>3. ASSUME NEW i \in 1 .. n + 1
          PROVE  wire'[i] = i
      BY <1>2, <3>1
    <3> QED BY <2>1, <3>2, <3>3
  <2>2. CASE ~ok
    BY <1>2, <1>5, <2>2
  <2> QED BY <2>1, <2>2
<1>8. <<>> \in Seq(Nat) /\ writeQueue \in Seq(Nat)
  BY DEF SocketInv, Types
<1>9. Types' /\ StageInv' /\ ReportInv'
  BY <1>2, <1>3, <1>4, <1>6, <1>7, <1>8, MovesText DEF WriteCompletes, user
<1>10. PostedInv' /\ QueueInv'
  BY PostedQuiet DEF SocketInv, QueueInv, WriteCompletes, user
<1>11. PipeInv'
  <2>1. writeQueue # <<>> => writeQueue[1] = n + 1
    BY <1>2 DEF SocketInv, PipeInv
  <2>2. ~(open /\ writeQueue = <<>>)
    BY <1>2 DEF SocketInv, PipeInv
  <2>3. Texts(ready) \subseteq 1 .. posted /\ (open /\ writeQueue # <<>> => Texts(ready) = writeQueue[1] + Len(writeQueue) .. posted)
    BY DEF SocketInv, PipeInv
  <2>4. TRUE \in WriteOks(ready') => ok
    BY <1>6
  <2> HIDE DEF n
  <2>5. (Len(wire) <= posted /\ \A i \in DOMAIN wire : wire[i] = i)'
    BY <1>2, <1>4, <1>7
  <2>6. (flight # <<>> => flight = <<Len(wire) + 1>> /\ Len(wire) < posted /\ WriteOks(ready) = {})'
    BY <1>4
  <2>7. (OneWrite(ready) /\ Increasing(ready) /\ Texts(ready) \subseteq 1 .. posted)'
    BY <1>4, <1>6, <2>3
  <2>8. (writeQueue # <<>> /\ flight # <<>> => writeQueue[1] = Len(wire) + 1)'
    BY <1>4
  <2>9. (writeQueue # <<>> /\ TRUE \in WriteOks(ready) => writeQueue[1] = Len(wire))'
    BY <1>4, <1>7, <2>1, <2>4
  <2>10. (open /\ writeQueue = <<>> =>
            flight = <<>> /\ WriteOks(ready) = {} /\ Texts(ready) = Len(wire) + 1 .. posted)'
    BY <1>4, <2>2
  <2>11. (open /\ writeQueue # <<>> => Texts(ready) = writeQueue[1] + Len(writeQueue) .. posted)'
    BY <1>4, <1>6, <2>3
  <2> QED BY <2>5, <2>6, <2>7, <2>8, <2>9, <2>10, <2>11 DEF PipeInv
<1> QED BY <1>9, <1>10, <1>11 DEF SocketInv

LEMMA finishSetupInv ==
    ASSUME SocketInv, finishSetup
    PROVE  SocketInv'
<1> DEFINE h == Handler("setupTimer", FALSE)
<1>1. h \in Handlers /\ h.op = "setupTimer"
  BY DEF Handler, Handlers, HandlerOps, PendingOps
<1>2. io = "run" /\ ready # <<>> /\ Head(ready).op = "setup"
  BY RunsHead DEF finishSetup
<1>3. /\ Ops(ready) \cap {"read", "write", "send"} = {} /\ ~closeReported
      /\ flight = <<>> /\ writeQueue = <<>> /\ wire = <<>> /\ posted = 0
  BY DEF SocketInv, StageInv, finishSetup
<1>4. ready' = Append(Tail(ready), h) \/ ready' = Tail(ready)
  BY DEF finishSetup
<1> HIDE DEF h
<1>5. Quiet /\ Ops(ready') \subseteq Ops(ready) \cup {"setupTimer"}
  BY <1>1, <1>2, <1>4, QuietReady
<1>6. Texts(ready) = {} /\ WriteOks(ready) = {}
  BY <1>3 DEF Ops, Texts, WriteOks
<1>7. Types'
  BY <1>5 DEF SocketInv, Types, Quiet, finishSetup, user, PendingOps
<1>8. StageInv' /\ ReportInv'
  BY <1>2, <1>3 DEF SocketInv, StageInv, ReportInv, finishSetup
<1>9. PostedInv'
  BY PostedQuiet DEF finishSetup, user
<1>10. QueueInv'
  BY DEF SocketInv, QueueInv, finishSetup, user
<1>11. PipeInv'
  <2>1. Texts(ready') = {} /\ WriteOks(ready') = {} /\ OneWrite(ready') /\ Increasing(ready')
    BY <1>5, <1>6 DEF Quiet
  <2>2. flight' = <<>> /\ writeQueue' = <<>> /\ wire' = <<>> /\ posted' = 0
    BY <1>3 DEF finishSetup, user
  <2>3. Len(wire') = 0 /\ DOMAIN wire' = {} /\ Len(wire') + 1 .. posted' = {}
    BY <2>2
  <2> QED BY <2>1, <2>2, <2>3 DEF PipeInv
<1> QED BY <1>7, <1>8, <1>9, <1>10, <1>11 DEF SocketInv

LEMMA SendPostedInv ==
    ASSUME SocketInv, SendPosted
    PROVE  SocketInv'
<1> DEFINE x == Head(ready).text
           n == Len(wire)
           q == writeQueue
           m == Len(q)
<1>1. ready # <<>> /\ Head(ready).op = "send" /\ stage = "done"
  BY RunsHead DEF SendPosted
<1>2. ready \in Seq(Handlers) /\ OneWrite(ready) /\ Increasing(ready) /\ q \in Seq(Nat) /\ n \in Nat /\ m \in Nat /\ posted \in Nat
  BY DEF SocketInv, Types, PipeInv
<1>3. /\ Tail(ready) \in Seq(Handlers) /\ Head(ready) \in Handlers
      /\ Texts(ready) = {x} \cup Texts(Tail(ready)) /\ \A r \in Texts(Tail(ready)) : x < r
      /\ WriteOks(Tail(ready)) = WriteOks(ready) /\ OneWrite(Tail(ready)) /\ Increasing(Tail(ready))
  BY <1>1, <1>2, TailHandler
<1>4. x \in Nat
  BY <1>3 DEF Handlers
<1>5. ready' = Tail(ready) /\ q' = Append(q, x) /\ flight' = (IF q = <<>> THEN Append(flight, x) ELSE flight)
      /\ UNCHANGED <<wire, posted, open>> /\ open
  BY DEF SendPosted, user, flags
<1> HIDE DEF x, q, n, m
<1>6. q = <<>> => x = n + 1 /\ x <= posted /\ Texts(ready') = x + 1 .. posted /\ flight = <<>> /\ WriteOks(ready') = {}
  <2> SUFFICES ASSUME q = <<>>
               PROVE  x = n + 1 /\ x <= posted /\ Texts(ready') = x + 1 .. posted /\ flight = <<>> /\ WriteOks(ready') = {}
    OBVIOUS
  <2>1. Texts(ready) = n + 1 .. posted /\ flight = <<>> /\ WriteOks(ready) = {}
    BY <1>5 DEF SocketInv, PipeInv, q, n
  <2>2. x = n + 1 /\ x <= posted /\ Texts(Tail(ready)) = (n + 1) + 1 .. posted
    <3>1. n + 1 \in Nat
      BY <1>2
    <3> QED BY <1>2, <1>3, <2>1, <3>1, LeastText
  <2> QED BY <1>3, <1>5, <2>1, <2>2
<1>7. q # <<>> => x = q[1] + m /\ x <= posted /\ Texts(ready') = x + 1 .. posted /\ q[1] \in Nat /\ m > 0
  <2> SUFFICES ASSUME q # <<>>
               PROVE  x = q[1] + m /\ x <= posted /\ Texts(ready') = x + 1 .. posted /\ q[1] \in Nat /\ m > 0
    OBVIOUS
  <2>1. Texts(ready) = q[1] + m .. posted
    BY <1>5 DEF SocketInv, PipeInv, q, m
  <2>2. q[1] \in Nat /\ m > 0
    BY <1>2 DEF m
  <2>3. x = q[1] + m /\ x <= posted /\ Texts(Tail(ready)) = (q[1] + m) + 1 .. posted
    <3>1. q[1] + m \in Nat
      BY <1>2, <2>2
    <3> QED BY <1>2, <1>3, <2>1, <3>1, LeastText
  <2> QED BY <1>5, <2>2, <2>3
<1>8. /\ q' \in Seq(Nat) /\ q' # <<>> /\ Len(q') = m + 1 /\ DOMAIN q = 1 .. m /\ DOMAIN q' = 1 .. m + 1
      /\ q'[m + 1] = x /\ \A i \in 1 .. m : q'[i] = q[i]
  BY <1>2, <1>4, <1>5 DEF m
<1>9. q'[1] = (IF q = <<>> THEN x ELSE q[1]) /\ q'[1] + Len(q') = x + 1 /\ q'[1] \in Nat
  <2>1. CASE q = <<>>
    <3>1. m = 0
      BY <2>1 DEF m
    <3> QED BY <1>4, <1>8, <2>1, <3>1
  <2>2. CASE q # <<>>
    BY <1>2, <1>7, <1>8, <2>2
  <2> QED BY <2>1, <2>2
<1>10. QueueInv'
  <2>1. ASSUME NEW i \in 1 .. m
        PROVE  q[i] = q[1] + i - 1 /\ q[i] \in 1 .. posted
    BY <1>8 DEF SocketInv, QueueInv, q
  <2>2. ASSUME NEW i \in 1 .. m + 1
        PROVE  q'[i] = q'[1] + i - 1 /\ q'[i] \in 1 .. posted
    <3>1. CASE i = m + 1
      <4>1. x = q'[1] + m /\ x \in 1 .. posted
        BY <1>2, <1>4, <1>6, <1>7, <1>8, <1>9
      <4> QED BY <1>2, <1>8, <1>9, <3>1, <4>1
    <3>2. CASE i \in 1 .. m
      <4>1. q # <<>>
        BY <1>2, <3>2 DEF m
      <4> QED BY <1>8, <1>9, <2>1, <3>2, <4>1
    <3> QED BY <1>2, <3>1, <3>2
  <2> QED BY <1>5, <1>8, <2>2 DEF QueueInv, q
<1>11. flight' \in Seq(Nat) /\ (q = <<>> => flight' = <<x>>)
  <2>1. flight \in Seq(Nat)
    BY DEF SocketInv, Types
  <2>2. CASE q = <<>>
    BY <1>4, <1>5, <1>6, <2>2
  <2>3. CASE q # <<>>
    BY <1>5, <2>1, <2>3
  <2> QED BY <2>2, <2>3
<1>12. Types' /\ StageInv' /\ ReportInv'
  <2>1. wire' \in Seq(Nat) /\ posted' \in Nat /\ ready' \in Seq(Handlers) /\ writeQueue' \in Seq(Nat)
    BY <1>3, <1>5, <1>8 DEF SocketInv, Types, q
  <2> QED BY <1>1, <1>11, <2>1, MovesText DEF SendPosted, user
<1>13. PostedInv'
  BY PostedQuiet DEF SendPosted, user
<1>14. PipeInv'
  <2>1. (Len(wire) <= posted /\ \A i \in DOMAIN wire : wire[i] = i)'
    BY <1>5 DEF SocketInv, PipeInv
  <2>2. (flight # <<>> => flight = <<Len(wire) + 1>> /\ Len(wire) < posted /\ WriteOks(ready) = {})'
    <3>1. CASE q = <<>>
      BY <1>2, <1>5, <1>6, <1>11, <3>1 DEF n
    <3>2. CASE q # <<>>
      BY <1>3, <1>5, <3>2 DEF SocketInv, PipeInv
    <3> QED BY <3>1, <3>2
  <2>3. (OneWrite(ready) /\ Increasing(ready) /\ Texts(ready) \subseteq 1 .. posted)'
    BY <1>3, <1>5 DEF SocketInv, PipeInv
  <2>4. (writeQueue # <<>> /\ flight # <<>> => writeQueue[1] = Len(wire) + 1)'
    <3>1. CASE q = <<>>
      BY <1>5, <1>6, <1>9, <3>1 DEF n, q
    <3>2. CASE q # <<>>
      BY <1>5, <1>9, <3>2 DEF SocketInv, PipeInv, q
    <3> QED BY <3>1, <3>2
  <2>5. (writeQueue # <<>> /\ TRUE \in WriteOks(ready) => writeQueue[1] = Len(wire))'
    <3>1. CASE q = <<>>
      BY <1>6, <3>1
    <3>2. CASE q # <<>>
      BY <1>3, <1>5, <1>9, <3>2 DEF SocketInv, PipeInv, q
    <3> QED BY <3>1, <3>2
  <2>6. (open /\ writeQueue = <<>> =>
            flight = <<>> /\ WriteOks(ready) = {} /\ Texts(ready) = Len(wire) + 1 .. posted)'
    BY <1>8 DEF q
  <2>7. (open /\ writeQueue # <<>> => Texts(ready) = writeQueue[1] + Len(writeQueue) .. posted)'
    BY <1>5, <1>6, <1>7, <1>9 DEF q
  <2> QED BY <2>1, <2>2, <2>3, <2>4, <2>5, <2>6, <2>7 DEF PipeInv
<1> QED BY <1>10, <1>12, <1>13, <1>14 DEF SocketInv

LEMMA doWriteDoneInv ==
    ASSUME SocketInv, doWriteDone
    PROVE  SocketInv'
<1> DEFINE n == Len(wire)
           q == writeQueue
           m == Len(q)
<1>1. ready # <<>> /\ Head(ready).op = "write" /\ Head(ready).ok = TRUE /\ stage = "done" /\ q # <<>>
  BY RunsHead DEF doWriteDone
<1>2. ready \in Seq(Handlers) /\ OneWrite(ready) /\ Increasing(ready) /\ q \in Seq(Nat) /\ n \in Nat /\ m \in Nat /\ posted \in Nat
  BY DEF SocketInv, Types, PipeInv
<1>3. /\ Tail(ready) \in Seq(Handlers) /\ Texts(Tail(ready)) = Texts(ready)
      /\ WriteOks(ready) = {TRUE} /\ WriteOks(Tail(ready)) = {} /\ OneWrite(Tail(ready)) /\ Increasing(Tail(ready))
  BY <1>1, <1>2, TailHandler
<1>4. flight = <<>> /\ q[1] = n
  BY <1>1, <1>3 DEF SocketInv, PipeInv
<1>5. ready' = Tail(ready) /\ q' = Tail(q) /\ flight' = (IF m > 1 THEN Append(flight, q[2]) ELSE flight)
      /\ UNCHANGED <<wire, posted, open>>
  BY DEF doWriteDone, user, flags
<1> HIDE DEF q, n, m
<1>6. /\ q' \in Seq(Nat) /\ m > 0 /\ Len(q') = m - 1 /\ DOMAIN q = 1 .. m /\ DOMAIN q' = 1 .. m - 1
      /\ \A i \in 1 .. m - 1 : q'[i] = q[i + 1]
  BY <1>1, <1>2, <1>5 DEF m
<1>7. ASSUME NEW i \in 1 .. m
      PROVE  q[i] = n + i - 1 /\ q[i] \in 1 .. posted
  BY <1>4, <1>6 DEF SocketInv, QueueInv, q
<1>8. m > 1 => flight' = <<n + 1>> /\ n < posted /\ q'[1] = n + 1 /\ q' # <<>>
  <2> SUFFICES ASSUME m > 1
               PROVE  flight' = <<n + 1>> /\ n < posted /\ q'[1] = n + 1 /\ q' # <<>>
    OBVIOUS
  <2>1. q[2] = n + 1 /\ n < posted
    BY <1>2, <1>7
  <2>2. q'[1] = q[2] /\ q' # <<>>
    BY <1>2, <1>6
  <2> QED BY <1>4, <1>5, <2>1, <2>2
<1>9. ~(m > 1) => m = 1 /\ flight' = <<>> /\ q' = <<>>
  <2> SUFFICES ASSUME ~(m > 1)
               PROVE  m = 1 /\ flight' = <<>> /\ q' = <<>>
    OBVIOUS
  <2>1. m = 1
    BY <1>2, <1>6
  <2>2. Len(q') = 0
    BY <1>6, <2>1
  <2> QED BY <1>4, <1>5, <1>6, <2>1, <2>2
<1>10. flight' \in Seq(Nat)
  <2>1. <<n + 1>> \in Seq(Nat) /\ <<>> \in Seq(Nat)
    BY <1>2
  <2> QED BY <1>8, <1>9, <2>1
<1>11. Types' /\ StageInv' /\ ReportInv'
  <2>1. wire' \in Seq(Nat) /\ posted' \in Nat /\ ready' \in Seq(Handlers) /\ writeQueue' \in Seq(Nat)
    BY <1>3, <1>5, <1>6 DEF SocketInv, Types, q
  <2> QED BY <1>1, <1>10, <2>1, MovesText DEF doWriteDone, user
<1>12. PostedInv'
  BY PostedQuiet DEF doWriteDone, user
<1>13. QueueInv'
  <2>1. ASSUME NEW i \in 1 .. m - 1
        PROVE  q'[i] = q'[1] + i - 1 /\ q'[i] \in 1 .. posted
    <3>1. i + 1 \in 1 .. m /\ 2 \in 1 .. m /\ 1 \in 1 .. m - 1
      BY <1>2
    <3>2. q'[i] = q[i + 1] /\ q'[1] = q[2]
      BY <1>6, <3>1
    <3>3. q[i + 1] = n + (i + 1) - 1 /\ q[i + 1] \in 1 .. posted /\ q[2] = n + 2 - 1
      BY <1>7, <3>1
    <3> QED BY <1>2, <3>2, <3>3
  <2> QED BY <1>5, <1>6, <2>1 DEF QueueInv, q
<1>14. PipeInv'
  <2>1. (Len(wire) <= posted /\ \A i \in DOMAIN wire : wire[i] = i)'
    BY <1>5 DEF SocketInv, PipeInv
  <2>2. (flight # <<>> => flight = <<Len(wire) + 1>> /\ Len(wire) < posted /\ WriteOks(ready) = {})'
    BY <1>3, <1>5, <1>8, <1>9 DEF n
  <2>3. (OneWrite(ready) /\ Increasing(ready) /\ Texts(ready) \subseteq 1 .. posted)'
    BY <1>3, <1>5 DEF SocketInv, PipeInv
  <2>4. (writeQueue # <<>> /\ flight # <<>> => writeQueue[1] = Len(wire) + 1)'
    BY <1>5, <1>8, <1>9 DEF n, q
  <2>5. (writeQueue # <<>> /\ TRUE \in WriteOks(ready) => writeQueue[1] = Len(wire))'
    BY <1>3, <1>5
  <2>6. open => Texts(ready) = n + m .. posted
    BY <1>1, <1>4 DEF SocketInv, PipeInv, q, m
  <2>7. (open /\ writeQueue = <<>> =>
            flight = <<>> /\ WriteOks(ready) = {} /\ Texts(ready) = Len(wire) + 1 .. posted)'
    BY <1>3, <1>5, <1>8, <1>9, <2>6 DEF n, q
  <2>8. (open /\ writeQueue # <<>> => Texts(ready) = writeQueue[1] + Len(writeQueue) .. posted)'
    <3>1. m > 1 => q'[1] + Len(q') = n + m
      BY <1>2, <1>6, <1>8
    <3> QED BY <1>3, <1>5, <1>9, <2>6, <3>1 DEF q
  <2> QED BY <2>1, <2>2, <2>3, <2>4, <2>5, <2>7, <2>8 DEF PipeInv
<1> QED BY <1>11, <1>12, <1>13, <1>14 DEF SocketInv

-----------------------------------------------------------------------------
(* The threads that use the connection. *)

LEMMA SendingStep ==
    ASSUME Types, NEW u \in Users \cup {IO}, NEW from, NEW to \in PCs, Goto(u, from, to)
    PROVE  /\ pc' \in [Users \cup {IO} -> PCs]
           /\ Cardinality(Sending) \in Nat /\ Cardinality(Sending') \in Nat
           /\ (from \in {"send", "send_post"} <=> to \in {"send", "send_post"}) => Sending' = Sending
           /\ from \notin {"send", "send_post"} /\ to \in {"send", "send_post"} =>
                    Cardinality(Sending') = Cardinality(Sending) + 1
           /\ from \in {"send", "send_post"} /\ to \notin {"send", "send_post"} =>
                    Cardinality(Sending') = Cardinality(Sending) - 1
<1> DEFINE S == {"send", "send_post"}
           All == Users \cup {IO}
<1>1. pc \in [All -> PCs] /\ pc[u] = from /\ pc' = [pc EXCEPT ![u] = to]
  BY DEF Types, Goto
<1>2. IsFiniteSet(All)
  BY UsersAssumption, FS_AddElement
<1>3. IsFiniteSet(Sending) /\ Cardinality(Sending) \in Nat
  BY <1>2, FS_Subset, FS_CardinalityType DEF Sending
<1>4. (from \in S <=> to \in S) => Sending' = Sending
  BY <1>1 DEF Sending
<1>5. from \notin S /\ to \in S => Sending' = Sending \cup {u} /\ u \notin Sending
  BY <1>1 DEF Sending
<1>6. from \in S /\ to \notin S => Sending' = Sending \ {u} /\ u \in Sending
  BY <1>1 DEF Sending
<1>7. Cardinality(Sending') \in Nat
  <2>1. Sending' \subseteq All
    BY DEF Sending
  <2> QED BY <1>2, <2>1, FS_Subset, FS_CardinalityType
<1>8. from \notin S /\ to \in S => Cardinality(Sending') = Cardinality(Sending) + 1
  BY <1>3, <1>5, FS_AddElement
<1>9. from \in S /\ to \notin S => Cardinality(Sending') = Cardinality(Sending) - 1
  BY <1>3, <1>6, FS_RemoveElement
<1> QED BY <1>1, <1>3, <1>4, <1>7, <1>8, <1>9

\* A thread that moves without posting a text, and may bring the connection down or post the close.
LEMMA MovesThread ==
    ASSUME SocketInv, NEW u \in Users \cup {IO}, NEW from, NEW to \in PCs, Goto(u, from, to),
           to \in {"send", "send_post"} => from \in {"send", "send_post"} \/ (open /\ posted + Cardinality(Sending) < MaxTexts),
           ready' \in {ready, Append(ready, Handler("beginClose", TRUE))},
           open' = open \/ open' = FALSE, open' \in BOOLEAN, closeCalled' \in BOOLEAN, joinLock' \in Users \cup {IO},
           UNCHANGED <<connecting, closeReported, setup, socket, pending, flight, writeQueue, io, posted, wire, onCloses>>
    PROVE  SocketInv'
<1>1. /\ pc' \in [Users \cup {IO} -> PCs]
      /\ Cardinality(Sending) \in Nat /\ Cardinality(Sending') \in Nat
      /\ (from \in {"send", "send_post"} <=> to \in {"send", "send_post"}) => Sending' = Sending
      /\ from \notin {"send", "send_post"} /\ to \in {"send", "send_post"} =>
               Cardinality(Sending') = Cardinality(Sending) + 1
      /\ from \in {"send", "send_post"} /\ to \notin {"send", "send_post"} =>
               Cardinality(Sending') = Cardinality(Sending) - 1
  BY SendingStep DEF SocketInv
<1>2. PostedInv'
  BY <1>1, TextsAssumption DEF SocketInv, PostedInv, Types
<1> DEFINE h == Handler("beginClose", TRUE)
<1>3. h \in Handlers /\ h.op = "beginClose"
  BY DEF Handler, Handlers, HandlerOps
<1>4. ready' = ready \/ ready' = Append(ready, h)
  OBVIOUS
<1> HIDE DEF h
<1>5. Quiet /\ Ops(ready') \subseteq Ops(ready) \cup {"beginClose"} /\ Texts(ready') = Texts(ready)
  BY <1>3, <1>4, QuietReady
<1>6. PipeInv' /\ QueueInv'
  BY <1>5, QuietPipe
<1>7. Types'
  BY <1>1, <1>5 DEF SocketInv, Types, Quiet, setup
<1>8. StageInv'
  <2>1. stage # "done" => to \notin {"send", "send_post"}
    BY DEF SocketInv, StageInv, Goto
  <2>2. stage # "done" => \A v \in Users \cup {IO} : pc'[v] \notin {"send", "send_post"}
    BY <2>1 DEF SocketInv, StageInv, Types, Goto
  <2> QED BY <1>5, <2>2 DEF SocketInv, StageInv, setup
<1>9. ReportInv'
  BY DEF SocketInv, ReportInv
<1> QED BY <1>2, <1>6, <1>7, <1>8, <1>9 DEF SocketInv

LEMMA SendPostInv ==
    ASSUME SocketInv, NEW u \in Users \cup {IO}, SendPost(u)
    PROVE  SocketInv'
<1> DEFINE h == [op |-> "send", ok |-> TRUE, text |-> posted + 1]
<1>1. posted \in Nat /\ posted' = posted + 1 /\ ready' = Append(ready, h) /\ Goto(u, "send_post", "idle")
  BY DEF SocketInv, Types, SendPost
<1>2. h \in Handlers /\ h.op = "send" /\ h.text = posted + 1
  BY <1>1 DEF Handlers, HandlerOps
<1> HIDE DEF h
<1>3. stage = "done"
  BY <1>1 DEF SocketInv, StageInv, Goto
<1>4. /\ pc' \in [Users \cup {IO} -> PCs] /\ Cardinality(Sending) \in Nat
      /\ Cardinality(Sending') = Cardinality(Sending) - 1
  BY <1>1, SendingStep DEF SocketInv, PCs
<1>5. PostedInv'
  BY <1>1, <1>4, TextsAssumption DEF SocketInv, PostedInv
<1>6. ready \in Seq(Handlers) /\ OneWrite(ready) /\ Increasing(ready) /\ Texts(ready) \subseteq 1 .. posted
  BY DEF SocketInv, Types, PipeInv
<1>7. \A x \in Texts(ready) : x < h.text
  BY <1>1, <1>2, <1>6
<1>8. /\ ready' \in Seq(Handlers) /\ Texts(ready') = Texts(ready) \cup {posted + 1} /\ WriteOks(ready') = WriteOks(ready)
      /\ OneWrite(ready') /\ Increasing(ready')
  BY <1>1, <1>2, <1>6, <1>7, AppendHandler, AppendOrder
<1>9. UNCHANGED <<open, stage, flight, writeQueue, wire, io>>
  BY DEF SendPost, flags, setup
<1>10. Types'
  BY <1>1, <1>4, <1>8 DEF SocketInv, Types, SendPost, flags, setup
<1>11. StageInv' /\ ReportInv'
  BY <1>3 DEF SocketInv, StageInv, ReportInv, SendPost, flags, setup
<1>12. QueueInv'
  BY <1>1, <1>9 DEF SocketInv, QueueInv
<1>13. ASSUME NEW a \in Nat, a <= posted + 1
       PROVE  (a .. posted) \cup {posted + 1} = a .. posted + 1
  BY <1>1, <1>13
<1>14. PipeInv'
  <2>1. (Len(wire) <= posted /\ \A i \in DOMAIN wire : wire[i] = i)'
    BY <1>1, <1>9 DEF SocketInv, PipeInv, Types
  <2>2. (flight # <<>> => flight = <<Len(wire) + 1>> /\ Len(wire) < posted /\ WriteOks(ready) = {})'
    BY <1>1, <1>8, <1>9 DEF SocketInv, PipeInv, Types
  <2>3. (OneWrite(ready) /\ Increasing(ready) /\ Texts(ready) \subseteq 1 .. posted)'
    BY <1>1, <1>6, <1>8
  <2>4. (writeQueue # <<>> /\ flight # <<>> => writeQueue[1] = Len(wire) + 1)'
    BY <1>9 DEF SocketInv, PipeInv
  <2>5. (writeQueue # <<>> /\ TRUE \in WriteOks(ready) => writeQueue[1] = Len(wire))'
    BY <1>8, <1>9 DEF SocketInv, PipeInv
  <2>6. (open /\ writeQueue = <<>> =>
            flight = <<>> /\ WriteOks(ready) = {} /\ Texts(ready) = Len(wire) + 1 .. posted)'
    <3> DEFINE a == Len(wire) + 1
    <3>1. a \in Nat /\ a <= posted + 1
      BY <1>1 DEF SocketInv, PipeInv, Types
    <3>2. a' = a
      BY <1>9
    <3> HIDE DEF a
    <3>3. (a .. posted) \cup {posted + 1} = a .. posted + 1
      BY <1>13, <3>1
    <3>4. open /\ writeQueue = <<>> => flight = <<>> /\ WriteOks(ready) = {} /\ Texts(ready) = a .. posted
      BY DEF SocketInv, PipeInv, a
    <3>5. (open /\ writeQueue = <<>> => flight = <<>> /\ WriteOks(ready) = {} /\ Texts(ready) = a .. posted)'
      BY <1>1, <1>8, <1>9, <3>2, <3>3, <3>4
    <3> QED BY <3>5 DEF a
  <2>7. (open /\ writeQueue # <<>> => Texts(ready) = writeQueue[1] + Len(writeQueue) .. posted)'
    <3> SUFFICES ASSUME open', writeQueue' # <<>>
                 PROVE  Texts(ready') = writeQueue'[1] + Len(writeQueue') .. posted'
      OBVIOUS
    <3> DEFINE a == writeQueue[1] + Len(writeQueue)
               m == Len(writeQueue)
    <3>1. m \in Nat /\ m > 0 /\ writeQueue[1] \in Nat /\ DOMAIN writeQueue = 1 .. m
      BY <1>9 DEF SocketInv, Types
    <3> HIDE DEF m
    <3>2. writeQueue[m] = writeQueue[1] + m - 1 /\ writeQueue[m] <= posted
      BY <1>1, <3>1 DEF SocketInv, QueueInv
    <3>3. a \in Nat /\ a <= posted + 1
      BY <1>1, <3>1, <3>2 DEF m
    <3>4. Texts(ready) = a .. posted
      BY <1>9 DEF SocketInv, PipeInv
    <3>5. a' = a
      BY <1>9
    <3> HIDE DEF a
    <3>6. Texts(ready') = a' .. posted'
      BY <1>1, <1>8, <1>13, <3>3, <3>4, <3>5
    <3> QED BY <3>6 DEF a
  <2> QED BY <2>1, <2>2, <2>3, <2>4, <2>5, <2>6, <2>7 DEF PipeInv
<1> QED BY <1>5, <1>10, <1>11, <1>12, <1>14 DEF SocketInv

LEMMA UserInv ==
    ASSUME SocketInv, NEW u \in Users \cup {IO},
           UserStep(u) \/ ConnectStep \/ CloseOnIoThread
    PROVE  SocketInv'
<1> DEFINE Moves(v, from, to) ==
        /\ Goto(v, from, to)
        /\ to \in {"send", "send_post"} =>
                from \in {"send", "send_post"} \/ (open /\ posted + Cardinality(Sending) < MaxTexts)
        /\ ready' \in {ready, Append(ready, Handler("beginClose", TRUE))}
        /\ open' = open \/ open' = FALSE
        /\ open' \in BOOLEAN /\ closeCalled' \in BOOLEAN /\ joinLock' \in Users \cup {IO}
        /\ UNCHANGED <<connecting, closeReported, setup, socket, pending, flight, writeQueue, io, posted, wire, onCloses>>
<1>0. /\ Owner \in Users \cup {IO} /\ IO \in Users \cup {IO}
      /\ open \in BOOLEAN /\ closeCalled \in BOOLEAN /\ joinLock \in Users \cup {IO}
  BY OwnerAssumption DEF SocketInv, Types
<1>a. ASSUME NEW v \in Users \cup {IO}, NEW from, NEW to \in PCs, Moves(v, from, to)
      PROVE  SocketInv'
  BY <1>a, MovesThread
<1> USE DEF flags
<1>1. CASE SendCall(u)
  <2>1. {v \in DOMAIN pc : pc[v] \in {"send", "send_post"}} = Sending
    BY DEF SocketInv, Types, Sending
  <2>2. Moves(u, "idle", "send")
    BY <1>0, <1>1, <2>1 DEF SendCall
  <2> QED BY <1>a, <2>2 DEF PCs
<1>2. CASE SendRefused(u)
  <2>1. Moves(u, "send", "idle")
    BY <1>0, <1>2 DEF SendRefused
  <2> QED BY <1>a, <2>1 DEF PCs
<1>3. CASE SendChecked(u)
  <2>1. Moves(u, "send", "send_post")
    BY <1>0, <1>3 DEF SendChecked
  <2> QED BY <1>a, <2>1 DEF PCs
<1>4. CASE SendPost(u)
  BY <1>4, SendPostInv
<1>5. CASE CloseCall(u)
  <2>1. Moves(u, "idle", "join") \/ Moves(u, "idle", "close_open")
    BY <1>0, <1>5 DEF CloseCall
  <2> QED BY <1>a, <2>1 DEF PCs
<1>6. CASE CloseOpen(u)
  <2>1. Moves(u, "close_open", "close_post")
    BY <1>0, <1>6 DEF CloseOpen
  <2> QED BY <1>a, <2>1 DEF PCs
<1>7. CASE ClosePost(u)
  <2>1. Moves(u, "close_post", "join")
    BY <1>0, <1>7 DEF ClosePost
  <2> QED BY <1>a, <2>1 DEF PCs
<1>8. CASE LockJoin(u)
  <2>1. Moves(u, "join", "joining")
    BY <1>0, <1>8 DEF LockJoin
  <2> QED BY <1>a, <2>1 DEF PCs
<1>9. CASE Joined(u)
  <2>1. Moves(u, "joining", "closed")
    BY <1>0, <1>9 DEF Joined
  <2> QED BY <1>a, <2>1 DEF PCs
<1>10. CASE ConnectSucceeds
  <2>1. Moves(Owner, "connecting", "idle")
    BY <1>0, <1>10 DEF ConnectSucceeds
  <2> QED BY <1>0, <1>a, <2>1 DEF PCs
<1>11. CASE ConnectFails
  <2>1. Moves(Owner, "connecting", "fail_join")
    BY <1>0, <1>11 DEF ConnectFails
  <2> QED BY <1>0, <1>a, <2>1 DEF PCs
<1>12. CASE ConnectJoined
  <2>1. Moves(Owner, "fail_join", "failed")
    BY <1>0, <1>12 DEF ConnectJoined
  <2> QED BY <1>0, <1>a, <2>1 DEF PCs
<1>13. CASE CloseOnIoThread
  <2>1. Moves(IO, "join", "idle")
    BY <1>0, <1>13 DEF CloseOnIoThread
  <2> QED BY <1>0, <1>a, <2>1 DEF PCs
<1> QED
  BY <1>1, <1>2, <1>3, <1>4, <1>5, <1>6, <1>7, <1>8, <1>9, <1>10, <1>11, <1>12, <1>13
     DEF UserStep, CloseStep, ConnectStep

-----------------------------------------------------------------------------
LEMMA SocketInit ==
    ASSUME Init
    PROVE  SocketInv
<1>1. Types
  <2>1. pc \in [Users \cup {IO} -> PCs]
    BY DEF Init, PCs
  <2>2. ready \in Seq(Handlers) /\ flight \in Seq(Nat) /\ writeQueue \in Seq(Nat) /\ wire \in Seq(Nat)
    BY DEF Init
  <2> QED BY <2>1, <2>2 DEF Init, Types, PendingOps, IOs
<1>2. Ops(ready) = {} /\ Texts(ready) = {} /\ WriteOks(ready) = {} /\ OneWrite(ready) /\ Increasing(ready)
  BY DEF Init, Ops, Texts, WriteOks, OneWrite, Increasing
<1>3. StageInv
  BY <1>2 DEF Init, StageInv
<1>4. ReportInv
  BY DEF Init, ReportInv
<1>5. PostedInv
  <2>1. Sending = {}
    BY DEF Init, Sending
  <2> QED BY <2>1, FS_EmptySet, TextsAssumption DEF Init, PostedInv
<1>6. QueueInv
  BY DEF Init, QueueInv
<1>7. PipeInv
  BY <1>2 DEF Init, PipeInv
<1> QED BY <1>1, <1>3, <1>4, <1>5, <1>6, <1>7 DEF SocketInv

LEMMA SocketNext ==
    ASSUME SocketInv, [Next]_vars
    PROVE  SocketInv'
<1>1. CASE \E op \in pending, ok \in BOOLEAN : Completes(op, ok)
  BY <1>1, CompletesInv
<1>2. CASE \E ok \in BOOLEAN : WriteCompletes(ok)
  BY <1>2, WriteCompletesInv
<1>3. CASE HandlerStep \/ CallbackEnds
  BY <1>3, HandlerInv, finishSetupInv, SendPostedInv, doWriteDoneInv
<1>4. CASE ConnectStep \/ CloseOnIoThread \/ \E u \in Users \cup {IO} : UserStep(u)
  BY <1>4, UserInv
<1>5. CASE UNCHANGED vars
  <2> USE <1>5 DEF vars, flags, setup, user
  <2>1. Types' /\ StageInv' /\ ReportInv'
    BY DEF SocketInv, Types, StageInv, ReportInv
  <2>2. PostedInv' /\ QueueInv' /\ PipeInv'
    BY DEF SocketInv, PostedInv, Sending, QueueInv, PipeInv
  <2> QED BY <2>1, <2>2 DEF SocketInv
<1> QED BY <1>1, <1>2, <1>3, <1>4, <1>5 DEF Next, Completion

\* The invariant says what is promised of the texts and of onClose.
LEMMA SocketSound ==
    ASSUME SocketInv
    PROVE  TransportIsSound
<1>1. TypeOK
  <2>1. posted \in 0 .. MaxTexts
    <3>1. IsFiniteSet(Users \cup {IO})
      BY UsersAssumption, FS_AddElement
    <3>2. Cardinality(Sending) \in Nat
      BY <3>1, FS_Subset, FS_CardinalityType DEF Sending
    <3> QED BY <3>2, TextsAssumption DEF SocketInv, PostedInv, Types
  <2> QED BY <2>1 DEF SocketInv, Types, QueueInv, TypeOK, flags, PendingOps, IOs
<1>2. SentInOrder
  <2> DEFINE all == [i \in 1 .. posted |-> i]
             n == Len(wire)
  <2>1. /\ wire \in Seq(Nat) /\ posted \in Nat /\ n \in Nat /\ n <= posted /\ DOMAIN wire = 1 .. n
        /\ \A i \in DOMAIN wire : wire[i] = i
    BY DEF SocketInv, Types, PipeInv
  <2>2. all \in Seq(Nat) /\ Len(all) = posted
    BY <2>1
  <2>3. wire = SubSeq(all, 1, n)
    <3>1. SubSeq(all, 1, n) = [i \in 1 .. n |-> i]
      BY <2>1, <2>2
    <3>2. wire = [i \in 1 .. n |-> i]
      BY <2>1
    <3> QED BY <3>1, <3>2
  <2> QED BY <2>1, <2>2, <2>3 DEF SentInOrder, IsPrefix
<1>3. ClosedOnce
  BY DEF SocketInv, StageInv, ReportInv, Types, ClosedOnce
<1> QED BY <1>1, <1>2, <1>3 DEF TransportIsSound

(***************************************************************************)
(* Texts reach the socket once each and in the order sendText posted them, *)
(* and onClose is called at most once, after an established connection has *)
(* gone down: for any number of users and texts, in every interleaving of  *)
(* reads, writes, timers, errors and close() (rawWebsocket.hpp doWrite,    *)
(* onIoError, reportClose).                                                *)
(***************************************************************************)
THEOREM SocketTransportIsSound == Spec => []TransportIsSound
<1>1. SocketInv /\ [Next]_vars => SocketInv'
  BY SocketNext
<1> QED BY <1>1, SocketInit, SocketSound, PTL DEF Spec

(***************************************************************************)
(* close(), whoever calls it and however many do, and a connect() that     *)
(* fails return only when the I/O thread has ended, which it does for good *)
(* (rawWebsocket.hpp close, connect).                                      *)
(***************************************************************************)
THEOREM SocketNoCallbackAfterClose == Spec => []NoCallbackAfterClose
<1>1. Init => NoCallbackAfterClose
  BY DEF Init, NoCallbackAfterClose
<1>2. SocketInv /\ NoCallbackAfterClose /\ [Next]_vars => NoCallbackAfterClose'
  <2> SUFFICES ASSUME SocketInv, NoCallbackAfterClose, [Next]_vars
               PROVE  NoCallbackAfterClose'
    OBVIOUS
  <2>1. io = "stopped" => io' = "stopped"
    BY DEF Next, Completion, HandlerStep, ConnectStep, UserStep, CloseStep, Completes, WriteCompletes, Runs,
           SetupDeadline, TimerCancelled, SetupContinues, finishSetup, finishSetupFails, ReadMessage, ReadOther,
           startRead, SendPosted, SendDropped, doWriteDone, doWritePopsEmpty, onIoError, ErrorExpected,
           ErrorDropsSocket, reportClose, beginCloseStops, beginClose, CloseEnds, OutOfWork, CallbackEnds,
           ConnectSucceeds, ConnectFails, ConnectJoined, SendCall, SendRefused, SendChecked, SendPost,
           CloseCall, CloseOpen, ClosePost, CloseOnIoThread, LockJoin, Joined, vars
  <2>2. pc' = pc \/ io = "stopped" \/ \E u \in Users \cup {IO}, from \in PCs, to \in PCs \ {"closed", "failed"} : Goto(u, from, to)
    BY OwnerAssumption DEF Next, Completion, HandlerStep, ConnectStep, UserStep, CloseStep, Completes, WriteCompletes, Runs,
           SetupDeadline, TimerCancelled, SetupContinues, finishSetup, finishSetupFails, ReadMessage, ReadOther,
           startRead, SendPosted, SendDropped, doWriteDone, doWritePopsEmpty, onIoError, ErrorExpected,
           ErrorDropsSocket, reportClose, beginCloseStops, beginClose, CloseEnds, OutOfWork, CallbackEnds,
           ConnectSucceeds, ConnectFails, ConnectJoined, SendCall, SendRefused, SendChecked, SendPost,
           CloseCall, CloseOpen, ClosePost, CloseOnIoThread, LockJoin, Joined, vars, user, PCs
  <2> QED BY <2>1, <2>2 DEF NoCallbackAfterClose, SocketInv, Types, Goto
<1>3. SocketInv /\ [Next]_vars => SocketInv'
  BY SocketNext
<1> QED BY <1>1, <1>2, <1>3, SocketInit, PTL DEF Spec
=============================================================================
